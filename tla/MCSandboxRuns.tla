----------------------------- MODULE MCSandboxRuns -----------------------------
(* A small instance of SandboxRuns for TLC. *)
EXTENDS SandboxRuns

CONSTANTS a, b
================================================================================
