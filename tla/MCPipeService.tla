---------------------------- MODULE MCPipeService ------------------------------
(***************************************************************************)
(* Two ipc commands against one service process.                           *)
(***************************************************************************)
EXTENDS PipeService
================================================================================
