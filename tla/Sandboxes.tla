------------------------------ MODULE Sandboxes ------------------------------
(***************************************************************************)
(* The backends of execute_in_sandbox, side by side.  A deployment chooses *)
(* one of them (AI_ETL_SANDBOX_BACKEND); the callers rely on what they     *)
(* have in common.                                                         *)
(***************************************************************************)
EXTENDS Sandbox, RemoteSandbox

\* Whichever sandbox it is, execute_in_sandbox is the bounded call that its callers
\* rely on (execute_in_sandbox and the two execute_in_*_sandbox of core/).
SandboxesImplementBoundedCall == ImplementsBoundedCall /\ RemoteImplementsBoundedCall
=============================================================================
