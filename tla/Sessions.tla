-------------------------------- MODULE Sessions --------------------------------
(***************************************************************************)
(* A session of the agent: the loop that stores its messages (AgentRun) and   *)
(* the adapters that hand them to a provider and read its stream (Adapters).  *)
(* The loop knows of a turn how many tools it asks for, the adapters what it  *)
(* calls and with which signature; what the two promise together is stated    *)
(* here.                                                                   *)
(***************************************************************************)
EXTENDS AgentRun, Adapters

SessionsSpec == AgentSpec /\ AdapterSpec

\* What a session stores can be handed to a provider again, and a stream that has
\* given its consumer something never runs its tools a second time (core.py, session.py);
\* the calls of a turn are the model's, and whichever provider the session goes to next is
\* told what was called and answered (adapters/openai.py, adapters/gemini.py).
RunsCanBeTrusted ==
    TranscriptsReplay /\ StreamsActOnce /\ CallsAreTheModels /\ RequestsAreFaithful
================================================================================
