---------------------------- MODULE MCProviders -----------------------------
(***************************************************************************)
(* A provider, for TLC: three requests at its limiter, with two slots and  *)
(* a window of two, or one stream of native Anthropic events with several  *)
(* blocks.  The two share no state; a behaviour is one of either, and the  *)
(* other stays as it was.                                                  *)
(***************************************************************************)
EXTENDS ProviderLimiter, NativeStream, TLC

CONSTANTS r1, r2, r3

VARIABLE subject

allVars == <<subject, vars, nativeVars>>

MCInit == subject \in {"limiter", "stream"} /\ Init /\ NativeInit /\ (subject = "limiter" => thinks)

MCNext ==
    /\ UNCHANGED subject
    /\ \/ subject = "limiter" /\ Next /\ UNCHANGED nativeVars
       \/ subject = "stream" /\ NativeNext /\ UNCHANGED vars

MCSpec == MCInit /\ [][MCNext]_allVars

ShortDelays == {1, 2}
Alike == Permutations(Requests)
=============================================================================
