--------------------------- MODULE SyncOpsAnswers ---------------------------
(***************************************************************************)
(* SyncOps with a history: every result the server computed for an op, for *)
(* the first request and for its repeats.                                  *)
(***************************************************************************)
EXTENDS MCSyncOps

VARIABLE answers

Evaluated(request) ==
  answers' = [o \in OpId |->
    answers[o] \cup IF o \in request THEN {Run(request).results[o]} ELSE {}]

AInit == Init /\ answers = [o \in OpId |-> {}]

ANext ==
  \/ \E d \in Device : DeviceCommit(d) /\ Evaluated(sent[d])
  \/ \E s \in stray : StrayCommit(s) /\ Evaluated(IF Pull!Invalid(s.cursor) THEN {} ELSE s.ops)
  \/ Others /\ UNCHANGED answers

ASpec == AInit /\ [][ANext]_<<vars, answers>>

\* sync.service.ts:22-24: a repeat of an op that wrote nothing is evaluated again and gives the
\* same kind of answer (a deferred op is kept to be tried again, so its answer may change).
RepeatSameAnswer ==
  \A o \in OpId : Cardinality(answers[o] \ {"deferred"}) <= 1
=============================================================================
