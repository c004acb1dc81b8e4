-------------------------- MODULE ProgrammingProofs --------------------------
(***************************************************************************)
(* Every operation the ACK manager accepts owes exactly one callback: for  *)
(* any clients, tasks, decoders and tracks.                                *)
(***************************************************************************)
EXTENDS Programming, TLAPS

\* A request is only taken from a client that is not waiting, so refusing it
\* does not answer the client whose operation runs.
LEMMA RequestKeepsDebt ==
    ASSUME AnsweredOnce,
           NEW c \in Clients, NEW task \in Tasks[c], Request(c, task)
    PROVE  AnsweredOnce'
<1>1. c \notin waiting
  BY DEF Request
<1>2. CASE UNCHANGED operation /\ (waiting' = waiting \ {c} \/ waiting' = waiting \cup {c})
  BY <1>1, <1>2 DEF AnsweredOnce, Active, operation
<1>3. CASE owner' = c /\ waiting' = waiting \cup {c}
  BY <1>3 DEF AnsweredOnce, Active
<1>4. \/ UNCHANGED operation /\ (waiting' = waiting \ {c} \/ waiting' = waiting \cup {c})
      \/ owner' = c /\ waiting' = waiting \cup {c}
  <2>1. CASE Refused(task)
    BY <2>1 DEF Request, Reply
  <2>2. CASE ~Refused(task) /\ (OwnCV(task) \/ task = Malformed)
    BY <2>2 DEF Request
  <2>3. CASE ~Refused(task) /\ ~(OwnCV(task) \/ task = Malformed)
    <3>1. SetupAck(c, task)
      BY <2>3 DEF Request
    <3>2. QED
      BY <3>1 DEF SetupAck, RefusedWith, Reply
  <2>4. QED
    BY <2>1, <2>2, <2>3
<1>5. QED
  BY <1>2, <1>3, <1>4

\* Only READY answers the client whose operation runs, and it ends the program.
LEMMA StepKeepsDebt ==
    ASSUME AnsweredOnce, [Next]_vars
    PROVE  AnsweredOnce'
<1>1. CASE UNCHANGED <<prog, owner, waiting>>
  BY <1>1 DEF AnsweredOnce, Active
<1>2. CASE prog' = "none"
  BY <1>2 DEF AnsweredOnce, Active
<1>3. CASE \E c \in Clients : \E task \in Tasks[c] : Request(c, task)
  BY <1>3, RequestKeepsDebt
<1>4. CASE Loop
  <2>1. CASE Baseline \/ Send \/ Wack \/ Compute \/ Retry
    BY <2>1, <1>1 DEF Baseline, Send, Wack, Compute, Retry, requests
  <2>2. CASE AfterRead \/ AfterWrite \/ Waiting100 \/ Waiting30
    BY <2>2, <1>1 DEF AfterRead, AfterWrite, Waiting100, Waiting30, CallbackIn, requests
  <2>3. CASE Ready
    BY <2>3, <1>2 DEF Ready
  <2>4. QED
    BY <1>4, <2>1, <2>2, <2>3 DEF Loop, Callback
<1>5. CASE Physics
  BY <1>5, <1>1 DEF Physics, Tick, Elapse, CheckAck, Recover, Disturbed, Receive, requests
<1>6. CASE Disturb
  BY <1>6, <1>1 DEF Disturb, Disturbed, requests
<1>7. CASE UNCHANGED vars
  BY <1>7, <1>1 DEF vars
<1>8. CASE Crash
  BY <1>8, <1>1 DEF Crash, operation
<1>9. QED
  BY <1>3, <1>4, <1>5, <1>6, <1>7, <1>8 DEF Next, Running

\* DCCACK::callback calls the client that is waiting, and nobody twice, however
\* requests, retries and commands interleave with the operation.
THEOREM CallbackOwedOnce == Spec => []AnsweredOnce
<1>1. Init => AnsweredOnce
  BY DEF Init, AnsweredOnce, Active
<1>2. AnsweredOnce /\ [Next]_vars => AnsweredOnce'
  BY StepKeepsDebt
<1>3. QED
  BY <1>1, <1>2, PTL DEF Spec
=============================================================================
