------------------------- MODULE UpbitStreamProofs -------------------------
(***************************************************************************)
(* Proofs about UpbitStream, for any number of keys, messages, failures    *)
(* and retries.                                                            *)
(***************************************************************************)
EXTENDS UpbitStream, TLAPS

\* A goroutine's step from one place to another.
LEMMA GotoFacts ==
  ASSUME pc \in [Runner -> Place], NEW r \in Runner,
         NEW from, NEW to \in Place, Goto(r, from, to)
  PROVE  /\ pc' \in [Runner -> Place]
         /\ pc[r] = from /\ pc'[r] = to
         /\ \A s \in Runner : s # r => pc'[s] = pc[s]
  BY DEF Goto

-----------------------------------------------------------------------------
(* Types. *)

LEMMA TypeInit == Init => TypeOK
  <1> SUFFICES ASSUME Init
               PROVE  TypeOK
    OBVIOUS
  <1>1. {MaxWSRetries, MaxRead, MaxFailures} \subseteq Nat
    BY StreamAssumption
  <1>2. /\ retries \in [Runner -> 0..MaxWSRetries]
        /\ nread \in 0..MaxRead /\ failures \in 0..MaxFailures
    BY <1>1 DEF Init
  <1>3. /\ outbox \in [Runner -> Seq([key : registered, candle : Candle])]
        /\ sent \in [Key -> Seq(Candle)]
    BY DEF Init
  <1> QED
    BY <1>2, <1>3 DEF Init, TypeOK, Place

Outgoing(S) == [key : S, candle : Candle]

\* The outbox may only gain from keys that enter the map.
LEMMA OutboxGrows ==
  ASSUME NEW S, NEW T, S \subseteq T, NEW seq \in Seq(Outgoing(S))
  PROVE  seq \in Seq(Outgoing(T))
  <1>1. Outgoing(S) \subseteq Outgoing(T)
    BY DEF Outgoing
  <1> HIDE DEF Outgoing
  <1>2. Len(seq) \in Nat /\ seq \in [1..Len(seq) -> Outgoing(S)]
    OBVIOUS
  <1>3. seq \in [1..Len(seq) -> Outgoing(T)]
    BY <1>1, <1>2
  <1> QED
    BY <1>2, <1>3

LEMMA HeadTail ==
  ASSUME NEW S, NEW seq \in Seq(S), seq # <<>>
  PROVE  Head(seq) \in S /\ Tail(seq) \in Seq(S)
  OBVIOUS

LEMMA NetworkTypes ==
  ASSUME TypeOK
  PROVE  /\ NetworkFails => failures' \in 0..MaxFailures
         /\ broadcastErr => errs' \in [Key -> Nat]
         /\ \A r \in Runner : Arrives(r) => nread' \in 0..MaxRead
         /\ \A r \in Runner :
              ReadFails(r) => failures' \in 0..MaxFailures
  <1>1. /\ MaxRead \in Nat /\ MaxFailures \in Nat
        /\ failures \in 0..MaxFailures /\ nread \in 0..MaxRead
    BY StreamAssumption DEF TypeOK
  <1>2. NetworkFails => failures' \in 0..MaxFailures
    BY <1>1 DEF NetworkFails
  <1>3. broadcastErr => errs' \in [Key -> Nat]
    <2>1. errs \in [Key -> Nat]
      BY DEF TypeOK
    <2> QED
      BY <2>1 DEF broadcastErr
  <1>4. \A r \in Runner : Arrives(r) => nread' \in 0..MaxRead
    BY <1>1 DEF Arrives
  <1>5. \A r \in Runner :
          ReadFails(r) => failures' \in 0..MaxFailures
    BY <1>1, <1>2 DEF ReadFails
  <1> QED
    BY <1>2, <1>3, <1>4, <1>5

LEMMA TypeRunner ==
  ASSUME TypeOK, NEW r \in Runner, RunnerStep(r) \/ Send(r)
  PROVE  TypeOK'
  <1>0. pc \in [Runner -> Place]
    BY DEF TypeOK
  <1>1. CASE wsRunIfNeeded(r)
    <2>1. pc' \in [Runner -> Place]
      BY <1>0, <1>1, GotoFacts DEF wsRunIfNeeded, Place
    <2> QED
      BY <1>1, <2>1 DEF wsRunIfNeeded, TypeOK, local, history
  <1>2. CASE Begin(r)
    <2>1. pc' \in [Runner -> Place]
      BY <1>0, <1>2, GotoFacts DEF Begin, Place
    <2> QED
      BY <1>2, <2>1 DEF Begin, TypeOK, local, history
  <1>3. CASE Dial(r)
    <2>1. pc' \in [Runner -> Place]
      BY <1>0, <1>3, GotoFacts DEF Dial, Place
    <2>2. conn' \in [Runner -> {"none", "open", "closed"}] /\ wsConn' \in Runner
      BY <1>3 DEF Dial, TypeOK
    <2> QED
      BY <1>3, <2>1, <2>2 DEF Dial, TypeOK, local, history
  <1>4. CASE DialFail(r)
    <2>1. pc' \in [Runner -> Place]
      BY <1>0, <1>4, GotoFacts DEF DialFail, Place
    <2>2. failures' \in 0..MaxFailures /\ errs' \in [Key -> Nat]
      BY <1>4, NetworkTypes DEF DialFail, TypeOK
    <2> QED
      BY <1>4, <2>1, <2>2 DEF DialFail, TypeOK, local, history
  <1>5. CASE WriteSubscription(r)
    <2>1. pc' \in [Runner -> Place]
      BY <1>0, <1>5, GotoFacts DEF WriteSubscription, Place
    <2>2. /\ codes' \in [Runner -> SUBSET Pair]
          /\ retries' \in [Runner -> 0..MaxWSRetries]
      BY <1>5, StreamAssumption DEF WriteSubscription, TypeOK
    <2> QED
      BY <1>5, <2>1, <2>2 DEF WriteSubscription, TypeOK, local, history
  <1>6. CASE WriteFail(r)
    <2>1. pc' \in [Runner -> Place]
      BY <1>0, <1>6, GotoFacts DEF WriteFail, Place
    <2>2. /\ failures' \in 0..MaxFailures /\ errs' \in [Key -> Nat]
          /\ conn' \in [Runner -> {"none", "open", "closed"}]
      BY <1>6, NetworkTypes DEF WriteFail, TypeOK, ReadFails, NetworkFails
    <2> QED
      BY <1>6, <2>1, <2>2 DEF WriteFail, TypeOK, local, history
  <1>7. CASE Loop(r)
    <2>1. pc' \in [Runner -> Place]
      BY <1>0, <1>7, GotoFacts DEF Loop, Place
    <2>2. conn' \in [Runner -> {"none", "open", "closed"}]
      BY <1>7 DEF Loop, TypeOK
    <2> QED
      BY <1>7, <2>1, <2>2 DEF Loop, TypeOK, local, history
  <1>8. CASE ReadErrorMessage(r)
    <2>1. pc' \in [Runner -> Place]
      BY <1>0, <1>8, GotoFacts DEF ReadErrorMessage, Place
    <2>2. /\ nread' \in 0..MaxRead
          /\ errs' \in [Key -> Nat]
      BY <1>8, NetworkTypes DEF ReadErrorMessage, TypeOK
    <2> QED
      BY <1>8, <2>1, <2>2 DEF ReadErrorMessage, Arrives, TypeOK, local, history
  <1>9. CASE ReadFails(r)
    <2>1. pc' \in [Runner -> Place]
      BY <1>0, <1>9, GotoFacts DEF ReadFails, Place
    <2>2. failures' \in 0..MaxFailures
      BY <1>9, NetworkTypes
    <2>3. /\ retries' \in [Runner -> 0..MaxWSRetries]
          /\ conn' \in [Runner -> {"none", "open", "closed"}]
          /\ errs' \in [Key -> Nat]
      <3>1. CASE retries[r] < MaxWSRetries
        <4>1. /\ MaxWSRetries \in Nat /\ retries \in [Runner -> 0..MaxWSRetries]
              /\ retries' = [retries EXCEPT ![r] = @ + 1]
              /\ UNCHANGED <<conn, errs>>
          BY <1>9, <3>1, StreamAssumption DEF ReadFails, TypeOK
        <4>2. retries[r] + 1 \in 0..MaxWSRetries
          BY <3>1, <4>1
        <4> QED
          BY <4>1, <4>2 DEF TypeOK
      <3>2. CASE ~(retries[r] < MaxWSRetries)
        BY <1>9, <3>2, NetworkTypes DEF ReadFails, TypeOK
      <3> QED
        BY <3>1, <3>2
    <2> QED
      BY <1>9, <2>1, <2>2, <2>3 DEF ReadFails, TypeOK
  <1>10. CASE Reconnect(r)
    <2>1. pc' \in [Runner -> Place]
      BY <1>0, <1>10, GotoFacts DEF Reconnect, Place
    <2>2. conn' \in [Runner -> {"none", "open", "closed"}]
      BY <1>10 DEF Reconnect, TypeOK
    <2> QED
      BY <1>10, <2>1, <2>2 DEF Reconnect, TypeOK, local, history
  <1>12. CASE Handled(r)
    <2>1. pc' \in [Runner -> Place]
      BY <1>0, <1>12, GotoFacts DEF Handled, Place
    <2> QED
      BY <1>12, <2>1 DEF Handled, TypeOK, local, history
  <1>13. CASE Unwind(r)
    <2>1. pc' \in [Runner -> Place]
      BY <1>0, <1>13, GotoFacts DEF Unwind, Place
    <2> QED
      BY <1>13, <2>1 DEF Unwind, TypeOK, local, history
  <1>14. CASE Leave(r)
    <2>1. pc' \in [Runner -> Place]
      BY <1>0, <1>14, GotoFacts DEF Leave, Place
    <2> QED
      BY <1>14, <2>1 DEF Leave, TypeOK, local, history
  <1>15. ASSUME NEW p \in Pair, ReadCandle(r, p)
        PROVE  TypeOK'
    <2>1. pc' \in [Runner -> Place]
      BY <1>0, <1>15, GotoFacts DEF ReadCandle, Place
    <2>2. nread' \in 0..MaxRead
      BY <1>15, NetworkTypes DEF ReadCandle
    <2>3. todo' \in [Runner -> SUBSET registered]
      BY <1>15 DEF ReadCandle, TypeOK
    <2> QED
      BY <1>15, <2>1, <2>2, <2>3 DEF ReadCandle, TypeOK
  <1>16. ASSUME NEW k \in Key, Push(r, k)
        PROVE  TypeOK'
    <2>1. nread \in 0..MaxRead /\ k \in registered
      BY <1>16 DEF Push, TypeOK
    <2>2. PICK bars \in Bars :
            outbox' = [outbox EXCEPT ![r] =
              [i \in DOMAIN bars |->
                 [key |-> k,
                  candle |-> [msg |-> nread, complete |-> (bars[i] = "final")]]]]
      BY <1>16 DEF Push
    <2>3. [i \in DOMAIN bars |->
             [key |-> k,
              candle |-> [msg |-> nread, complete |-> (bars[i] = "final")]]]
            \in Seq([key : registered, candle : Candle])
      <3>2. Len(bars) \in Nat /\ DOMAIN bars = 1..Len(bars)
        BY DEF Bars
      <3>3. \A i \in 1..Len(bars) :
              [key |-> k,
               candle |-> [msg |-> nread, complete |-> (bars[i] = "final")]]
                \in [key : registered, candle : Candle]
        BY <2>1, <3>2 DEF Candle
      <3> QED
        BY <3>2, <3>3
    <2>4. outbox' \in [Runner -> Seq([key : registered, candle : Candle])]
      BY <2>2, <2>3 DEF TypeOK
    <2>5. pc' \in [Runner -> Place]
      BY <1>0, <1>16, GotoFacts DEF Push, Place
    <2>6. todo' \in [Runner -> SUBSET registered]
      BY <1>16 DEF Push, TypeOK
    <2> QED
      BY <1>16, <2>4, <2>5, <2>6 DEF Push, TypeOK, history
  <1>17. CASE Send(r)
    <2>1. outbox[r] \in Seq([key : registered, candle : Candle]) /\ outbox[r] # <<>>
      BY <1>17 DEF Send, TypeOK
    <2>2. /\ Tail(outbox[r]) \in Seq([key : registered, candle : Candle])
          /\ Head(outbox[r]) \in [key : registered, candle : Candle]
      BY <2>1, HeadTail
    <2>3. Head(outbox[r]).key \in Key /\ Head(outbox[r]).candle \in Candle
      BY <2>2 DEF TypeOK
    <2>4. outbox' \in [Runner -> Seq([key : registered, candle : Candle])]
      BY <1>17, <2>2 DEF Send, TypeOK
    <2>5. sent' \in [Key -> Seq(Candle)]
      BY <1>17, <2>3 DEF Send, TypeOK
    <2>6. pc' \in [Runner -> Place]
      BY <1>0, <1>17, GotoFacts DEF Send, Place
    <2> QED
      BY <1>17, <2>4, <2>5, <2>6 DEF Send, TypeOK
  <1> QED
    BY <1>1, <1>2, <1>3, <1>4, <1>5, <1>6, <1>7, <1>8, <1>9, <1>10, <1>12, <1>13, <1>14, <1>15, <1>16, <1>17 DEF RunnerStep

LEMMA TypeNext == TypeOK /\ [Next]_streamVars => TypeOK'
  <1> SUFFICES ASSUME TypeOK, [Next]_streamVars
               PROVE  TypeOK'
    OBVIOUS
  <1>1. CASE Start
    BY <1>1 DEF Start, Goto, TypeOK, Place, local, history, Runner
  <1>2. ASSUME NEW k \in Key, CandlesSubscription(k)
        PROVE  TypeOK'
    <2>1. registered' \subseteq Key /\ registered \subseteq registered'
          /\ registered' = registered \cup {k}
      BY <1>2 DEF CandlesSubscription, TypeOK
    <2>2. outbox' \in [Runner -> Seq([key : registered', candle : Candle])]
      BY <1>2, <2>1, OutboxGrows DEF CandlesSubscription, TypeOK, Outgoing
    <2>3. todo' \in [Runner -> SUBSET registered']
      BY <1>2, <2>1 DEF CandlesSubscription, TypeOK
    <2>4. pc' \in [Runner -> Place]
      BY <1>2 DEF CandlesSubscription, Goto, TypeOK, Place, Runner
    <2> QED
      BY <1>2, <2>1, <2>2, <2>3, <2>4 DEF CandlesSubscription, TypeOK, history
  <1>3. ASSUME NEW k \in Key, CandlesSubscriptionReturn(k)
        PROVE  TypeOK'
    BY <1>3 DEF CandlesSubscriptionReturn, Goto, TypeOK, Place, local, history, Runner
  <1>4. ASSUME NEW k \in Key, SendErr(k)
        PROVE  TypeOK'
    <2>1. errs' \in [Key -> Nat]
      <3>1. errs \in [Key -> Nat] /\ errs[k] > 0 /\ errs[k] \in Nat
        BY <1>4 DEF SendErr, TypeOK
      <3>2. errs[k] - 1 \in Nat
        BY <3>1
      <3> QED
        BY <1>4, <3>1, <3>2 DEF SendErr
    <2> QED
      BY <1>4, <2>1 DEF SendErr, TypeOK, local, history
  <1>5. CASE Stop
    <2>1. CASE StopCancel
      BY <2>1 DEF StopCancel, StopFrom, TypeOK, local, history
    <2>2. CASE StopClose
      BY <2>2 DEF StopClose, StopFrom, TypeOK, history
    <2>3. CASE StopWait
      BY <2>3 DEF StopWait, StopFrom, TypeOK, local, history
    <2>4. CASE StopChannels
      BY <2>4 DEF StopChannels, StopFrom, TypeOK, local, history
    <2> QED
      BY <1>5, <2>1, <2>2, <2>3, <2>4 DEF Stop
  <1>6. CASE UNCHANGED streamVars
    BY <1>6 DEF streamVars, TypeOK
  <1> QED
    BY <1>1, <1>2, <1>3, <1>4, <1>5, <1>6, TypeRunner DEF Next
-----------------------------------------------------------------------------
(* One goroutine at a time, and nothing to send once Stop has waited. *)

\* The steps of a runner, by where they lead and what they change besides.
LEMMA RunnerMoves ==
  ASSUME TypeOK, NEW r \in Runner, RunnerStep(r) \/ Send(r)
  PROVE  /\ \A s \in Runner : s # r => pc'[s] = pc[s] /\ outbox'[s] = outbox[s]
         /\ cancelled' = cancelled /\ stop' = stop /\ closed' = closed
         /\ outbox' # outbox => pc[r] = "handle" /\ pc'[r] = "handle"
         /\ \/ /\ pc[r] = "spawned" /\ wsRunning'
               /\ pc'[r] = IF wsRunning THEN "end" ELSE "begin"
            \/ /\ pc[r] \in {"begin", "dial", "subscribe", "sleep"}
               /\ pc'[r] \in {"dial", "subscribe", "loop", "unwind"}
               /\ wsRunning' = wsRunning
            \/ /\ pc[r] = "loop" /\ wsRunning' = wsRunning
               /\ pc'[r] = IF cancelled THEN "unwind" ELSE "read"
            \/ /\ pc[r] = "read" /\ wsRunning' = wsRunning
               /\ pc'[r] \in {"handle", "loop", "sleep", "unwind"}
            \/ /\ pc[r] = "handle" /\ pc'[r] = "handle"
               /\ wsRunning' = wsRunning
            \/ /\ pc[r] = "handle" /\ pc'[r] = "loop" /\ outbox[r] = <<>>
               /\ wsRunning' = wsRunning
            \/ pc[r] = "unwind" /\ pc'[r] = "leave"
            \/ pc[r] = "leave" /\ pc'[r] = "end" /\ wsRunning' = wsRunning
  <1>0. pc \in [Runner -> Place] /\ outbox \in [Runner -> Seq(Outgoing(registered))]
    BY DEF TypeOK, Outgoing
  <1>1. CASE wsRunIfNeeded(r)
    BY <1>0, <1>1 DEF wsRunIfNeeded, Goto, local
  <1>2. CASE Begin(r)
    BY <1>0, <1>2 DEF Begin, Goto, local
  <1>3. CASE Dial(r)
    BY <1>0, <1>3 DEF Dial, Goto, local
  <1>4. CASE DialFail(r)
    BY <1>0, <1>4 DEF DialFail, Goto, local
  <1>5. CASE WriteSubscription(r)
    BY <1>0, <1>5 DEF WriteSubscription, Goto, local
  <1>6. CASE WriteFail(r)
    BY <1>0, <1>6 DEF WriteFail, Goto, local
  <1>7. CASE Loop(r)
    BY <1>0, <1>7 DEF Loop, Goto, local
  <1>8. CASE ReadErrorMessage(r)
    BY <1>0, <1>8 DEF ReadErrorMessage, Goto, local
  <1>9. CASE ReadFails(r)
    BY <1>0, <1>9 DEF ReadFails, Goto, local
  <1>10. CASE Reconnect(r)
    BY <1>0, <1>10 DEF Reconnect, Goto, local
  <1>12. CASE Handled(r)
    BY <1>0, <1>12 DEF Handled, Goto, local
  <1>13. CASE Unwind(r)
    BY <1>0, <1>13 DEF Unwind, Goto, local
  <1>14. CASE Leave(r)
    BY <1>0, <1>14 DEF Leave, Goto, local
  <1>15. CASE Send(r)
    BY <1>0, <1>15 DEF Send, Goto, local
  <1>16. ASSUME NEW p \in Pair, ReadCandle(r, p)
        PROVE  /\ pc' = [pc EXCEPT ![r] = "handle"] /\ pc[r] = "read"
               /\ UNCHANGED <<outbox, wsRunning, cancelled, stop, closed>>
    BY <1>16 DEF ReadCandle, Goto
  <1>17. ASSUME NEW k \in Key, Push(r, k)
        PROVE  /\ pc' = pc /\ pc[r] = "handle"
               /\ UNCHANGED <<wsRunning, cancelled, stop, closed>>
               /\ \A s \in Runner : s # r => outbox'[s] = outbox[s]
    BY <1>0, <1>17 DEF Push, Goto
  <1> QED
    BY <1>0, <1>1, <1>2, <1>3, <1>4, <1>5, <1>6, <1>7, <1>8, <1>9, <1>10, <1>12, <1>13, <1>14, <1>15, <1>16, <1>17 DEF RunnerStep

Exclusion == OneStream /\ StreamInv

LEMMA ExclusionInit == Init => Exclusion
  BY DEF Init, Exclusion, OneStream, StreamInv, Active

LEMMA ExclusionRunner ==
  ASSUME TypeOK, Exclusion, NEW r \in Runner, RunnerStep(r) \/ Send(r)
  PROVE  Exclusion'
  <1>1. OneStream' /\ (Active' # {} => wsRunning')
    <2>1. CASE pc[r] = "spawned"
      BY <2>1, RunnerMoves DEF Exclusion, OneStream, StreamInv, Active
    <2>2. CASE pc[r] \in {"begin", "dial", "subscribe", "loop", "read", "sleep", "handle"}
      <3>1. r \in Active /\ Active' \subseteq Active /\ wsRunning' = wsRunning
        BY <2>2, RunnerMoves DEF Active
      <3> QED
        BY <3>1 DEF Exclusion, OneStream, StreamInv
    <2>3. CASE pc[r] = "unwind"
      <3>1. r \in Active /\ Active' = Active \ {r}
        BY <2>3, RunnerMoves DEF Active
      <3>2. Active' = {}
        BY <3>1 DEF Exclusion, OneStream
      <3> QED
        BY <3>2 DEF OneStream
    <2>4. CASE pc[r] = "leave"
      <3>1. Active' = Active /\ wsRunning' = wsRunning
        BY <2>4, RunnerMoves DEF Active
      <3> QED
        BY <3>1 DEF Exclusion, OneStream, StreamInv
    <2> QED
      BY <2>1, <2>2, <2>3, <2>4, RunnerMoves
  <1>2. \A s \in Runner : outbox'[s] # <<>> => pc'[s] = "handle"
    <2> TAKE s \in Runner
    <2>1. CASE s # r
      BY <2>1, RunnerMoves DEF Exclusion, StreamInv
    <2>2. CASE s = r /\ outbox' # outbox
      BY <2>2, RunnerMoves
    <2>3. CASE s = r /\ outbox' = outbox
      BY <2>3, RunnerMoves DEF Exclusion, StreamInv
    <2> QED
      BY <2>1, <2>2, <2>3
  <1>3. stop' # "idle" => cancelled'
    BY RunnerMoves DEF Exclusion, StreamInv
  <1>4. stop' \in {"channels", "done"} =>
          \A s \in Runner : pc'[s] \notin {"read", "sleep", "handle"}
    BY RunnerMoves DEF Exclusion, StreamInv
  <1>5. closed' => stop' = "done"
    BY RunnerMoves DEF Exclusion, StreamInv
  <1> QED
    BY <1>1, <1>2, <1>3, <1>4, <1>5 DEF Exclusion, StreamInv

LEMMA ExclusionNext == TypeOK /\ Exclusion /\ [Next]_streamVars => Exclusion'
  <1> SUFFICES ASSUME TypeOK, Exclusion, [Next]_streamVars
               PROVE  Exclusion'
    OBVIOUS
  <1>0. pc \in [Runner -> Place] /\ "start" \in Runner /\ Key \subseteq Runner
    BY DEF TypeOK, Runner
  <1>1. ASSUME NEW r \in Runner, NEW from \in {"idle", "preload"},
               NEW to \in {"preload", "spawned"}, Goto(r, from, to),
               UNCHANGED <<wsRunning, outbox, stop, cancelled, closed>>
        PROVE  Exclusion'
    <2>1. Active' = Active
      BY <1>0, <1>1 DEF Goto, Active
    <2>2. \A s \in Runner : pc'[s] \in {"read", "sleep", "handle"}
                              <=> pc[s] \in {"read", "sleep", "handle"}
      BY <1>0, <1>1 DEF Goto
    <2>3. \A s \in Runner : pc[s] = "handle" => pc'[s] = "handle"
      BY <1>0, <1>1 DEF Goto
    <2> QED
      BY <1>1, <2>1, <2>2, <2>3 DEF Exclusion, OneStream, StreamInv
  <1>2. CASE Start
    BY <1>0, <1>1, <1>2 DEF Start, local
  <1>3. ASSUME NEW k \in Key, CandlesSubscription(k)
        PROVE  Exclusion'
    BY <1>0, <1>1, <1>3 DEF CandlesSubscription
  <1>4. ASSUME NEW k \in Key, CandlesSubscriptionReturn(k)
        PROVE  Exclusion'
    BY <1>0, <1>1, <1>4 DEF CandlesSubscriptionReturn, local
  <1>5. ASSUME UNCHANGED <<pc, wsRunning, outbox, stop, cancelled, closed>>
        PROVE  Exclusion'
    BY <1>5 DEF Exclusion, OneStream, StreamInv, Active
  <1>6. ASSUME NEW k \in Key, SendErr(k)
        PROVE  Exclusion'
    BY <1>5, <1>6 DEF SendErr, local
  <1>7. CASE UNCHANGED streamVars
    BY <1>5, <1>7 DEF streamVars
  <1>8. CASE Stop
    <2>1. UNCHANGED <<pc, wsRunning, outbox>>
      BY <1>8 DEF Stop, StopCancel, StopClose, StopWait, StopChannels, local
    <2>2. OneStream' /\ (Active' # {} => wsRunning')
      BY <2>1 DEF Exclusion, OneStream, StreamInv, Active
    <2>3. CASE StopCancel
      BY <2>1, <2>2, <2>3 DEF StopCancel, StopFrom, Exclusion, StreamInv
    <2>4. CASE StopClose
      BY <2>1, <2>2, <2>4 DEF StopClose, StopFrom, Exclusion, StreamInv
    <2>5. CASE StopWait
      <3>1. \A s \in Runner : pc[s] \notin {"read", "sleep", "handle"}
        BY <2>5 DEF StopWait, Waited
      <3> QED
        BY <2>1, <2>2, <2>5, <3>1 DEF StopWait, StopFrom, Exclusion, StreamInv
    <2>6. CASE StopChannels
      BY <2>1, <2>2, <2>6 DEF StopChannels, StopFrom, Exclusion, StreamInv
    <2> QED
      BY <1>8, <2>3, <2>4, <2>5, <2>6 DEF Stop
  <1> QED
    BY <1>2, <1>3, <1>4, <1>6, <1>7, <1>8, ExclusionRunner DEF Next

-----------------------------------------------------------------------------
(* The order of the candles a key gets. *)

Before(c, d) == \/ c.msg < d.msg
                \/ c.msg = d.msg /\ ~c.complete /\ d.complete

\* What the runner has yet to send goes on where the channel of the key ends.
FollowsOn(r) ==
  /\ \A i \in DOMAIN outbox[r] :
       /\ outbox[r][i].candle.msg = nread
       /\ outbox[r][i].key \notin todo[r]
       /\ \A n \in DOMAIN sent[outbox[r][i].key] :
            Before(sent[outbox[r][i].key][n], outbox[r][i].candle)
  /\ \A i, j \in DOMAIN outbox[r] :
       i < j => Before(outbox[r][i].candle, outbox[r][j].candle)

\* Nothing of the message that is handled was sent to a key still to visit.
Unvisited(r) ==
  pc[r] = "handle" =>
    \A k \in todo[r] : \A n \in DOMAIN sent[k] : sent[k][n].msg < nread

\* A key that no CandlesSubscription has entered yet got nothing.
OrderInv ==
  /\ SentInOrder
  /\ \A k \in Key : \A n \in DOMAIN sent[k] : sent[k][n].msg <= nread
  /\ \A k \in Key : pc[k] = "idle" => k \notin registered /\ sent[k] = <<>>
  /\ \A r \in Runner : FollowsOn(r) /\ Unvisited(r)

LEMMA OrderInit == Init => OrderInv
  <1> SUFFICES ASSUME Init
               PROVE  OrderInv
    OBVIOUS
  <1>1. /\ \A k \in Key : sent[k] = <<>>
        /\ \A r \in Runner : outbox[r] = <<>> /\ pc[r] = "idle"
        /\ registered = {}
    BY DEF Init
  <1> QED
    BY <1>1 DEF OrderInv, SentInOrder, FollowsOn, Unvisited

\* Steps that neither read, send nor visit.
LEMMA OrderKept ==
  ASSUME OrderInv, UNCHANGED <<sent, nread, todo, outbox, registered>>,
         \A s \in Runner : pc'[s] = "handle" => pc[s] = "handle",
         \A k \in Key : pc'[k] = "idle" => pc[k] = "idle"
  PROVE  OrderInv'
  <1>1. SentInOrder' /\ \A k \in Key : \A n \in DOMAIN sent'[k] :
                          sent'[k][n].msg <= nread'
    BY DEF OrderInv, SentInOrder
  <1>2. \A r \in Runner : FollowsOn(r)' /\ Unvisited(r)'
    BY DEF OrderInv, FollowsOn, Unvisited
  <1>3. \A k \in Key : pc'[k] = "idle" => k \notin registered' /\ sent'[k] = <<>>
    BY DEF OrderInv
  <1> QED
    BY <1>1, <1>2, <1>3 DEF OrderInv

\* While one runner is active no other holds a candle or visits a key.
LEMMA Alone ==
  ASSUME TypeOK, Exclusion, NEW r \in Runner,
         pc[r] \in {"begin", "dial", "subscribe", "loop", "read", "sleep",
                    "handle", "unwind"}
  PROVE  \A s \in Runner : s # r => outbox[s] = <<>> /\ pc[s] # "handle"
  BY DEF Exclusion, OneStream, StreamInv, Active

LEMMA SentTypes ==
  ASSUME TypeOK
  PROVE  /\ nread \in Nat
         /\ \A k \in Key : \A n \in DOMAIN sent[k] : sent[k][n].msg \in Nat
  <1>1. MaxRead \in Nat /\ nread \in 0..MaxRead /\ sent \in [Key -> Seq(Candle)]
    BY StreamAssumption DEF TypeOK
  <1>2. \A k \in Key : \A n \in DOMAIN sent[k] : sent[k][n] \in Candle
    BY <1>1
  <1>3. \A c \in Candle : c.msg \in Nat
    BY <1>1 DEF Candle
  <1> QED
    BY <1>1, <1>2, <1>3

\* A message arrives: what was sent came from an earlier one.
LEMMA OrderRead ==
  ASSUME TypeOK, Exclusion, OrderInv, NEW r \in Runner, pc[r] = "read",
         nread' = nread + 1, UNCHANGED <<sent, outbox, registered>>,
         pc'[r] # "idle", \A s \in Runner : s # r => pc'[s] = pc[s],
         \A s \in Runner : todo'[s] \subseteq Key
  PROVE  OrderInv'
  <1>1. \A s \in Runner : outbox[s] = <<>> /\ pc[s] # "handle"
    BY Alone DEF Exclusion, StreamInv
  <1>2. /\ nread \in Nat
        /\ \A k \in Key : \A n \in DOMAIN sent[k] :
             sent[k][n].msg \in Nat /\ sent[k][n].msg <= nread
    BY SentTypes DEF OrderInv
  <1>3. \A k \in Key : \A n \in DOMAIN sent'[k] : sent'[k][n].msg < nread'
    BY <1>2
  <1>4. \A k \in Key : \A n \in DOMAIN sent'[k] : sent'[k][n].msg <= nread'
    BY <1>2
  <1>5. SentInOrder'
    BY DEF OrderInv, SentInOrder
  <1>6. \A s \in Runner : FollowsOn(s)'
    BY <1>1 DEF FollowsOn
  <1>7. \A s \in Runner : Unvisited(s)'
    <2> SUFFICES ASSUME NEW s \in Runner, pc'[s] = "handle", NEW k \in todo'[s],
                        NEW n \in DOMAIN sent'[k]
                 PROVE  sent'[k][n].msg < nread'
      BY DEF Unvisited
    <2> QED
      BY <1>3
  <1>8. \A k \in Key : pc'[k] = "idle" => k \notin registered' /\ sent'[k] = <<>>
    BY DEF OrderInv, Runner
  <1> QED
    BY <1>4, <1>5, <1>6, <1>7, <1>8 DEF OrderInv

\* A pair's aggregator enters the map: nothing was sent to it yet.
LEMMA OrderSubscription ==
  ASSUME TypeOK, OrderInv, NEW k \in Key, CandlesSubscription(k)
  PROVE  OrderInv'
  <1>0. /\ pc \in [Runner -> Place] /\ k \in Runner /\ Key \subseteq Runner
        /\ outbox \in [Runner -> Seq(Outgoing(registered))]
    BY DEF TypeOK, Outgoing, Runner
  <1>1. /\ pc[k] = "idle" /\ pc' = [pc EXCEPT ![k] = "preload"]
        /\ registered' = registered \cup {k}
        /\ UNCHANGED <<sent, nread, outbox>>
    BY DEF CandlesSubscription, Goto, history
  <1>2. \A s \in Runner : todo'[s] = todo[s] \/ todo'[s] = todo[s] \cup {k}
    BY DEF CandlesSubscription
  <1>3. k \notin registered /\ sent[k] = <<>>
    BY <1>1 DEF OrderInv
  <1>4. SentInOrder' /\ \A j \in Key : \A n \in DOMAIN sent'[j] :
                          sent'[j][n].msg <= nread'
    BY <1>1 DEF OrderInv, SentInOrder
  <1>5. \A j \in Key : pc'[j] = "idle" => j \notin registered' /\ sent'[j] = <<>>
    BY <1>0, <1>1 DEF OrderInv
  <1>6. ASSUME NEW s \in Runner
        PROVE  FollowsOn(s)'
    <2>1. \A i \in DOMAIN outbox[s] : outbox[s][i].key \in registered
      <3>1. \A i \in DOMAIN outbox[s] : outbox[s][i] \in Outgoing(registered)
        BY <1>0
      <3> QED
        BY <3>1 DEF Outgoing
    <2>2. \A i \in DOMAIN outbox[s] : outbox[s][i].key \notin todo'[s]
      BY <1>2, <1>3, <2>1 DEF OrderInv, FollowsOn
    <2>3. FollowsOn(s)
      BY DEF OrderInv
    <2> QED
      BY <1>1, <2>2, <2>3 DEF FollowsOn
  <1>7. ASSUME NEW s \in Runner
        PROVE  Unvisited(s)'
    <2> SUFFICES ASSUME pc'[s] = "handle", NEW j \in todo'[s],
                        NEW n \in DOMAIN sent'[j]
                 PROVE  sent'[j][n].msg < nread'
      BY DEF Unvisited
    <2>1. pc[s] = "handle" /\ Unvisited(s)
      BY <1>0, <1>1 DEF OrderInv
    <2>2. j # k
      BY <1>1, <1>3
    <2> QED
      BY <1>1, <1>2, <2>1, <2>2 DEF Unvisited
  <1> QED
    BY <1>4, <1>5, <1>6, <1>7 DEF OrderInv

\* A key is visited: the bars of the message follow what it got before.
LEMMA OrderPush ==
  ASSUME TypeOK, Exclusion, OrderInv, NEW r \in Runner, NEW k \in Key, Push(r, k)
  PROVE  OrderInv'
  <1>0. pc \in [Runner -> Place] /\ outbox \in [Runner -> Seq(Outgoing(registered))]
        /\ todo \in [Runner -> SUBSET registered]
    BY DEF TypeOK, Outgoing
  <1>1. /\ pc' = pc /\ pc[r] = "handle" /\ k \in todo[r]
        /\ UNCHANGED <<sent, nread, registered>>
        /\ todo' = [todo EXCEPT ![r] = @ \ {k}]
    BY <1>0 DEF Push, Goto, history
  <1>2. PICK bars \in Bars :
          outbox' = [outbox EXCEPT ![r] =
            [i \in DOMAIN bars |->
               [key |-> k,
                candle |-> [msg |-> nread, complete |-> (bars[i] = "final")]]]]
    BY DEF Push
  <1>3. \A s \in Runner : s # r => outbox[s] = <<>>
    BY <1>1, Alone
  <1>4. SentInOrder' /\ \A j \in Key : \A n \in DOMAIN sent'[j] :
                          sent'[j][n].msg <= nread'
    BY <1>1 DEF OrderInv, SentInOrder
  <1>5. \A j \in Key : pc'[j] = "idle" => j \notin registered' /\ sent'[j] = <<>>
    BY <1>1 DEF OrderInv
  <1>6. \A s \in Runner : Unvisited(s)'
    <2> SUFFICES ASSUME NEW s \in Runner, pc'[s] = "handle", NEW j \in todo'[s],
                        NEW n \in DOMAIN sent'[j]
                 PROVE  sent'[j][n].msg < nread'
      BY DEF Unvisited
    <2>1. pc[s] = "handle" /\ j \in todo[s] /\ Unvisited(s)
      BY <1>0, <1>1 DEF OrderInv
    <2> QED
      BY <1>1, <2>1 DEF Unvisited
  <1>7. \A n \in DOMAIN sent[k] : sent[k][n].msg < nread
    BY <1>1 DEF OrderInv, Unvisited
  <1>8. FollowsOn(r)'
    <2>1. outbox'[r] = [i \in DOMAIN bars |->
               [key |-> k,
                candle |-> [msg |-> nread, complete |-> (bars[i] = "final")]]]
      BY <1>0, <1>2
    <2>2. /\ DOMAIN outbox'[r] = DOMAIN bars
          /\ \A i \in DOMAIN bars :
               /\ outbox'[r][i].key = k
               /\ outbox'[r][i].candle.msg = nread
               /\ outbox'[r][i].candle.complete = (bars[i] = "final")
      BY <2>1
    <2>3. \A i, j \in DOMAIN bars :
            i < j => bars[i] # "final" /\ bars[j] = "final"
      BY DEF Bars
    <2>4. k \notin todo'[r]
      BY <1>0, <1>1
    <2> QED
      BY <1>1, <1>7, <2>2, <2>3, <2>4, ZenonT(40) DEF FollowsOn, Before
  <1>9. \A s \in Runner : s # r => FollowsOn(s)'
    <2>1. \A s \in Runner : s # r => outbox'[s] = <<>>
      BY <1>0, <1>2, <1>3
    <2> QED
      BY <2>1 DEF FollowsOn
  <1> QED
    BY <1>4, <1>5, <1>6, <1>8, <1>9 DEF OrderInv

\* The channel of the key takes the runner's next candle.
LEMMA OrderSend ==
  ASSUME TypeOK, Exclusion, OrderInv, NEW r \in Runner, Send(r)
  PROVE  OrderInv'
  <1> DEFINE out == outbox[r]
             k == Head(out).key
             c == Head(out).candle
  <1>0. /\ pc \in [Runner -> Place] /\ outbox \in [Runner -> Seq(Outgoing(registered))]
        /\ todo \in [Runner -> SUBSET registered] /\ sent \in [Key -> Seq(Candle)]
        /\ out \in Seq(Outgoing(registered)) /\ out # <<>>
        /\ registered \subseteq Key
    BY DEF TypeOK, Outgoing, Send
  <1>1. /\ pc' = pc /\ pc[r] = "handle"
        /\ UNCHANGED <<nread, registered, todo>>
        /\ outbox' = [outbox EXCEPT ![r] = Tail(out)]
        /\ sent' = [sent EXCEPT ![k] = Append(@, c)]
    BY <1>0 DEF Send, Goto
  <1>2. Head(out) = out[1] /\ 1 \in DOMAIN out /\ out[1] \in Outgoing(registered)
    BY <1>0
  <1>3. k \in registered /\ k \in Key
    BY <1>0, <1>2 DEF Outgoing
  <1>4. /\ c.msg = nread /\ k \notin todo[r]
        /\ \A n \in DOMAIN sent[k] : Before(sent[k][n], c)
        /\ FollowsOn(r)
    BY <1>2 DEF OrderInv, FollowsOn
  <1> HIDE DEF k, c
  <1>5. /\ Len(sent[k]) \in Nat /\ DOMAIN sent[k] = 1..Len(sent[k])
        /\ DOMAIN sent'[k] = 1..(Len(sent[k]) + 1)
        /\ \A n \in 1..Len(sent[k]) : sent'[k][n] = sent[k][n]
        /\ sent'[k][Len(sent[k]) + 1] = c
        /\ \A j \in Key : j # k => sent'[j] = sent[j]
    <2>1. sent[k] \in Seq(Candle) /\ sent'[k] = Append(sent[k], c)
      BY <1>0, <1>1, <1>3
    <2> QED
      BY <1>0, <1>1, <2>1
  <1>6. nread \in Nat
    BY SentTypes
  <1>7. \A j \in Key : \A n \in DOMAIN sent'[j] : sent'[j][n].msg <= nread'
    BY <1>1, <1>4, <1>5, <1>6 DEF OrderInv
  <1>8. SentInOrder'
    <2> SUFFICES ASSUME NEW j \in Key, NEW m \in DOMAIN sent'[j],
                        NEW n \in DOMAIN sent'[j], m < n
                 PROVE  Before(sent'[j][m], sent'[j][n])
      BY DEF SentInOrder, Before
    <2>1. CASE j # k
      BY <1>5, <2>1 DEF OrderInv, SentInOrder, Before
    <2>2. CASE j = k
      <3>1. m \in DOMAIN sent[k] /\ sent'[k][m] = sent[k][m]
        BY <1>5, <2>2, SMTT(30)
      <3>2. CASE n = Len(sent[k]) + 1
        BY <1>4, <1>5, <2>2, <3>1, <3>2
      <3>3. CASE n # Len(sent[k]) + 1
        <4>1. n \in DOMAIN sent[k] /\ sent'[k][n] = sent[k][n]
          BY <1>5, <2>2, <3>3
        <4> QED
          BY <1>3, <2>2, <3>1, <4>1 DEF OrderInv, SentInOrder, Before
      <3> QED
        BY <3>2, <3>3
    <2> QED
      BY <2>1, <2>2
  <1>9. \A j \in Key : pc'[j] = "idle" => j \notin registered' /\ sent'[j] = <<>>
    BY <1>1, <1>3, <1>5 DEF OrderInv
  <1>10. \A s \in Runner : Unvisited(s)'
    <2> SUFFICES ASSUME NEW s \in Runner, pc[s] = "handle", NEW j \in todo[s],
                        NEW n \in DOMAIN sent'[j]
                 PROVE  sent'[j][n].msg < nread
      BY <1>1 DEF Unvisited
    <2>1. s = r
      BY <1>1, Alone
    <2>2. j \in Key /\ j # k
      BY <1>0, <1>4, <2>1
    <2> QED
      BY <1>5, <2>2 DEF OrderInv, Unvisited
  <1>11. \A s \in Runner : s # r => FollowsOn(s)'
    <2>1. \A s \in Runner : s # r => outbox'[s] = <<>>
      BY <1>0, <1>1, Alone
    <2> QED
      BY <2>1 DEF FollowsOn
  <1>12. FollowsOn(r)'
    <2>1. /\ outbox'[r] = Tail(out)
          /\ Len(out) \in Nat /\ DOMAIN out = 1..Len(out)
      BY <1>0, <1>1
    <2>2. /\ DOMAIN Tail(out) = 1..(Len(out) - 1)
          /\ \A i \in 1..(Len(out) - 1) : Tail(out)[i] = out[i + 1]
      BY <1>0
    <2>3. ASSUME NEW i \in DOMAIN Tail(out)
          PROVE  /\ out[i + 1].candle.msg = nread
                 /\ out[i + 1].key \notin todo[r]
                 /\ \A n \in DOMAIN sent'[out[i + 1].key] :
                      Before(sent'[out[i + 1].key][n], out[i + 1].candle)
      <3>1. i \in Nat /\ i + 1 \in DOMAIN out /\ 1 < i + 1
        BY <2>1, <2>2
      <3>2. /\ out[i + 1].candle.msg = nread
            /\ out[i + 1].key \notin todo[r]
            /\ \A n \in DOMAIN sent[out[i + 1].key] :
                 Before(sent[out[i + 1].key][n], out[i + 1].candle)
            /\ Before(c, out[i + 1].candle)
        BY <1>2, <1>4, <3>1 DEF FollowsOn, c
      <3>3. out[i + 1].key \in Key
        <4>1. out[i + 1] \in Outgoing(registered)
          BY <1>0, <3>1
        <4> QED
          BY <1>0, <4>1 DEF Outgoing
      <3>4. ASSUME NEW n \in DOMAIN sent'[out[i + 1].key]
            PROVE  Before(sent'[out[i + 1].key][n], out[i + 1].candle)
        <4>1. CASE out[i + 1].key # k
          BY <1>5, <3>2, <3>3, <3>4, <4>1
        <4>2. CASE out[i + 1].key = k
          <5>1. CASE n = Len(sent[k]) + 1
            BY <1>5, <3>2, <4>2, <5>1
          <5>2. CASE n # Len(sent[k]) + 1
            <6>1. n \in DOMAIN sent[k] /\ sent'[k][n] = sent[k][n]
              BY <1>5, <4>2, <5>2
            <6> QED
              BY <3>2, <4>2, <6>1
          <5> QED
            BY <5>1, <5>2
        <4> QED
          BY <4>1, <4>2
      <3> QED
        BY <3>2, <3>4
    <2>4. ASSUME NEW i \in DOMAIN Tail(out), NEW j \in DOMAIN Tail(out), i < j
          PROVE  Before(out[i + 1].candle, out[j + 1].candle)
      <3>1. i + 1 \in DOMAIN out /\ j + 1 \in DOMAIN out /\ i + 1 < j + 1
        BY <2>1, <2>2, <2>4
      <3> QED
        BY <1>4, <3>1 DEF FollowsOn
    <2>5. /\ DOMAIN outbox'[r] = DOMAIN Tail(out)
          /\ \A i \in DOMAIN Tail(out) : outbox'[r][i] = out[i + 1]
      BY <2>1, <2>2
    <2> HIDE DEF out
    <2>6. \A i \in DOMAIN outbox'[r] :
            /\ outbox'[r][i].candle.msg = nread'
            /\ outbox'[r][i].key \notin todo'[r]
            /\ \A n \in DOMAIN sent'[outbox'[r][i].key] :
                 Before(sent'[outbox'[r][i].key][n], outbox'[r][i].candle)
      <3> TAKE i \in DOMAIN outbox'[r]
      <3>1. i \in DOMAIN Tail(out) /\ outbox'[r][i] = out[i + 1]
        BY <2>5
      <3>2. /\ out[i + 1].candle.msg = nread
            /\ out[i + 1].key \notin todo[r]
            /\ \A n \in DOMAIN sent'[out[i + 1].key] :
                 Before(sent'[out[i + 1].key][n], out[i + 1].candle)
        BY <2>3, <3>1
      <3> QED
        BY <1>1, <3>1, <3>2
    <2>7. \A i, j \in DOMAIN outbox'[r] :
            i < j => Before(outbox'[r][i].candle, outbox'[r][j].candle)
      BY <2>4, <2>5
    <2> QED
      BY <2>6, <2>7 DEF FollowsOn
  <1> QED
    BY <1>7, <1>8, <1>9, <1>10, <1>11, <1>12 DEF OrderInv

\* What a runner's step does to what OrderInv is about.
LEMMA OrderRunner ==
  ASSUME TypeOK, Exclusion, OrderInv, NEW r \in Runner, RunnerStep(r) \/ Send(r)
  PROVE  OrderInv'
  <1>0. pc \in [Runner -> Place] /\ TypeOK' /\ registered' \subseteq Key
    BY TypeRunner DEF TypeOK
  <1>1. /\ pc[r] # "idle" /\ pc'[r] # "idle"
        /\ \A s \in Runner : s # r => pc'[s] = pc[s]
        /\ \A s \in Runner : pc'[s] = "idle" => pc[s] = "idle"
        /\ Key \subseteq Runner
    BY RunnerMoves DEF Runner
  <1>2. ASSUME UNCHANGED <<sent, nread, todo, outbox, registered>>,
               pc'[r] = "handle" => pc[r] = "handle"
        PROVE  OrderInv'
    BY <1>1, <1>2, OrderKept
  <1>3. CASE wsRunIfNeeded(r) \/ Begin(r) \/ Dial(r) \/ DialFail(r)
    BY <1>0, <1>2, <1>3 DEF wsRunIfNeeded, Begin, Dial, DialFail, Goto, local, history
  <1>4. CASE WriteSubscription(r) \/ WriteFail(r) \/ Loop(r)
    BY <1>0, <1>2, <1>4 DEF WriteSubscription, WriteFail, Loop, Goto, local, history
  <1>5. CASE ReadFails(r) \/ Reconnect(r)
    BY <1>0, <1>2, <1>5 DEF ReadFails, Reconnect, Goto, local, history
  <1>6. CASE Handled(r) \/ Unwind(r) \/ Leave(r)
    BY <1>0, <1>2, <1>6 DEF Handled, Unwind, Leave, Goto, local, history
  <1>7. ASSUME pc[r] = "read", nread' = nread + 1,
               UNCHANGED <<sent, outbox, registered>>
        PROVE  OrderInv'
    <2>1. \A s \in Runner : todo'[s] \subseteq Key
      BY <1>0 DEF TypeOK
    <2> QED
      BY <1>1, <1>7, <2>1, OrderRead
  <1>8. CASE ReadErrorMessage(r)
    BY <1>7, <1>8 DEF ReadErrorMessage, Arrives, Goto, local
  <1>9. ASSUME NEW p \in Pair, ReadCandle(r, p)
        PROVE  OrderInv'
    BY <1>7, <1>9 DEF ReadCandle, Arrives, Goto
  <1>10. ASSUME NEW k \in Key, Push(r, k)
         PROVE  OrderInv'
    BY <1>10, OrderPush
  <1>11. CASE Send(r)
    BY <1>11, OrderSend
  <1> QED
    BY <1>3, <1>4, <1>5, <1>6, <1>8, <1>9, <1>10, <1>11 DEF RunnerStep

LEMMA OrderNext ==
  TypeOK /\ Exclusion /\ OrderInv /\ [Next]_streamVars => OrderInv'
  <1> SUFFICES ASSUME TypeOK, Exclusion, OrderInv, [Next]_streamVars
               PROVE  OrderInv'
    OBVIOUS
  <1>0. pc \in [Runner -> Place] /\ Key \subseteq Runner /\ "start" \notin Key
    BY StreamAssumption DEF TypeOK, Runner
  <1>1. CASE Start
    BY <1>0, <1>1, OrderKept DEF Start, Goto, local, history
  <1>2. ASSUME NEW k \in Key, CandlesSubscription(k)
        PROVE  OrderInv'
    BY <1>2, OrderSubscription
  <1>3. ASSUME NEW k \in Key, CandlesSubscriptionReturn(k)
        PROVE  OrderInv'
    BY <1>0, <1>3, OrderKept DEF CandlesSubscriptionReturn, Goto, local, history
  <1>4. ASSUME NEW k \in Key, SendErr(k)
        PROVE  OrderInv'
    BY <1>4, OrderKept DEF SendErr, local, history
  <1>5. CASE Stop
    <2>1. UNCHANGED <<sent, nread, todo, outbox, registered, pc>>
      BY <1>5 DEF Stop, StopCancel, StopClose, StopWait, StopChannels, local, history
    <2> QED
      BY <2>1, OrderKept
  <1>6. CASE UNCHANGED streamVars
    BY <1>6, OrderKept DEF streamVars
  <1> QED
    BY <1>1, <1>2, <1>3, <1>4, <1>5, <1>6, OrderRunner DEF Next

-----------------------------------------------------------------------------
(* The theorems. *)

LEMMA InvariantHolds == Spec => [](TypeOK /\ Exclusion /\ OrderInv)
  <1>1. Init => TypeOK /\ Exclusion /\ OrderInv
    BY TypeInit, ExclusionInit, OrderInit
  <1>2. TypeOK /\ Exclusion /\ OrderInv /\ [Next]_streamVars
          => (TypeOK /\ Exclusion /\ OrderInv)'
    BY TypeNext, ExclusionNext, OrderNext
  <1> QED
    BY <1>1, <1>2, PTL DEF Spec

(* The state of Upbit's websocket keeps its type.                          *)
THEOREM TypeCorrect == Spec => []TypeOK
  BY InvariantHolds, PTL

(* wsRunning, set under the lock and cleared by the goroutine's deferred   *)
(* function, keeps the websocket to one goroutine.                         *)
THEOREM StreamExclusive == Spec => []OneStream
  <1>1. Exclusion => OneStream
    BY DEF Exclusion
  <1> QED
    BY <1>1, InvariantHolds, PTL

(* What carries the other proofs, checked by a run too.                    *)
THEOREM StreamInvariant == Spec => []StreamInv
  <1>1. Exclusion => StreamInv
    BY DEF Exclusion
  <1> QED
    BY <1>1, InvariantHolds, PTL

(* Upbit.Stop never closes a channel a candle is to be sent to.            *)
THEOREM ClosedAfterLastCandle == Spec => []NoCandleAfterClose
  <1>1. Exclusion => NoCandleAfterClose
    BY DEF Exclusion, StreamInv, NoCandleAfterClose
  <1> QED
    BY <1>1, InvariantHolds, PTL

(* Whatever the websocket's goroutines, reconnections and later            *)
(* subscriptions, an aggregator's channel gets the messages in the order   *)
(* they were read, each once, the incomplete bar before the complete one.  *)
THEOREM ChannelsInOrder == Spec => []SentInOrder
  <1>1. OrderInv => SentInOrder
    BY DEF OrderInv
  <1> QED
    BY <1>1, InvariantHolds, PTL
=============================================================================
