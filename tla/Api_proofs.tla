----------------------------- MODULE Api_proofs -----------------------------
(***************************************************************************)
(* What the handlers of the HTTP API keep: one idempotency key, requests   *)
(* for assets, and the account of one person.  The three share no state.   *)
(***************************************************************************)
EXTENDS Idempotency, AssetWorkflow, Accounts, FiniteSetTheorems, SequenceTheorems,
        TLAPS

(***************************************************************************)
(* One key of the HTTP API under any number of requests, payloads and      *)
(* faults.  Two inductive invariants: Truth says what the row and the      *)
(* answers say of the requests, Paid counts what has been executed, may be *)
(* executed without anyone knowing it, or may still be started.            *)
(***************************************************************************)

(* A request inside the handler owns the row. *)
Owned ==
    ~SlowHandlers =>
        /\ \A a, b \in Running : a = b
        /\ \A a \in Running : /\ record.status = "PROCESSING"
                              /\ ~record.old
                              /\ record.hash = attempt[a].payload

(* A row that is about to be taken over is still the one that was read. *)
Taken ==
    ~SlowHandlers =>
        \A a \in Attempts :
            /\ attempt[a].step = "reclaim"
            /\ record.status = "PROCESSING"
            /\ record.old
            => record.hash = attempt[a].payload

(* Response r reports what happened, to a request with this payload: where *)
(* requests are at att, and those in com have committed.                   *)
Reports(att, com, r, payload) ==
    /\ att[r.by].step = "done"
    /\ SlowHandlers \/ att[r.by].payload = payload
    /\ r.outcome = "ok" => r.by \in com
    /\ r.outcome = "refused" => r.by \notin com

IsTrue(r, payload) == Reports(attempt, committed, r, payload)

(* Before its handler has run a request has committed nothing; when it has *)
(* run, a 2xx or a 4xx is what the handler did.                            *)
Known ==
    \A a \in Attempts :
        /\ attempt[a].step \in {"idle", "look", "reclaim", "run"} => a \notin committed
        /\ attempt[a].step = "end" =>
              /\ attempt[a].outcome = "ok" => a \in committed
              /\ attempt[a].outcome = "refused" => a \notin committed

Replays == record.status = "COMPLETED" => IsTrue(record.response, record.hash)

Answers ==
    \A a \in Attempts : answer[a] \in Response => IsTrue(answer[a], attempt[a].payload)

Truth == TypeOK /\ Owned /\ Taken /\ Known /\ Replays /\ Answers

----------------------------------------------------------------------------
LEMMA RecordShape ==
  ASSUME record \in Record
  PROVE  \/ record = NoRecord /\ record.status = "NONE"
         \/ /\ record \in [status: {"PROCESSING"}, hash: Payloads, old: BOOLEAN]
            /\ record # NoRecord
            /\ record.status = "PROCESSING"
            /\ record.hash \in Payloads
            /\ record.old \in BOOLEAN
         \/ /\ record \in [status: {"COMPLETED"}, hash: Payloads, response: Response]
            /\ record # NoRecord
            /\ record.status = "COMPLETED"
            /\ record.hash \in Payloads
            /\ record.response \in Response
BY DEF Record, NoRecord

(* A client that is told of no execution has no response. *)
LEMMA ToldIsNoResponse ==
  ASSUME NEW what
  PROVE  Told(what) \notin Response
BY DEF Told, Response

LEMMA TypeInit == Init => TypeOK
<1> SUFFICES ASSUME Init PROVE TypeOK
  OBVIOUS
<1>1. record \in Record
  BY DEF Init, Record
<1>2. attempt \in [Attempts -> [step: Steps, payload: Payloads, outcome: Outcomes]]
  BY DEF Init, Steps, Outcomes
<1>3. answer \in [Attempts -> Response \cup NoResponse]
  BY DEF Init, Told, NoResponse
<1> QED BY <1>1, <1>2, <1>3, IdempotencyAssumption DEF Init, TypeOK

(* What Goto and Reply do to the types. *)
LEMMA GotoStep ==
  ASSUME TypeOK, NEW a \in Attempts, NEW step \in Steps, Goto(a, step)
  PROVE  /\ attempt' \in [Attempts -> [step: Steps, payload: Payloads, outcome: Outcomes]]
         /\ \A b \in Attempts : b # a => attempt'[b] = attempt[b]
         /\ attempt'[a].step = step
         /\ attempt'[a].payload = attempt[a].payload
         /\ attempt'[a].outcome = attempt[a].outcome
         /\ answer' = answer
<1>1. attempt[a] \in [step: Steps, payload: Payloads, outcome: Outcomes]
  BY DEF TypeOK
<1> DEFINE new == [attempt[a] EXCEPT !.step = step]
<1>2. attempt' = [attempt EXCEPT ![a] = new] /\ answer' = answer
  BY DEF Goto
<1>3. /\ new \in [step: Steps, payload: Payloads, outcome: Outcomes]
      /\ new.step = step
      /\ new.payload = attempt[a].payload
      /\ new.outcome = attempt[a].outcome
  BY <1>1
<1> HIDE DEF new
<1> QED BY <1>2, <1>3 DEF TypeOK

LEMMA ReplyStep ==
  ASSUME TypeOK, NEW a \in Attempts, NEW what, Reply(a, what)
  PROVE  /\ attempt' \in [Attempts -> [step: Steps, payload: Payloads, outcome: Outcomes]]
         /\ \A b \in Attempts : b # a => attempt'[b] = attempt[b]
         /\ attempt'[a].step = "done"
         /\ attempt'[a].payload = attempt[a].payload
         /\ attempt'[a].outcome = attempt[a].outcome
         /\ \A b \in Attempts : b # a => answer'[b] = answer[b]
         /\ answer'[a] = what
         /\ what \in Response \cup NoResponse
               => answer' \in [Attempts -> Response \cup NoResponse]
<1>1. attempt[a] \in [step: Steps, payload: Payloads, outcome: Outcomes]
  BY DEF TypeOK
<1> DEFINE new == [attempt[a] EXCEPT !.step = "done"]
<1>2. attempt' = [attempt EXCEPT ![a] = new] /\ answer' = [answer EXCEPT ![a] = what]
  BY DEF Reply
<1>3. /\ new \in [step: Steps, payload: Payloads, outcome: Outcomes]
      /\ new.step = "done"
      /\ new.payload = attempt[a].payload
      /\ new.outcome = attempt[a].outcome
  BY <1>1 DEF Steps
<1> HIDE DEF new
<1> QED BY <1>2, <1>3 DEF TypeOK

LEMMA HandleStep ==
  ASSUME TypeOK, NEW a \in Attempts, NEW outcome \in Outcomes, Handle(a, outcome)
  PROVE  /\ attempt' \in [Attempts -> [step: Steps, payload: Payloads, outcome: Outcomes]]
         /\ \A b \in Attempts : b # a => attempt'[b] = attempt[b]
         /\ attempt'[a].step = "end"
         /\ attempt'[a].payload = attempt[a].payload
         /\ attempt'[a].outcome = outcome
<1>1. attempt[a] \in [step: Steps, payload: Payloads, outcome: Outcomes]
  BY DEF TypeOK
<1> DEFINE new == [attempt[a] EXCEPT !.step = "end", !.outcome = outcome]
<1>2. attempt' = [attempt EXCEPT ![a] = new]
  BY DEF Handle
<1>3. /\ new \in [step: Steps, payload: Payloads, outcome: Outcomes]
      /\ new.step = "end"
      /\ new.payload = attempt[a].payload
      /\ new.outcome = outcome
  BY <1>1 DEF Steps
<1> HIDE DEF new
<1> QED BY <1>2, <1>3 DEF TypeOK

LEMMA CrashStep ==
  ASSUME TypeOK, Crash
  PROVE  /\ attempt' \in [Attempts -> [step: Steps, payload: Payloads, outcome: Outcomes]]
         /\ answer' \in [Attempts -> Response \cup NoResponse]
         /\ \A b \in Attempts : b \notin InFlight =>
               attempt'[b] = attempt[b] /\ answer'[b] = answer[b]
         /\ \A b \in InFlight : /\ attempt'[b].step = "done"
                                /\ attempt'[b].payload = attempt[b].payload
                                /\ answer'[b] = Told("lost")
<1> DEFINE new(b) == [attempt[b] EXCEPT !.step = "done"]
<1>1. \A b \in Attempts :
        /\ attempt[b] \in [step: Steps, payload: Payloads, outcome: Outcomes]
        /\ answer[b] \in Response \cup NoResponse
  BY DEF TypeOK
<1>2. \A b \in Attempts : /\ new(b) \in [step: Steps, payload: Payloads,
                                         outcome: Outcomes]
                          /\ new(b).step = "done"
                          /\ new(b).payload = attempt[b].payload
  BY <1>1 DEF Steps
<1>3. /\ attempt' = [b \in Attempts |-> IF b \in InFlight THEN new(b) ELSE attempt[b]]
      /\ answer' = [b \in Attempts |-> IF b \in InFlight THEN Told("lost") ELSE answer[b]]
  BY DEF Crash
<1>4. InFlight \subseteq Attempts /\ Told("lost") \in NoResponse
  BY DEF InFlight, Told, NoResponse
<1> HIDE DEF new
<1> QED BY <1>1, <1>2, <1>3, <1>4

(* What res.end writes over the row. *)
LEMMA EndedRow ==
  ASSUME TypeOK, NEW a \in Attempts
  PROVE  /\ Ended(a) \in Record
         /\ \/ Ended(a) = NoRecord
            \/ /\ record # NoRecord
               /\ attempt[a].outcome # "failed"
               /\ Ended(a).status = "COMPLETED"
               /\ Ended(a).hash = record.hash
               /\ Ended(a).response = ResponseOf(a)
         /\ record = NoRecord => Ended(a) = NoRecord
         /\ ResponseOf(a) \in Response
         /\ ResponseOf(a).by = a
         /\ ResponseOf(a).outcome = attempt[a].outcome
<1>1. attempt[a].outcome \in Outcomes
  BY DEF TypeOK
<1>2. /\ ResponseOf(a) \in Response
      /\ ResponseOf(a).by = a
      /\ ResponseOf(a).outcome = attempt[a].outcome
  BY <1>1 DEF ResponseOf, Response
<1>3. record # NoRecord => record.hash \in Payloads
  BY RecordShape DEF TypeOK
<1> DEFINE row == [status |-> "COMPLETED", hash |-> record.hash,
                   response |-> ResponseOf(a)]
<1>4. record # NoRecord => row \in Record
  BY <1>2, <1>3 DEF Record
<1>5. Ended(a) = IF attempt[a].outcome = "failed" \/ record = NoRecord
                 THEN NoRecord ELSE row
  BY DEF Ended
<1>6. row.status = "COMPLETED" /\ row.hash = record.hash /\ row.response = ResponseOf(a)
  OBVIOUS
<1>7. NoRecord \in Record
  BY DEF Record
<1> HIDE DEF row
<1> QED BY <1>2, <1>4, <1>5, <1>6, <1>7

LEMMA TypeStep == TypeOK /\ [Next]_vars => TypeOK'
<1> SUFFICES ASSUME TypeOK, [Next]_vars PROVE TypeOK'
  OBVIOUS
<1> DEFINE Attempted == [Attempts -> [step: Steps, payload: Payloads, outcome: Outcomes]]
           Said == [Attempts -> Response \cup NoResponse]
<1>0. /\ record \in Record /\ attempt \in Attempted /\ committed \subseteq Attempts
      /\ answer \in Said /\ faults \in 0..MaxFaults
  BY DEF TypeOK
<1>f. Fault => faults' \in 0..MaxFaults
  BY <1>0, IdempotencyAssumption DEF Fault
<1>s. {"idle", "look", "reclaim", "run", "end", "done"} \subseteq Steps
  BY DEF Steps
<1>n. \A w \in {"none", "conflict", "busy", "error", "lost"} : Told(w) \in NoResponse
  BY DEF Told, NoResponse
<1>1. ASSUME NEW a \in Attempts, Insert(a)
      PROVE  TypeOK'
  <2>1. attempt[a].payload \in Payloads
    BY <1>0
  <2> DEFINE row == [status |-> "PROCESSING", hash |-> attempt[a].payload, old |-> FALSE]
  <2>4. row \in Record
    BY <2>1 DEF Record
  <2>5. record' = row \/ record' = record
    BY <1>1 DEF Insert
  <2>2. record' \in Record
    BY <1>0, <2>4, <2>5
  <2>3. attempt' \in Attempted /\ answer' = answer
    BY <1>1, <1>s, GotoStep DEF Insert
  <2> QED BY <1>0, <1>1, <2>2, <2>3 DEF Insert, TypeOK
<1>2. ASSUME NEW a \in Attempts, Look(a)
      PROVE  TypeOK'
  <2>1. CASE Reply(a, Told("conflict"))
    BY <1>0, <1>2, <1>n, <2>1, ReplyStep DEF Look, TypeOK
  <2>2. CASE record.status = "COMPLETED" /\ Reply(a, record.response)
    <3>1. record.response \in Response
      BY <1>0, <2>2, RecordShape
    <3> QED BY <1>0, <1>2, <2>2, <3>1, ReplyStep DEF Look, TypeOK
  <2>3. CASE Goto(a, "reclaim")
    BY <1>0, <1>2, <1>s, <2>3, GotoStep DEF Look, TypeOK
  <2> QED BY <1>2, <2>1, <2>2, <2>3 DEF Look
<1>3. ASSUME NEW a \in Attempts, Reclaim(a)
      PROVE  TypeOK'
  <2>1. CASE record.status = "PROCESSING" /\ record.old
    <3>1. record \in [status: {"PROCESSING"}, hash: Payloads, old: BOOLEAN]
      BY <1>0, <2>1, RecordShape
    <3>2. record' = [record EXCEPT !.old = FALSE] /\ Goto(a, "run")
      BY <1>3, <2>1 DEF Reclaim
    <3>3. record' \in Record
      BY <3>1, <3>2 DEF Record
    <3> QED BY <1>0, <1>3, <1>s, <3>2, <3>3, GotoStep DEF Reclaim, TypeOK
  <2>2. CASE ~(record.status = "PROCESSING" /\ record.old)
    BY <1>0, <1>3, <1>n, <2>2, ReplyStep DEF Reclaim, TypeOK
  <2> QED BY <2>1, <2>2
<1>4. ASSUME NEW a \in Attempts, NEW outcome \in Outcomes, Handle(a, outcome)
      PROVE  TypeOK'
  <2>1. attempt' \in Attempted
    BY <1>4, HandleStep
  <2> QED BY <1>0, <1>f, <1>4, <2>1 DEF Handle, TypeOK
<1>5. ASSUME NEW a \in Attempts, End(a)
      PROVE  TypeOK'
  <2>1. record' \in Record
    BY <1>5, EndedRow DEF End
  <2>2. attempt' \in Attempted /\ answer' \in Said
    BY <1>5, ReplyStep, EndedRow DEF End
  <2> QED BY <1>0, <1>5, <2>1, <2>2 DEF End, TypeOK
<1>6. ASSUME NEW a \in Attempts, EndError(a)
      PROVE  TypeOK'
  <2>1. record' \in Record
    BY <1>0, <1>6, EndedRow DEF EndError, Record
  <2>2. attempt' \in Attempted /\ answer' \in Said
    BY <1>6, <1>n, ReplyStep DEF EndError
  <2> QED BY <1>0, <1>f, <1>6, <2>1, <2>2 DEF EndError, TypeOK
<1>7. CASE Crash
  BY <1>0, <1>f, <1>7, CrashStep DEF Crash, TypeOK
<1>8. CASE Age
  <2>1. record \in [status: {"PROCESSING"}, hash: Payloads, old: BOOLEAN]
    BY <1>0, <1>8, RecordShape DEF Age
  <2>2. record' \in Record
    BY <1>8, <2>1 DEF Age, Record
  <2>3. faults' \in 0..MaxFaults
    BY <1>0, <1>f, <1>8 DEF Age
  <2> QED BY <1>0, <1>8, <2>2, <2>3 DEF Age, TypeOK
<1>9. CASE UNCHANGED vars
  BY <1>9 DEF vars, TypeOK
<1> QED BY <1>1, <1>2, <1>3, <1>4, <1>5, <1>6, <1>7, <1>8, <1>9 DEF Next

(* Every step leaves the payloads alone and what is done as it is. *)
LEMMA DoneStays ==
  ASSUME TypeOK, [Next]_vars, NEW b \in Attempts
  PROVE  /\ attempt'[b].payload = attempt[b].payload
         /\ attempt[b].step = "done" =>
               attempt'[b] = attempt[b] /\ (b \in committed' <=> b \in committed)
         /\ answer'[b] \in Response /\ attempt[b].step = "done" => answer'[b] = answer[b]
<1>1. ASSUME NEW a \in Attempts, Insert(a) \/ Look(a) \/ Reclaim(a)
      PROVE  /\ a # b => attempt'[b] = attempt[b] /\ answer'[b] = answer[b]
             /\ attempt'[a].payload = attempt[a].payload
             /\ attempt[a].step # "done"
             /\ committed' = committed
  <2>1. CASE Insert(a)
    BY <2>1, GotoStep DEF Insert, Steps
  <2>2. CASE Look(a)
    BY <2>2, GotoStep, ReplyStep DEF Look, Steps
  <2>3. CASE Reclaim(a)
    BY <2>3, GotoStep, ReplyStep DEF Reclaim, Steps
  <2> QED BY <1>1, <2>1, <2>2, <2>3
<1>2. ASSUME NEW a \in Attempts, NEW outcome \in Outcomes, Handle(a, outcome)
      PROVE  /\ a # b => attempt'[b] = attempt[b] /\ answer'[b] = answer[b]
             /\ attempt'[a].payload = attempt[a].payload
             /\ attempt[a].step # "done"
             /\ a # b => (b \in committed' <=> b \in committed)
  BY <1>2, HandleStep DEF Handle
<1>3. ASSUME NEW a \in Attempts, End(a) \/ EndError(a)
      PROVE  /\ a # b => attempt'[b] = attempt[b] /\ answer'[b] = answer[b]
             /\ attempt'[a].payload = attempt[a].payload
             /\ attempt[a].step # "done"
             /\ committed' = committed
  BY <1>3, ReplyStep DEF End, EndError
<1>4. ASSUME Crash
      PROVE  /\ attempt'[b].payload = attempt[b].payload
             /\ attempt[b].step = "done" => attempt'[b] = attempt[b] /\ answer'[b] = answer[b]
             /\ committed' = committed
  BY <1>4, CrashStep DEF Crash, InFlight
<1>5. ASSUME Age \/ UNCHANGED vars
      PROVE  attempt' = attempt /\ committed' = committed /\ answer' = answer
  BY <1>5 DEF Age, vars
<1> QED BY <1>1, <1>2, <1>3, <1>4, <1>5 DEF Next

(* What is true of a response stays true. *)
LEMMA TrueStays ==
  ASSUME TypeOK, [Next]_vars, NEW r \in Response, NEW payload, IsTrue(r, payload)
  PROVE  Reports(attempt', committed', r, payload)
<1>1. r.by \in Attempts
  BY DEF Response
<1> QED BY <1>1, DoneStays DEF IsTrue, Reports

LEMMA KnownStep == Truth /\ [Next]_vars => Known'
<1> SUFFICES ASSUME Truth, [Next]_vars, NEW b \in Attempts
             PROVE  /\ attempt'[b].step \in {"idle", "look", "reclaim", "run"}
                          => b \notin committed'
                    /\ attempt'[b].step = "end" =>
                          /\ attempt'[b].outcome = "ok" => b \in committed'
                          /\ attempt'[b].outcome = "refused" => b \notin committed'
  BY DEF Known
<1>0. TypeOK /\ Known
  BY DEF Truth
<1>1. ASSUME NEW a \in Attempts, Insert(a) \/ Look(a) \/ Reclaim(a)
      PROVE  /\ a # b => attempt'[b] = attempt[b]
             /\ attempt'[a].step \in {"look", "reclaim", "run", "done"}
             /\ attempt[a].step \in {"idle", "look", "reclaim"}
             /\ committed' = committed
  <2>1. CASE Insert(a)
    BY <1>0, <2>1, GotoStep DEF Insert, Steps
  <2>2. CASE Look(a)
    BY <1>0, <2>2, GotoStep, ReplyStep DEF Look, Steps
  <2>3. CASE Reclaim(a)
    BY <1>0, <2>3, GotoStep, ReplyStep DEF Reclaim, Steps
  <2> QED BY <1>1, <2>1, <2>2, <2>3
<1>2. ASSUME NEW a \in Attempts, NEW outcome \in Outcomes, Handle(a, outcome)
      PROVE  /\ a # b => attempt'[b] = attempt[b] /\ (b \in committed' <=> b \in committed)
             /\ attempt[a].step = "run"
             /\ attempt'[a].step = "end" /\ attempt'[a].outcome = outcome
             /\ outcome = "ok" => a \in committed'
             /\ outcome = "refused" => committed' = committed
  BY <1>0, <1>2, HandleStep DEF Handle
<1>3. ASSUME NEW a \in Attempts, End(a) \/ EndError(a)
      PROVE  /\ a # b => attempt'[b] = attempt[b]
             /\ attempt'[a].step = "done"
             /\ committed' = committed
  BY <1>0, <1>3, ReplyStep DEF End, EndError
<1>4. ASSUME Crash
      PROVE  /\ attempt'[b].step = "done" \/ attempt'[b] = attempt[b]
             /\ committed' = committed
  BY <1>0, <1>4, CrashStep DEF Crash
<1>5. ASSUME Age \/ UNCHANGED vars
      PROVE  attempt' = attempt /\ committed' = committed
  BY <1>5 DEF Age, vars
<1>6. CASE \E a \in Attempts : Insert(a) \/ Look(a) \/ Reclaim(a)
  BY <1>0, <1>1, <1>6 DEF Known
<1>7. CASE \E a \in Attempts, outcome \in Outcomes : Handle(a, outcome)
  BY <1>0, <1>2, <1>7 DEF Known
<1>8. CASE \E a \in Attempts : End(a) \/ EndError(a)
  BY <1>0, <1>3, <1>8 DEF Known
<1>9. CASE Crash \/ Age \/ UNCHANGED vars
  BY <1>0, <1>4, <1>5, <1>9 DEF Known
<1> QED BY <1>6, <1>7, <1>8, <1>9 DEF Next

(* Ownership passes from the request that leaves the handler to the one    *)
(* that inserts the row or takes it over, and there is no other way in.    *)
LEMMA OwnedStep == Truth /\ [Next]_vars => Owned'
<1> SUFFICES ASSUME Truth, [Next]_vars, ~SlowHandlers
             PROVE  /\ \A a, b \in Running' : a = b
                    /\ \A a \in Running' : /\ record'.status = "PROCESSING"
                                           /\ ~record'.old
                                           /\ record'.hash = attempt'[a].payload
  BY DEF Owned
<1>0. /\ TypeOK
      /\ \A a, b \in Running : a = b
      /\ \A a \in Running : /\ record.status = "PROCESSING" /\ ~record.old
                            /\ record.hash = attempt[a].payload
      /\ Taken
  BY DEF Truth, Owned
<1>1. ASSUME NEW a \in Attempts, record' = record,
             \A b \in Attempts : b # a => attempt'[b] = attempt[b],
             attempt'[a].payload = attempt[a].payload,
             attempt'[a].step \notin {"run", "end"} \/ attempt[a].step \in {"run", "end"}
      PROVE  /\ \A b, c \in Running' : b = c
             /\ \A b \in Running' : /\ record'.status = "PROCESSING" /\ ~record'.old
                                    /\ record'.hash = attempt'[b].payload
  <2>1. Running' \subseteq Running
    BY <1>1 DEF Running
  <2>2. \A b \in Running' : attempt'[b].payload = attempt[b].payload
    BY <1>1 DEF Running
  <2> QED BY <1>0, <1>1, <2>1, <2>2
<1>2. ASSUME NEW a \in Attempts, Running = {},
             \A b \in Attempts : b # a => attempt'[b] = attempt[b],
             attempt'[a].payload = attempt[a].payload,
             record'.status = "PROCESSING", ~record'.old,
             record'.hash = attempt[a].payload
      PROVE  /\ \A b, c \in Running' : b = c
             /\ \A b \in Running' : /\ record'.status = "PROCESSING" /\ ~record'.old
                                    /\ record'.hash = attempt'[b].payload
  <2>1. Running' \subseteq {a}
    BY <1>2 DEF Running
  <2> QED BY <1>2, <2>1
<1>3. ASSUME NEW a \in Attempts, Insert(a)
      PROVE  /\ \A b, c \in Running' : b = c
             /\ \A b \in Running' : /\ record'.status = "PROCESSING" /\ ~record'.old
                                    /\ record'.hash = attempt'[b].payload
  <2>1. CASE record = NoRecord
    <3>1. Running = {}
      BY <1>0, <2>1 DEF NoRecord
    <3>2. record'.status = "PROCESSING" /\ ~record'.old /\ record'.hash = attempt[a].payload
      BY <1>3, <2>1 DEF Insert
    <3> QED BY <1>0, <1>2, <1>3, <2>1, <3>1, <3>2, GotoStep DEF Insert, Steps
  <2>2. CASE record # NoRecord
    BY <1>0, <1>1, <1>3, <2>2, GotoStep DEF Insert, Steps
  <2> QED BY <2>1, <2>2
<1>4. ASSUME NEW a \in Attempts, Look(a)
      PROVE  /\ \A b, c \in Running' : b = c
             /\ \A b \in Running' : /\ record'.status = "PROCESSING" /\ ~record'.old
                                    /\ record'.hash = attempt'[b].payload
  BY <1>0, <1>1, <1>4, GotoStep, ReplyStep DEF Look, Steps
<1>5. ASSUME NEW a \in Attempts, Reclaim(a)
      PROVE  /\ \A b, c \in Running' : b = c
             /\ \A b \in Running' : /\ record'.status = "PROCESSING" /\ ~record'.old
                                    /\ record'.hash = attempt'[b].payload
  <2>1. CASE record.status = "PROCESSING" /\ record.old
    <3>1. Running = {}
      BY <1>0, <2>1
    <3>2. record.hash = attempt[a].payload
      BY <1>0, <1>5, <2>1 DEF Taken, Reclaim
    <3>3. record' = [record EXCEPT !.old = FALSE]
      BY <1>5, <2>1 DEF Reclaim
    <3>4. record \in [status: {"PROCESSING"}, hash: Payloads, old: BOOLEAN]
      BY <1>0, <2>1, RecordShape DEF TypeOK
    <3>5. record'.status = "PROCESSING" /\ ~record'.old /\ record'.hash = attempt[a].payload
      BY <3>2, <3>3, <3>4
    <3> QED BY <1>0, <1>2, <1>5, <2>1, <3>1, <3>5, GotoStep DEF Reclaim, Steps
  <2>2. CASE ~(record.status = "PROCESSING" /\ record.old)
    BY <1>0, <1>1, <1>5, <2>2, ReplyStep DEF Reclaim
  <2> QED BY <2>1, <2>2
<1>6. ASSUME NEW a \in Attempts, NEW outcome \in Outcomes, Handle(a, outcome)
      PROVE  /\ \A b, c \in Running' : b = c
             /\ \A b \in Running' : /\ record'.status = "PROCESSING" /\ ~record'.old
                                    /\ record'.hash = attempt'[b].payload
  BY <1>0, <1>1, <1>6, HandleStep DEF Handle
<1>7. ASSUME NEW a \in Attempts, End(a) \/ EndError(a)
      PROVE  Running' = {}
  <2>1. \A b \in Running : b = a
    BY <1>0, <1>7 DEF End, EndError, Running
  <2>2. attempt'[a].step = "done" /\ \A b \in Attempts : b # a => attempt'[b] = attempt[b]
    BY <1>0, <1>7, ReplyStep DEF End, EndError
  <2> QED BY <2>1, <2>2 DEF Running
<1>8. ASSUME Crash
      PROVE  Running' = {}
  BY <1>0, <1>8, CrashStep DEF InFlight, Running
<1>9. ASSUME Age
      PROVE  Running' = {}
  <2>1. InFlight = {} /\ attempt' = attempt
    BY <1>9 DEF Age
  <2> QED BY <2>1 DEF InFlight, Running
<1>10. ASSUME UNCHANGED vars
       PROVE  Running' = Running /\ record' = record /\ attempt' = attempt
  BY <1>10 DEF vars, Running
<1> QED BY <1>0, <1>3, <1>4, <1>5, <1>6, <1>7, <1>8, <1>9, <1>10 DEF Next

LEMMA TakenStep == Truth /\ [Next]_vars => Taken'
<1> SUFFICES ASSUME Truth, [Next]_vars, ~SlowHandlers, NEW b \in Attempts,
                    attempt'[b].step = "reclaim",
                    record'.status = "PROCESSING", record'.old
             PROVE  record'.hash = attempt'[b].payload
  BY DEF Taken
<1>0. TypeOK /\ Taken /\ record \in Record
  BY DEF Truth, TypeOK
<1>1. attempt'[b].payload = attempt[b].payload
  BY <1>0, DoneStays
<1>2. ASSUME NEW a \in Attempts, Insert(a)
      PROVE  record' = record /\ attempt'[b] = attempt[b]
  <2>1. record = NoRecord => ~record'.old
    BY <1>2 DEF Insert
  <2>2. attempt'[a].step \in {"run", "look"}
    BY <1>0, <1>2, GotoStep DEF Insert, Steps
  <2> QED BY <1>0, <1>2, <2>1, <2>2, GotoStep DEF Insert, Steps
<1>3. ASSUME NEW a \in Attempts, Look(a)
      PROVE  record'.hash = attempt'[b].payload
  <2>1. record' = record
    BY <1>3 DEF Look
  <2>2. CASE a = b
    <3>1. Matches(a)
      BY <1>0, <1>3, <2>2, ReplyStep DEF Look
    <3> QED BY <1>1, <2>1, <2>2, <3>1 DEF Matches
  <2>3. CASE a # b
    <3>1. attempt'[b] = attempt[b]
      BY <1>0, <1>3, <2>3, GotoStep, ReplyStep DEF Look, Steps
    <3> QED BY <1>0, <2>1, <3>1 DEF Taken
  <2> QED BY <2>2, <2>3
<1>4. ASSUME NEW a \in Attempts, Reclaim(a)
      PROVE  record' = record /\ attempt'[b] = attempt[b]
  <2>1. CASE record.status = "PROCESSING" /\ record.old
    <3>1. record' = [record EXCEPT !.old = FALSE]
      BY <1>4, <2>1 DEF Reclaim
    <3>2. ~record'.old
      BY <1>0, <2>1, <3>1, RecordShape
    <3> QED BY <3>2
  <2>2. CASE ~(record.status = "PROCESSING" /\ record.old)
    BY <1>0, <1>4, <2>2, ReplyStep DEF Reclaim
  <2> QED BY <2>1, <2>2
<1>5. ASSUME NEW a \in Attempts, NEW outcome \in Outcomes, Handle(a, outcome)
      PROVE  record' = record /\ attempt'[b] = attempt[b]
  BY <1>0, <1>5, HandleStep DEF Handle
<1>6. ASSUME NEW a \in Attempts, End(a) \/ EndError(a)
      PROVE  record' = record /\ attempt'[b] = attempt[b]
  <2>1. Ended(a).status # "PROCESSING" /\ NoRecord.status # "PROCESSING"
    BY <1>0, EndedRow DEF NoRecord
  <2>2. record' = record
    BY <1>6, <2>1 DEF End, EndError
  <2> QED BY <1>0, <1>6, <2>2, ReplyStep DEF End, EndError
<1>7. CASE Crash
  BY <1>0, <1>7, CrashStep DEF Crash, Taken
<1>8. CASE Age
  <2>1. InFlight = {} /\ attempt' = attempt
    BY <1>8 DEF Age
  <2> QED BY <2>1 DEF InFlight
<1>9. CASE UNCHANGED vars
  BY <1>0, <1>9 DEF vars, Taken
<1>10. record' = record /\ attempt'[b] = attempt[b] => record'.hash = attempt'[b].payload
  BY <1>0 DEF Taken
<1> QED BY <1>2, <1>3, <1>4, <1>5, <1>6, <1>7, <1>8, <1>9, <1>10 DEF Next

(* The response a request ends with is true of it from then on. *)
LEMMA EndIsTrue ==
  ASSUME Truth, NEW a \in Attempts, End(a) \/ EndError(a)
  PROVE  /\ attempt'[a].step = "done"
         /\ attempt'[a].payload = attempt[a].payload
         /\ ResponseOf(a).outcome = "ok" => a \in committed'
         /\ ResponseOf(a).outcome = "refused" => a \notin committed'
<1>1. TypeOK /\ Known
  BY DEF Truth
<1>2. attempt[a].step = "end" /\ committed' = committed
  BY DEF End, EndError
<1>3. attempt'[a].step = "done" /\ attempt'[a].payload = attempt[a].payload
  BY <1>1, ReplyStep DEF End, EndError
<1> QED BY <1>1, <1>2, <1>3, EndedRow DEF Known

LEMMA ReplaysStep == Truth /\ [Next]_vars => Replays'
<1> SUFFICES ASSUME Truth, [Next]_vars, record'.status = "COMPLETED"
             PROVE  Reports(attempt', committed', record'.response, record'.hash)
  BY DEF Replays, IsTrue
<1>0. TypeOK /\ Replays /\ Owned /\ record \in Record
  BY DEF Truth, TypeOK
<1>1. ASSUME record' = record
      PROVE  Reports(attempt', committed', record'.response, record'.hash)
  <2>1. record.response \in Response /\ IsTrue(record.response, record.hash)
    BY <1>0, <1>1, RecordShape DEF Replays
  <2> QED BY <1>0, <1>1, <2>1, TrueStays
<1>2. ASSUME NEW a \in Attempts, Insert(a)
      PROVE  record' = record
  BY <1>2 DEF Insert
<1>3. ASSUME NEW a \in Attempts, Reclaim(a)
      PROVE  record' = record
  <2>1. CASE record.status = "PROCESSING" /\ record.old
    <3>1. record' = [record EXCEPT !.old = FALSE]
      BY <1>3, <2>1 DEF Reclaim
    <3>2. record'.status = "PROCESSING"
      BY <1>0, <2>1, <3>1, RecordShape
    <3> QED BY <3>2
  <2>2. CASE ~(record.status = "PROCESSING" /\ record.old)
    BY <1>3, <2>2 DEF Reclaim
  <2> QED BY <2>1, <2>2
<1>4. ASSUME NEW a \in Attempts, End(a) \/ EndError(a)
      PROVE  Reports(attempt', committed', record'.response, record'.hash)
  <2>1. NoRecord.status # "COMPLETED"
    BY DEF NoRecord
  <2>4. record' = record \/ record' = Ended(a) \/ record' = NoRecord
    BY <1>4 DEF End, EndError
  <2>5. record' # NoRecord
    BY <2>1
  <2>2. record' = record \/ (record' = Ended(a) /\ Ended(a) # NoRecord)
    BY <2>4, <2>5
  <2>3. CASE record' = Ended(a) /\ Ended(a) # NoRecord
    <3>1. record'.hash = record.hash /\ record'.response = ResponseOf(a)
      BY <1>0, <2>3, EndedRow
    <3>2. ResponseOf(a).by = a
      BY <1>0, EndedRow
    <3>3. a \in Running
      BY <1>4 DEF End, EndError, Running
    <3>4. SlowHandlers \/ attempt[a].payload = record.hash
      BY <1>0, <3>3 DEF Owned
    <3>5. /\ attempt'[a].step = "done"
          /\ attempt'[a].payload = attempt[a].payload
          /\ ResponseOf(a).outcome = "ok" => a \in committed'
          /\ ResponseOf(a).outcome = "refused" => a \notin committed'
      BY <1>4, EndIsTrue
    <3> QED BY <3>1, <3>2, <3>4, <3>5 DEF Reports
  <2> QED BY <1>1, <2>2, <2>3
<1>5. CASE Age
  <2>1. record' = [record EXCEPT !.old = TRUE] /\ record.status = "PROCESSING"
    BY <1>5 DEF Age
  <2>2. record'.status = "PROCESSING"
    BY <1>0, <2>1, RecordShape
  <2> QED BY <2>2
<1>6. CASE \/ \E a \in Attempts : Look(a) \/ \E outcome \in Outcomes : Handle(a, outcome)
           \/ Crash \/ UNCHANGED vars
  BY <1>1, <1>6 DEF Look, Handle, Crash, vars
<1> QED BY <1>1, <1>2, <1>3, <1>4, <1>5, <1>6 DEF Next

LEMMA AnswersStep == Truth /\ [Next]_vars => Answers'
<1> SUFFICES ASSUME Truth, [Next]_vars, NEW b \in Attempts, answer'[b] \in Response
             PROVE  Reports(attempt', committed', answer'[b], attempt'[b].payload)
  BY DEF Answers, IsTrue
<1>0. TypeOK /\ Answers /\ Replays /\ record \in Record
  BY DEF Truth, TypeOK
<1>1. attempt'[b].payload = attempt[b].payload
  BY <1>0, DoneStays
<1>2. ASSUME answer'[b] = answer[b]
      PROVE  Reports(attempt', committed', answer'[b], attempt'[b].payload)
  <2>1. IsTrue(answer[b], attempt[b].payload)
    BY <1>0, <1>2 DEF Answers
  <2> QED BY <1>0, <1>1, <1>2, <2>1, TrueStays
<1>3. ASSUME NEW a \in Attempts, Look(a)
      PROVE  Reports(attempt', committed', answer'[b], attempt'[b].payload)
  <2>1. CASE a = b
    <3>1. \/ Matches(a) /\ record.status = "COMPLETED" /\ Reply(a, record.response)
          \/ answer'[b] = answer[b]
      BY <1>0, <1>3, <2>1, GotoStep, ReplyStep, ToldIsNoResponse DEF Look, Steps
    <3>2. CASE Matches(a) /\ record.status = "COMPLETED" /\ Reply(a, record.response)
      <4>1. answer'[b] = record.response /\ record.hash = attempt[b].payload
        BY <1>0, <2>1, <3>2, ReplyStep DEF Matches
      <4>2. IsTrue(record.response, record.hash)
        BY <1>0, <3>2 DEF Replays
      <4> QED BY <1>0, <1>1, <4>1, <4>2, TrueStays
    <3> QED BY <1>2, <3>1, <3>2
  <2>2. CASE a # b
    <3>1. answer'[b] = answer[b]
      BY <1>0, <1>3, <2>2, GotoStep, ReplyStep DEF Look, Steps
    <3> QED BY <1>2, <3>1
  <2> QED BY <2>1, <2>2
<1>4. ASSUME NEW a \in Attempts, End(a)
      PROVE  Reports(attempt', committed', answer'[b], attempt'[b].payload)
  <2>1. CASE a = b
    <3>1. answer'[b] = ResponseOf(a) /\ ResponseOf(a).by = a
      BY <1>0, <1>4, <2>1, ReplyStep, EndedRow DEF End
    <3>2. /\ attempt'[a].step = "done"
          /\ ResponseOf(a).outcome = "ok" => a \in committed'
          /\ ResponseOf(a).outcome = "refused" => a \notin committed'
      BY <1>4, EndIsTrue
    <3> QED BY <2>1, <3>1, <3>2 DEF Reports
  <2>2. CASE a # b
    BY <1>0, <1>2, <1>4, <2>2, ReplyStep DEF End
  <2> QED BY <2>1, <2>2
<1>5. ASSUME NEW a \in Attempts, Insert(a) \/ Reclaim(a) \/ EndError(a)
      PROVE  answer'[b] = answer[b]
  BY <1>0, <1>5, GotoStep, ReplyStep, ToldIsNoResponse DEF Insert, Reclaim, EndError,
       Steps
<1>6. ASSUME Crash
      PROVE  answer'[b] = answer[b]
  BY <1>0, <1>6, CrashStep, ToldIsNoResponse
<1>7. CASE \/ \E a \in Attempts, outcome \in Outcomes : Handle(a, outcome)
           \/ Age \/ UNCHANGED vars
  BY <1>2, <1>7 DEF Handle, Age, vars
<1> QED BY <1>2, <1>3, <1>4, <1>5, <1>6, <1>7 DEF Next

LEMMA TruthInit == Init => Truth
<1> SUFFICES ASSUME Init PROVE Truth
  OBVIOUS
<1>1. /\ record = NoRecord /\ record.status = "NONE" /\ committed = {}
      /\ \A a \in Attempts : attempt[a].step = "idle"
      /\ \A a \in Attempts : answer[a] = Told("none")
  BY DEF Init, NoRecord
<1>2. Running = {} /\ Answers
  BY <1>1, ToldIsNoResponse DEF Running, Answers
<1> QED BY <1>1, <1>2, TypeInit DEF Truth, Owned, Taken, Known, Replays

LEMMA TruthStep == Truth /\ [Next]_vars => Truth'
<1>1. Truth => TypeOK
  BY DEF Truth
<1> QED BY <1>1, TypeStep, OwnedStep, TakenStep, KnownStep, ReplaysStep, AnswersStep
        DEF Truth

(* What the row says, what clients have been told and who may be inside    *)
(* the handler rest on one inductive invariant.                            *)
THEOREM TruthInvariant == Spec => []Truth
BY TruthInit, TruthStep, PTL DEF Spec

(* Every variable keeps its type: whatever faults happen, the row of       *)
(* api_idempotency_keys is absent, in process or complete.                 *)
THEOREM TypesCorrect == Spec => []TypeOK
<1>1. Truth => TypeOK
  BY DEF Truth
<1> QED BY <1>1, TruthInvariant, PTL

(* If no handler outlives the two minutes after which idempotency.js lets  *)
(* a key be taken over, no two requests with the key are ever inside the   *)
(* handler together.                                                       *)
THEOREM HandlersExclude == Spec => []OneAtATime
<1>1. Truth => OneAtATime
  BY DEF Truth, Owned, OneAtATime
<1> QED BY <1>1, TruthInvariant, PTL

(* A client that is told of a result, its own or a replayed one, is told   *)
(* the truth about what has been committed, whatever crashes, lost COMMITs *)
(* and failed statements there have been.                                  *)
THEOREM AnswersTrue == Spec => []AnswersAreTrue
<1>1. Truth => AnswersAreTrue
  BY DEF Truth, Answers, AnswersAreTrue, IsTrue, Reports
<1> QED BY <1>1, TruthInvariant, PTL

----------------------------------------------------------------------------
(* Counting executions.  A request that has committed but will report a    *)
(* failure deletes the row, and its key starts anew; a row that is absent, *)
(* old, or nobody's can be inserted or taken over by another request.      *)
Executed == committed \cup Running

Uncertain ==
    {a \in Running : /\ attempt[a].step = "end"
                     /\ attempt[a].outcome = "failed"
                     /\ a \in committed}

Free == record = NoRecord
        \/ (record.status = "PROCESSING" /\ (record.old \/ Running = {}))

Slack == IF Free THEN 1 ELSE 0

Paid == Cardinality(Executed) + Cardinality(Uncertain) + Slack <= 1 + faults

(* The sizes of sets that differ by at most one element. *)
LEMMA NoMore ==
  ASSUME NEW S, NEW T, IsFiniteSet(S), T \subseteq S
  PROVE  IsFiniteSet(T) /\ Cardinality(T) <= Cardinality(S)
BY FS_Subset

LEMMA OneMore ==
  ASSUME NEW S, NEW T, NEW a, IsFiniteSet(S), T \subseteq S \cup {a}
  PROVE  IsFiniteSet(T) /\ Cardinality(T) <= Cardinality(S) + 1
<1>1. /\ IsFiniteSet(S \cup {a})
      /\ Cardinality(S \cup {a}) <= Cardinality(S) + 1
      /\ Cardinality(S) \in Nat /\ Cardinality(S \cup {a}) \in Nat
  BY FS_AddElement, FS_CardinalityType
<1>2. IsFiniteSet(T) /\ Cardinality(T) <= Cardinality(S \cup {a}) /\ Cardinality(T) \in Nat
  BY <1>1, FS_Subset, FS_CardinalityType
<1> QED BY <1>1, <1>2

LEMMA OneLess ==
  ASSUME NEW S, NEW T, NEW a \in S, IsFiniteSet(S), T \subseteq S \ {a}
  PROVE  IsFiniteSet(T) /\ Cardinality(T) <= Cardinality(S) - 1
<1>1. /\ IsFiniteSet(S \ {a})
      /\ Cardinality(S \ {a}) = Cardinality(S) - 1
      /\ Cardinality(S) \in Nat
  BY FS_RemoveElement, FS_CardinalityType
<1>2. IsFiniteSet(T) /\ Cardinality(T) <= Cardinality(S \ {a}) /\ Cardinality(T) \in Nat
  BY <1>1, FS_Subset, FS_CardinalityType
<1> QED BY <1>1, <1>2

CountsAreFinite ==
    /\ IsFiniteSet(Executed) /\ Cardinality(Executed) \in Nat
    /\ IsFiniteSet(Uncertain) /\ Cardinality(Uncertain) \in Nat
    /\ Slack \in 0..1
    /\ faults \in Nat

LEMMA FiniteCounts == TypeOK => CountsAreFinite
<1> SUFFICES ASSUME TypeOK PROVE CountsAreFinite
  OBVIOUS
<1>1. Executed \subseteq Attempts /\ Uncertain \subseteq Attempts
  BY DEF TypeOK, Executed, Uncertain, Running
<1>2. IsFiniteSet(Executed) /\ IsFiniteSet(Uncertain)
  BY <1>1, IdempotencyAssumption, FS_Subset
<1> QED BY <1>2, FS_CardinalityType, IdempotencyAssumption
        DEF Slack, TypeOK, CountsAreFinite

LEMMA PaidInit == Init => Paid
<1> SUFFICES ASSUME Init PROVE Paid
  OBVIOUS
<1>1. Executed = {} /\ Uncertain = {} /\ faults = 0
  BY DEF Init, Executed, Uncertain, Running
<1>2. Slack = 1
  BY DEF Init, Slack, Free
<1> QED BY <1>1, <1>2, FS_EmptySet DEF Paid

(* What the arithmetic of a step starts from. *)
LEMMA Counts ==
  ASSUME TypeOK, TypeOK', Paid
  PROVE  /\ Cardinality(Executed) \in Nat /\ Cardinality(Executed)' \in Nat
         /\ Cardinality(Uncertain) \in Nat /\ Cardinality(Uncertain)' \in Nat
         /\ Slack \in 0..1 /\ Slack' \in 0..1
         /\ faults \in Nat /\ faults' \in Nat
         /\ IsFiniteSet(Executed) /\ IsFiniteSet(Uncertain)
         /\ Cardinality(Executed) + Cardinality(Uncertain) + Slack <= 1 + faults
<1>1. CountsAreFinite /\ CountsAreFinite'
  BY FiniteCounts, PTL
<1> QED BY <1>1 DEF CountsAreFinite, Paid

(* What becomes of the counts when only request a moves. *)
LEMMA OthersCount ==
  ASSUME TypeOK, TypeOK', NEW a \in Attempts,
         \A b \in Attempts : b # a => attempt'[b] = attempt[b] /\ (b \in committed' <=> b \in committed)
  PROVE  /\ Executed' \subseteq Executed \cup {a}
         /\ Uncertain' \subseteq Uncertain \cup {a}
         /\ a \notin Executed' => Executed' \subseteq Executed \ {a}
         /\ a \notin Uncertain' => Uncertain' \subseteq Uncertain \ {a}
         /\ a \in Executed => Executed' \subseteq Executed
         /\ a \in Uncertain => Uncertain' \subseteq Uncertain
<1>1. /\ committed' \subseteq Attempts /\ committed \subseteq Attempts
  BY DEF TypeOK
<1>2. \A b \in Attempts : b # a =>
        (b \in Executed' <=> b \in Executed) /\ (b \in Uncertain' <=> b \in Uncertain)
  BY DEF Executed, Uncertain, Running
<1>3. /\ Executed' \subseteq Attempts /\ Uncertain' \subseteq Attempts
      /\ Executed \subseteq Attempts /\ Uncertain \subseteq Attempts
  BY <1>1 DEF Executed, Uncertain, Running
<1> QED BY <1>2, <1>3

(* A step by which a request neither enters nor leaves the handler. *)
LEMMA OutsideStep ==
  ASSUME TypeOK, TypeOK', Paid, NEW a \in Attempts, committed' = committed,
         record' = record, faults' = faults,
         \A b \in Attempts : b # a => attempt'[b] = attempt[b],
         attempt[a].step \notin {"run", "end"}, attempt'[a].step \notin {"run", "end"}
  PROVE  Paid'
<1>1. Running' = Running /\ Uncertain' = Uncertain
  BY DEF Running, Uncertain
<1>2. Executed' = Executed /\ Slack' = Slack
  BY <1>1 DEF Executed, Slack, Free
<1> QED BY <1>1, <1>2 DEF Paid

(* Request a enters the handler by the one free place there is. *)
LEMMA EnterStep ==
  ASSUME TypeOK, TypeOK', Paid, NEW a \in Attempts, committed' = committed,
         faults' = faults, Free, record' # NoRecord, record'.status = "PROCESSING",
         ~record'.old,
         \A b \in Attempts : b # a => attempt'[b] = attempt[b],
         attempt[a].step \notin {"run", "end"}, attempt'[a].step = "run"
  PROVE  Paid'
<1>1. a \in Running'
  BY DEF Running
<1>2. Slack = 1 /\ Slack' = 0
  BY <1>1 DEF Slack, Free
<1>3. Executed' \subseteq Executed \cup {a}
  BY OthersCount
<1>4. Uncertain' \subseteq Uncertain
  BY DEF Uncertain, Running
<1>5. Cardinality(Executed)' <= Cardinality(Executed) + 1
  BY <1>3, Counts, OneMore
<1>6. Cardinality(Uncertain)' <= Cardinality(Uncertain)
  BY <1>4, Counts, NoMore
<1> QED BY <1>2, <1>5, <1>6, Counts DEF Paid

(* A fault pays for one execution, for one doubt or for one free place. *)
LEMMA FaultStep ==
  ASSUME TypeOK, TypeOK', Paid, faults' = faults + 1,
         Executed' \subseteq Executed,
         \/ Uncertain' \subseteq Uncertain
         \/ Slack' = Slack /\ \E a \in Attempts : Uncertain' \subseteq Uncertain \cup {a}
  PROVE  Paid'
<1>1. Cardinality(Executed)' <= Cardinality(Executed)
  BY Counts, NoMore
<1>2. CASE Uncertain' \subseteq Uncertain
  <2>1. Cardinality(Uncertain)' <= Cardinality(Uncertain)
    BY <1>2, Counts, NoMore
  <2> QED BY <1>1, <2>1, Counts DEF Paid
<1>3. CASE Slack' = Slack /\ \E a \in Attempts : Uncertain' \subseteq Uncertain \cup {a}
  <2>1. Cardinality(Uncertain)' <= Cardinality(Uncertain) + 1
    BY <1>3, Counts, OneMore
  <2> QED BY <1>1, <1>3, <2>1, Counts DEF Paid
<1> QED BY <1>2, <1>3

(* A request leaves the handler: its execution stays if it has committed,  *)
(* and gives its place back, by the deleted row, if it has not or if it    *)
(* counted as uncertain.                                                   *)
LEMMA LeaveStep ==
  ASSUME TypeOK, Known, TypeOK', Paid, NEW a \in Attempts, End(a)
  PROVE  Paid'
<1>1. /\ attempt[a].step = "end" /\ committed' = committed /\ faults' = faults
      /\ record' = Ended(a)
      /\ attempt'[a].step = "done"
      /\ \A b \in Attempts : b # a => attempt'[b] = attempt[b]
  BY ReplyStep DEF End
<1>2. a \in Running /\ a \notin Running' /\ a \in Executed /\ a \notin Uncertain'
  BY <1>1 DEF Running, Executed, Uncertain
<1>3. Executed' \subseteq Executed /\ Uncertain' \subseteq Uncertain \ {a}
  BY <1>1, <1>2, OthersCount
<1>4. Cardinality(Executed)' <= Cardinality(Executed)
  BY <1>3, Counts, NoMore
<1>5. Cardinality(Uncertain)' <= Cardinality(Uncertain)
  BY <1>3, Counts, NoMore
<1>6. CASE attempt[a].outcome # "failed"
  <2>1. Slack' <= Slack
    <3>1. CASE record = NoRecord
      <4>1. Slack = 1
        BY <3>1 DEF Slack, Free
      <4> QED BY <4>1, Counts
    <3>2. CASE record # NoRecord
      <4>1. record'.status = "COMPLETED" /\ record' # NoRecord
        BY <1>1, <1>6, <3>2 DEF Ended, NoRecord
      <4>2. Slack' = 0
        BY <4>1 DEF Slack, Free
      <4> QED BY <4>2, Counts
    <3> QED BY <3>1, <3>2
  <2> QED BY <1>1, <1>4, <1>5, <2>1, Counts DEF Paid
<1>7. CASE attempt[a].outcome = "failed" /\ a \in committed
  <2>1. a \in Uncertain
    BY <1>1, <1>2, <1>7 DEF Uncertain
  <2>2. Cardinality(Uncertain)' <= Cardinality(Uncertain) - 1
    BY <1>3, <2>1, Counts, OneLess
  <2> QED BY <1>1, <1>4, <2>2, Counts DEF Paid
<1>8. CASE attempt[a].outcome = "failed" /\ a \notin committed
  <2>1. a \notin Executed'
    BY <1>1, <1>2, <1>8 DEF Executed
  <2>2. Executed' \subseteq Executed \ {a}
    BY <1>1, <2>1, OthersCount
  <2>3. Cardinality(Executed)' <= Cardinality(Executed) - 1
    BY <1>2, <2>2, Counts, OneLess
  <2> QED BY <1>1, <1>5, <2>3, Counts DEF Paid
<1> QED BY <1>6, <1>7, <1>8

(* The handler runs: a lost COMMIT is the fault that makes it uncertain. *)
LEMMA HandlePaid ==
  ASSUME TypeOK, Known, TypeOK', Paid, NEW a \in Attempts, NEW outcome \in Outcomes,
         Handle(a, outcome)
  PROVE  Paid'
<1>1. /\ attempt[a].step = "run" /\ record' = record
      /\ attempt'[a].step = "end" /\ attempt'[a].outcome = outcome
      /\ \A b \in Attempts : b # a => attempt'[b] = attempt[b]
      /\ a \notin committed
  BY HandleStep DEF Handle, Known
<1>2. Running' = Running /\ a \in Running /\ a \in Executed /\ a \notin Uncertain
  BY <1>1 DEF Running, Executed, Uncertain
<1>3. \A b \in Attempts : b # a => (b \in committed' <=> b \in committed)
  BY DEF Handle
<1>4. Executed' \subseteq Executed /\ Uncertain' \subseteq Uncertain \cup {a}
  BY <1>1, <1>2, <1>3, OthersCount
<1>5. Slack' = Slack
  BY <1>1, <1>2 DEF Slack, Free
<1>6. CASE faults' = faults + 1
  BY <1>4, <1>5, <1>6, FaultStep
<1>7. CASE faults' = faults /\ (outcome = "ok" \/ committed' = committed)
  <2>1. a \notin Uncertain'
    BY <1>1, <1>7 DEF Uncertain
  <2>2. Uncertain' \subseteq Uncertain
    BY <1>4, <2>1
  <2>3. Cardinality(Executed)' <= Cardinality(Executed)
    BY <1>4, Counts, NoMore
  <2>4. Cardinality(Uncertain)' <= Cardinality(Uncertain)
    BY <2>2, Counts, NoMore
  <2> QED BY <1>5, <1>7, <2>3, <2>4, Counts DEF Paid
<1>8. \/ faults' = faults + 1
      \/ faults' = faults /\ (outcome = "ok" \/ committed' = committed)
  BY DEF Handle, Fault
<1> QED BY <1>6, <1>7, <1>8

LEMMA PaidStep == Truth /\ Paid /\ [Next]_vars => Paid'
<1> SUFFICES ASSUME Truth, Paid, [Next]_vars PROVE Paid'
  OBVIOUS
<1>0. TypeOK /\ Known /\ TypeOK' /\ record \in Record
  BY TypeStep DEF Truth, TypeOK
<1>1. ASSUME NEW a \in Attempts, Insert(a)
      PROVE  Paid'
  <2>1. CASE record = NoRecord
    <3>1. /\ record' = [status |-> "PROCESSING", hash |-> attempt[a].payload,
                        old |-> FALSE]
          /\ Goto(a, "run")
      BY <1>1, <2>1 DEF Insert
    <3>2. record' # NoRecord /\ record'.status = "PROCESSING" /\ ~record'.old
      BY <3>1 DEF NoRecord
    <3>3. /\ attempt'[a].step = "run"
          /\ \A b \in Attempts : b # a => attempt'[b] = attempt[b]
      BY <1>0, <3>1, GotoStep DEF Steps
    <3> QED BY <1>0, <1>1, <2>1, <3>2, <3>3, EnterStep DEF Insert, Free
  <2>2. CASE record # NoRecord
    <3>1. record' = record /\ Goto(a, "look")
      BY <1>1, <2>2 DEF Insert
    <3>2. /\ attempt'[a].step = "look"
          /\ \A b \in Attempts : b # a => attempt'[b] = attempt[b]
      BY <1>0, <3>1, GotoStep DEF Steps
    <3> QED BY <1>0, <1>1, <3>1, <3>2, OutsideStep DEF Insert
  <2> QED BY <2>1, <2>2
<1>2. ASSUME NEW a \in Attempts, Look(a)
      PROVE  Paid'
  <2>1. /\ attempt'[a].step \in {"reclaim", "done"}
        /\ \A b \in Attempts : b # a => attempt'[b] = attempt[b]
    BY <1>0, <1>2, GotoStep, ReplyStep DEF Look, Steps
  <2> QED BY <1>0, <1>2, <2>1, OutsideStep DEF Look
<1>3. ASSUME NEW a \in Attempts, Reclaim(a)
      PROVE  Paid'
  <2>1. CASE record.status = "PROCESSING" /\ record.old
    <3>1. record' = [record EXCEPT !.old = FALSE] /\ Goto(a, "run")
      BY <1>3, <2>1 DEF Reclaim
    <3>2. record \in [status: {"PROCESSING"}, hash: Payloads, old: BOOLEAN]
      BY <1>0, <2>1, RecordShape
    <3>3. record'.status = "PROCESSING" /\ ~record'.old
      BY <3>1, <3>2
    <3>4. record' # NoRecord
      BY <3>3 DEF NoRecord
    <3>5. /\ attempt'[a].step = "run"
          /\ \A b \in Attempts : b # a => attempt'[b] = attempt[b]
      BY <1>0, <3>1, GotoStep DEF Steps
    <3> QED BY <1>0, <1>3, <2>1, <3>3, <3>4, <3>5, EnterStep DEF Reclaim, Free
  <2>2. CASE ~(record.status = "PROCESSING" /\ record.old)
    <3>1. record' = record /\ Reply(a, Told("busy"))
      BY <1>3, <2>2 DEF Reclaim
    <3>2. /\ attempt'[a].step = "done"
          /\ \A b \in Attempts : b # a => attempt'[b] = attempt[b]
      BY <1>0, <3>1, ReplyStep
    <3> QED BY <1>0, <1>3, <3>1, <3>2, OutsideStep DEF Reclaim
  <2> QED BY <2>1, <2>2
<1>4. ASSUME NEW a \in Attempts, NEW outcome \in Outcomes, Handle(a, outcome)
      PROVE  Paid'
  BY <1>0, <1>4, HandlePaid
<1>5. ASSUME NEW a \in Attempts, End(a)
      PROVE  Paid'
  BY <1>0, <1>5, LeaveStep
<1>6. ASSUME NEW a \in Attempts, EndError(a)
      PROVE  Paid'
  <2>1. /\ attempt'[a].step = "done" /\ committed' = committed /\ faults' = faults + 1
        /\ \A b \in Attempts : b # a => attempt'[b] = attempt[b]
    BY <1>0, <1>6, ReplyStep DEF EndError, Fault
  <2>2. Running' \subseteq Running
    BY <2>1 DEF Running
  <2>3. Executed' \subseteq Executed /\ Uncertain' \subseteq Uncertain
    BY <2>1, <2>2 DEF Executed, Uncertain, Running
  <2> QED BY <1>0, <2>1, <2>3, FaultStep
<1>7. CASE Crash
  <2>1. committed' = committed /\ faults' = faults + 1
    BY <1>7 DEF Crash, Fault
  <2>2. Running' = {}
    BY <1>0, <1>7, CrashStep DEF Running, InFlight
  <2>3. Executed' \subseteq Executed /\ Uncertain' \subseteq Uncertain
    BY <2>1, <2>2 DEF Executed, Uncertain
  <2> QED BY <1>0, <2>1, <2>3, FaultStep
<1>8. CASE Age
  <2>1. attempt' = attempt /\ committed' = committed
    BY <1>8 DEF Age
  <2>2. Running' = Running /\ Executed' = Executed /\ Uncertain' = Uncertain
    BY <2>1 DEF Running, Executed, Uncertain
  <2>3. CASE faults' = faults + 1
    BY <1>0, <2>2, <2>3, FaultStep
  <2>4. CASE InFlight = {} /\ faults' = faults
    <3>1. Running = {}
      BY <2>4 DEF InFlight, Running
    <3>2. Slack = 1
      BY <1>8, <3>1 DEF Age, Slack, Free
    <3> QED BY <1>0, <2>2, <2>4, <3>2, Counts DEF Paid
  <2>5. faults' = faults + 1 \/ (InFlight = {} /\ faults' = faults)
    BY <1>8 DEF Age, Fault
  <2> QED BY <2>3, <2>4, <2>5
<1>9. CASE UNCHANGED vars
  BY <1>9 DEF vars, Paid, Executed, Uncertain, Slack, Free, Running
<1> QED BY <1>1, <1>2, <1>3, <1>4, <1>5, <1>6, <1>7, <1>8, <1>9 DEF Next

(* Retries and double clicks alone never execute a request twice: every    *)
(* execution beyond the first, committed or under way, is paid for by a    *)
(* crash, a lost COMMIT, a failed statement or a handler that outlives the *)
(* two minutes.                                                            *)
THEOREM RepeatsArePaidFor == Spec => []RepeatsNeedFaults
<1>1. Truth /\ Paid => RepeatsNeedFaults
  <2> SUFFICES ASSUME TypeOK, Paid PROVE RepeatsNeedFaults
    BY DEF Truth
  <2>1. CountsAreFinite
    BY FiniteCounts
  <2> QED BY <2>1 DEF CountsAreFinite, Paid, RepeatsNeedFaults, Executed
<1>2. Init => Truth /\ Paid
  BY TruthInit, PaidInit
<1>3. (Truth /\ Paid) /\ [Next]_vars => (Truth /\ Paid)'
  BY TruthStep, PaidStep
<1> QED BY <1>1, <1>2, <1>3, PTL DEF Spec

(***************************************************************************)
(* Requests for any number of assets, users, requests and approval plans.  *)
(* The invariant is inductive together with the types: the open steps are  *)
(* the current one and those after it, so the lowest open step a handler   *)
(* finds is the current one, or the next after it.                         *)
(***************************************************************************)

WorkflowInv == WorkflowTypeOK /\ ApprovalInOrder

----------------------------------------------------------------------------
(* Operators on step rows. *)
LEMMA PlanRowsShape ==
  ASSUME NEW plan \in Plans
  PROVE  /\ PlanRows(plan) \in Seq(StepRow)
         /\ Len(PlanRows(plan)) = Len(plan) /\ Len(plan) \in 1..10
         /\ \A k \in 1..Len(plan) : PlanRows(plan)[k].status = "PENDING"
<1>1. plan \in Seq(Roles) /\ Len(plan) \in 1..10 /\ DOMAIN plan = 1..Len(plan)
  BY WorkflowAssumption DEF IsPolicy
<1>2. \A k \in 1..Len(plan) : plan[k] \in Roles
  BY <1>1
<1>3. PlanRows(plan) = [k \in 1..Len(plan) |-> [role |-> plan[k], status |-> "PENDING"]]
  BY <1>1 DEF PlanRows
<1>4. \A k \in 1..Len(plan) : [role |-> plan[k], status |-> "PENDING"] \in StepRow
  BY <1>2 DEF StepRow
<1>5. Len(plan) \in Nat
  BY <1>1
<1>6. PlanRows(plan) \in [1..Len(plan) -> StepRow]
  BY <1>3, <1>4
<1>7. PlanRows(plan) \in Seq(StepRow) /\ Len(PlanRows(plan)) = Len(plan)
  BY <1>5, <1>6, SeqDef, LenProperties
<1>8. \A k \in 1..Len(plan) : PlanRows(plan)[k] = [role |-> plan[k], status |-> "PENDING"]
  BY <1>3
<1>9. ASSUME NEW k \in 1..Len(plan)
      PROVE  PlanRows(plan)[k].status = "PENDING"
  <2>1. PlanRows(plan)[k] = [role |-> plan[k], status |-> "PENDING"]
    BY <1>8
  <2>2. [role |-> plan[k], status |-> "PENDING"].status = "PENDING"
    OBVIOUS
  <2> QED  BY <2>1, <2>2, Zenon
<1> QED  BY <1>1, <1>7, <1>9

LEMMA ClosedShape ==
  ASSUME NEW steps \in Seq(StepRow), NEW k \in Nat, NEW outcome \in {"SKIPPED"}
  PROVE  /\ Closed(steps, k, outcome) \in Seq(StepRow)
         /\ Len(Closed(steps, k, outcome)) = Len(steps)
         /\ \A j \in 1..Len(steps) :
               Closed(steps, k, outcome)[j].status =
                  IF j >= k /\ steps[j].status = "PENDING" THEN outcome ELSE steps[j].status
<1> DEFINE New(j) == IF j >= k /\ steps[j].status = "PENDING"
                     THEN [steps[j] EXCEPT !.status = outcome] ELSE steps[j]
<1>1. Len(steps) \in Nat /\ \A j \in 1..Len(steps) : steps[j] \in StepRow
  BY LenProperties, ElementOfSeq
<1>2. \A j \in 1..Len(steps) :
        /\ New(j) \in StepRow
        /\ New(j).status = IF j >= k /\ steps[j].status = "PENDING"
                           THEN outcome ELSE steps[j].status
  BY <1>1 DEF StepRow
<1>3. Closed(steps, k, outcome) = [j \in 1..Len(steps) |-> New(j)]
  BY DEF Closed
<1> HIDE DEF New
<1>4. Closed(steps, k, outcome) \in [1..Len(steps) -> StepRow]
  BY <1>2, <1>3
<1>5. /\ Closed(steps, k, outcome) \in Seq(StepRow)
      /\ Len(Closed(steps, k, outcome)) = Len(steps)
  BY <1>1, <1>4, SeqDef, LenProperties
<1> QED  BY <1>2, <1>3, <1>5

(* A step row with a verdict. *)
Marked(steps, k, outcome) == [steps EXCEPT ![k].status = outcome]

LEMMA MarkedShape ==
  ASSUME NEW steps \in Seq(StepRow), NEW k \in 1..Len(steps),
         NEW outcome \in {"APPROVED", "REJECTED"}
  PROVE  /\ Marked(steps, k, outcome) \in Seq(StepRow)
         /\ Len(Marked(steps, k, outcome)) = Len(steps)
         /\ Marked(steps, k, outcome)[k].status = outcome
         /\ \A j \in 1..Len(steps) : j # k => Marked(steps, k, outcome)[j] = steps[j]
<1> DEFINE marked == Marked(steps, k, outcome)
<1>1. /\ Len(steps) \in Nat /\ steps \in [1..Len(steps) -> StepRow]
      /\ steps[k] \in StepRow
  BY LenProperties, ElementOfSeq
<1>2. [steps[k] EXCEPT !.status = outcome] \in StepRow
      /\ [steps[k] EXCEPT !.status = outcome].status = outcome
  BY <1>1 DEF StepRow
<1>3. marked = [steps EXCEPT ![k] = [steps[k] EXCEPT !.status = outcome]]
  BY Zenon DEF Marked
<1>4. marked \in [1..Len(steps) -> StepRow] /\ marked[k].status = outcome
      /\ \A j \in 1..Len(steps) : j # k => marked[j] = steps[j]
  BY <1>1, <1>2, <1>3
<1> HIDE DEF marked
<1>5. marked \in Seq(StepRow) /\ Len(marked) = Len(steps)
  BY <1>1, <1>4, SeqDef, LenProperties
<1> QED  BY <1>4, <1>5 DEF marked

----------------------------------------------------------------------------
(* The rows of one request. *)
LEMMA RowShape ==
  ASSUME WorkflowTypeOK, NEW r \in Requests
  PROVE  /\ approvals[r] \in Seq(StepRow) /\ Len(approvals[r]) \in Nat
         /\ requests[r] \in RequestRow \/ requests[r] = NoRow
         /\ requests[r].status # "NONE" => requests[r] \in RequestRow
         /\ requests[r] = NoRow => requests[r].status = "NONE"
<1>1. approvals[r] \in Seq(StepRow) /\ (requests[r] \in RequestRow \/ requests[r] = NoRow)
  BY DEF WorkflowTypeOK
<1>2. NoRow.status = "NONE"
  BY DEF NoRow
<1> QED  BY <1>1, <1>2, LenProperties

(* A reviewer acts on the current step, which is open as all after it are. *)
LEMMA Reviewed ==
  ASSUME WorkflowInv, NEW r \in Requests, NEW user, NEW k, MayReview(r, user, k)
  PROVE  /\ requests[r] \in RequestRow /\ requests[r].status = "SUBMITTED"
         /\ approvals[r] \in Seq(StepRow) /\ Len(approvals[r]) \in Nat
         /\ k \in 1..Len(approvals[r])
         /\ StepsAre(approvals[r], 1, k - 1, "APPROVED")
         /\ StepsAre(approvals[r], k, Len(approvals[r]), "PENDING")
<1>1. OneStory(requests[r], approvals[r])
  BY DEF WorkflowInv, ApprovalInOrder
<1>2. requests[r].status = "SUBMITTED" /\ k = requests[r].current
  BY DEF MayReview
<1>3. requests[r] \in RequestRow /\ approvals[r] \in Seq(StepRow) /\ Len(approvals[r]) \in Nat
  BY <1>2, RowShape DEF WorkflowInv
<1> QED  BY <1>1, <1>2, <1>3 DEF OneStory

(* A step of one request: the others keep their rows. *)
LEMMA OneRequest ==
  ASSUME WorkflowInv, NEW r \in Requests, NEW request, NEW steps,
         requests' = [requests EXCEPT ![r] = request],
         approvals' = [approvals EXCEPT ![r] = steps],
         request \in RequestRow \cup {NoRow}, steps \in Seq(StepRow),
         OneStory(request, steps)
  PROVE  /\ requests' \in [Requests -> RequestRow \cup {NoRow}]
         /\ approvals' \in [Requests -> Seq(StepRow)]
         /\ ApprovalInOrder'
<1>1. /\ requests' \in [Requests -> RequestRow \cup {NoRow}]
      /\ approvals' \in [Requests -> Seq(StepRow)]
      /\ requests'[r] = request /\ approvals'[r] = steps
      /\ \A q \in Requests : q # r => requests'[q] = requests[q] /\ approvals'[q] = approvals[q]
  BY DEF WorkflowInv, WorkflowTypeOK
<1>2. ASSUME NEW q \in Requests
      PROVE  OneStory(requests'[q], approvals'[q])
  <2>1. CASE q = r
    BY <2>1, <1>1
  <2>2. CASE q # r
    BY <2>2, <1>1 DEF WorkflowInv, ApprovalInOrder
  <2> QED  BY <2>1, <2>2
<1> QED  BY <1>1, <1>2 DEF ApprovalInOrder

----------------------------------------------------------------------------
(* What the rows of a request say after each of its steps. *)
LEMMA SubmittedStory ==
  ASSUME NEW plan \in Plans, NEW request, request.status = "SUBMITTED",
         request.current = 1
  PROVE  OneStory(request, PlanRows(plan))
<1>1. /\ Len(PlanRows(plan)) = Len(plan) /\ Len(plan) \in 1..10
      /\ \A k \in 1..Len(plan) : PlanRows(plan)[k].status = "PENDING"
  BY PlanRowsShape
<1>2. StepsAre(PlanRows(plan), 1, Len(plan), "PENDING")
  BY <1>1 DEF StepsAre
<1>3. StepsAre(PlanRows(plan), 1, 0, "APPROVED")
  BY <1>1 DEF StepsAre
<1>4. request.current - 1 = 0 /\ request.current \in 1..Len(plan)
  BY <1>1
<1> QED  BY <1>1, <1>2, <1>3, <1>4 DEF OneStory

LEMMA CancelledStory ==
  ASSUME WorkflowInv, NEW r \in Requests, requests[r].status \in {"DRAFT", "SUBMITTED"},
         NEW request, request.status = "CANCELLED"
  PROVE  OneStory(request, Closed(approvals[r], 1, "SKIPPED"))
<1> DEFINE steps == approvals[r]
           n == Len(steps)
           closed == Closed(steps, 1, "SKIPPED")
<1>1. steps \in Seq(StepRow) /\ n \in Nat /\ requests[r] \in RequestRow
  BY RowShape DEF WorkflowInv
<1>2. /\ Len(closed) = n
      /\ \A j \in 1..n : closed[j].status =
            IF j >= 1 /\ steps[j].status = "PENDING" THEN "SKIPPED" ELSE steps[j].status
  BY <1>1, ClosedShape
<1>3. OneStory(requests[r], steps)
  BY DEF WorkflowInv, ApprovalInOrder
<1>4. PICK k \in 0..n : StepsAre(steps, 1, k, "APPROVED") /\ StepsAre(steps, k + 1, n,
                                                                      "PENDING")
  <2>1. CASE requests[r].status = "DRAFT"
    <3>1. n = 0
      BY <1>3, <2>1 DEF OneStory
    <3> QED  BY <3>1 DEF StepsAre
  <2>2. CASE requests[r].status = "SUBMITTED"
    <3>1. /\ requests[r].current \in 1..n
          /\ StepsAre(steps, 1, requests[r].current - 1, "APPROVED")
          /\ StepsAre(steps, requests[r].current, n, "PENDING")
      BY <1>3, <2>2 DEF OneStory
    <3>2. requests[r].current - 1 \in 0..n
          /\ (requests[r].current - 1) + 1 = requests[r].current
      BY <3>1, <1>1
    <3> QED  BY <3>1, <3>2
  <2> QED  BY <2>1, <2>2
<1> HIDE DEF closed
<1>5. StepsAre(closed, 1, k, "APPROVED") /\ StepsAre(closed, k + 1, n, "SKIPPED")
  BY <1>1, <1>2, <1>4 DEF StepsAre
<1> QED  BY <1>1, <1>2, <1>5 DEF OneStory, closed

LEMMA RejectedStory ==
  ASSUME WorkflowInv, NEW r \in Requests, NEW user, NEW k, MayReview(r, user, k),
         NEW request, request.status = "REJECTED"
  PROVE  LET rejected == Marked(Closed(approvals[r], k + 1, "SKIPPED"), k, "REJECTED")
         IN  rejected \in Seq(StepRow) /\ OneStory(request, rejected)
<1> DEFINE steps == approvals[r]
           n == Len(steps)
           closed == Closed(steps, k + 1, "SKIPPED")
           rejected == Marked(closed, k, "REJECTED")
<1>1. /\ steps \in Seq(StepRow) /\ n \in Nat /\ k \in 1..n
      /\ StepsAre(steps, 1, k - 1, "APPROVED") /\ StepsAre(steps, k, n, "PENDING")
  BY Reviewed
<1>2. k + 1 \in Nat
  BY <1>1
<1>3. /\ closed \in Seq(StepRow) /\ Len(closed) = n
      /\ \A j \in 1..n : closed[j].status =
            IF j >= k + 1 /\ steps[j].status = "PENDING" THEN "SKIPPED" ELSE steps[j].status
  BY <1>1, <1>2, ClosedShape
<1> HIDE DEF closed
<1>a. k \in 1..Len(closed)
  BY <1>1, <1>3
<1>4. /\ rejected \in Seq(StepRow) /\ Len(rejected) = n
      /\ rejected[k].status = "REJECTED"
      /\ \A j \in 1..n : j # k => rejected[j] = closed[j]
  BY <1>3, <1>a, MarkedShape
<1> HIDE DEF rejected
<1>5. StepsAre(rejected, 1, k - 1, "APPROVED")
  BY <1>1, <1>3, <1>4 DEF StepsAre
<1>6. StepsAre(rejected, k + 1, n, "SKIPPED")
  BY <1>1, <1>3, <1>4 DEF StepsAre
<1> QED  BY <1>1, <1>4, <1>5, <1>6 DEF OneStory, rejected, closed

LEMMA NextStepStory ==
  ASSUME WorkflowInv, NEW r \in Requests, NEW user, NEW k, MayReview(r, user, k),
         NEW next, IsLowestPending(approvals[r], next, k),
         NEW request, request.status = "SUBMITTED", request.current = next
  PROVE  LET approved == Marked(approvals[r], k, "APPROVED")
         IN  approved \in Seq(StepRow) /\ OneStory(request, approved)
<1> DEFINE steps == approvals[r]
           n == Len(steps)
           approved == Marked(steps, k, "APPROVED")
<1>1. /\ steps \in Seq(StepRow) /\ n \in Nat /\ k \in 1..n
      /\ StepsAre(steps, 1, k - 1, "APPROVED") /\ StepsAre(steps, k, n, "PENDING")
  BY Reviewed
<1>2. next = k + 1 /\ next \in 1..n
  <2>1. next \in (k + 1)..n /\ \A j \in (k + 1)..(next - 1) : steps[j].status # "PENDING"
    BY DEF IsLowestPending
  <2>2. \A j \in (k + 1)..n : steps[j].status = "PENDING"
    BY <1>1 DEF StepsAre
  <2>3. ~(k + 1 \in (k + 1)..(next - 1))
    BY <1>1, <2>1, <2>2
  <2> QED  BY <1>1, <2>1, <2>3
<1>3. /\ approved \in Seq(StepRow) /\ Len(approved) = n
      /\ approved[k].status = "APPROVED"
      /\ \A j \in 1..n : j # k => approved[j] = steps[j]
  BY <1>1, MarkedShape
<1> HIDE DEF approved
<1>4. StepsAre(approved, 1, next - 1, "APPROVED") /\ StepsAre(approved, next, n,
                                                              "PENDING")
  BY <1>1, <1>2, <1>3 DEF StepsAre
<1> QED  BY <1>2, <1>3, <1>4 DEF OneStory, approved

LEMMA ApprovedStory ==
  ASSUME WorkflowInv, NEW r \in Requests, NEW user, NEW k, MayReview(r, user, k),
         \A j \in (k + 1)..Len(approvals[r]) : approvals[r][j].status # "PENDING",
         NEW request, request.status = "APPROVED"
  PROVE  LET approved == Marked(approvals[r], k, "APPROVED")
         IN  approved \in Seq(StepRow) /\ OneStory(request, approved)
<1> DEFINE steps == approvals[r]
           n == Len(steps)
           approved == Marked(steps, k, "APPROVED")
<1>1. /\ steps \in Seq(StepRow) /\ n \in Nat /\ k \in 1..n
      /\ StepsAre(steps, 1, k - 1, "APPROVED") /\ StepsAre(steps, k, n, "PENDING")
  BY Reviewed
<1>2. k = n
  <2>1. \A j \in (k + 1)..n : steps[j].status = "PENDING"
    BY <1>1 DEF StepsAre
  <2>2. ~(n \in (k + 1)..n)
    BY <2>1
  <2> QED  BY <1>1, <2>2
<1>3. /\ approved \in Seq(StepRow) /\ Len(approved) = n
      /\ approved[k].status = "APPROVED"
      /\ \A j \in 1..n : j # k => approved[j] = steps[j]
  BY <1>1, MarkedShape
<1> HIDE DEF approved
<1>4. StepsAre(approved, 1, n, "APPROVED")
  BY <1>1, <1>2, <1>3 DEF StepsAre
<1> QED  BY <1>1, <1>3, <1>4 DEF OneStory, approved
----------------------------------------------------------------------------
(* The actions. *)
LEMMA WorkflowInitInv ==
  ASSUME WorkflowInit
  PROVE  WorkflowInv
<1>1. WorkflowTypeOK
  <2>1. <<>> \in Seq(StepRow)
    OBVIOUS
  <2> QED  BY <2>1 DEF WorkflowInit, WorkflowTypeOK
<1>2. \A r \in Requests : requests[r].status = "NONE" /\ Len(approvals[r]) = 0
  BY DEF WorkflowInit, NoRow
<1> QED  BY <1>1, <1>2 DEF WorkflowInv, ApprovalInOrder, OneStory

(* The row of a request whose status and current step are replaced. *)
MovesTo(r, s, c) == requests' = [requests EXCEPT ![r].status = s, ![r].current = c]

LEMMA Moved ==
  ASSUME WorkflowTypeOK, NEW r \in Requests, requests[r] \in RequestRow,
         NEW s \in {"SUBMITTED", "APPROVED", "REJECTED", "CANCELLED"}, NEW c \in Nat,
         MovesTo(r, s, c)
  PROVE  \E request \in RequestRow :
            /\ requests' = [requests EXCEPT ![r] = request]
            /\ request.status = s /\ request.current = c
<1>1. PICK request : request = [requests[r] EXCEPT !.status = s, !.current = c]
  OBVIOUS
<1>2. request \in RequestRow /\ request.status = s /\ request.current = c
  BY <1>1 DEF RequestRow
<1>3. requests' = [requests EXCEPT ![r] = request]
  BY <1>1 DEF MovesTo, WorkflowTypeOK
<1> QED  BY <1>2, <1>3

LEMMA SubmitInv ==
  ASSUME WorkflowInv, NEW r \in Requests, NEW plan \in Plans, Submit(r, plan)
  PROVE  WorkflowInv'
<1>1. requests[r] \in RequestRow
  BY RowShape DEF Submit, WorkflowInv
<1>2. PICK request \in RequestRow :
        /\ requests' = [requests EXCEPT ![r] = request]
        /\ request.status = "SUBMITTED" /\ request.current = 1
  <2>1. MovesTo(r, "SUBMITTED", 1)
    BY Zenon DEF Submit, MovesTo
  <2> QED  BY <1>1, <2>1, Moved DEF WorkflowInv
<1>3. PlanRows(plan) \in Seq(StepRow) /\ OneStory(request, PlanRows(plan))
  BY <1>2, PlanRowsShape, SubmittedStory
<1>4. approvals' = [approvals EXCEPT ![r] = PlanRows(plan)]
  BY DEF Submit
<1>5. /\ requests' \in [Requests -> RequestRow \cup {NoRow}]
      /\ approvals' \in [Requests -> Seq(StepRow)] /\ ApprovalInOrder'
  BY <1>2, <1>3, <1>4, OneRequest
<1> QED  BY <1>5 DEF Submit, asset, evidence, WorkflowInv, WorkflowTypeOK

LEMMA CancelInv ==
  ASSUME WorkflowInv, NEW r \in Requests, Cancel(r)
  PROVE  WorkflowInv'
<1>1. requests[r] \in RequestRow /\ approvals[r] \in Seq(StepRow)
  BY RowShape DEF Cancel, WorkflowInv
<1>2. PICK request \in RequestRow :
        requests' = [requests EXCEPT ![r] = request] /\ request.status = "CANCELLED"
  <2>1. MovesTo(r, "CANCELLED", 0)
    BY Zenon DEF Cancel, MovesTo
  <2> QED  BY <1>1, <2>1, Moved DEF WorkflowInv
<1>3. PICK steps : steps = Closed(approvals[r], 1, "SKIPPED")
  OBVIOUS
<1>4. steps \in Seq(StepRow) /\ OneStory(request, steps)
  BY <1>1, <1>2, <1>3, ClosedShape, CancelledStory DEF Cancel
<1>5. approvals' = [approvals EXCEPT ![r] = steps]
  BY <1>3 DEF Cancel
<1>6. /\ requests' \in [Requests -> RequestRow \cup {NoRow}]
      /\ approvals' \in [Requests -> Seq(StepRow)] /\ ApprovalInOrder'
  BY <1>2, <1>4, <1>5, OneRequest
<1> QED  BY <1>6 DEF Cancel, asset, evidence, WorkflowInv, WorkflowTypeOK

LEMMA RejectInv ==
  ASSUME WorkflowInv, NEW r \in Requests, NEW user, NEW k, Reject(r, user, k)
  PROVE  WorkflowInv'
<1>1. MayReview(r, user, k)
  BY DEF Reject
<1>2. requests[r] \in RequestRow
  BY <1>1, Reviewed
<1>3. PICK request \in RequestRow :
        requests' = [requests EXCEPT ![r] = request] /\ request.status = "REJECTED"
  <2>1. MovesTo(r, "REJECTED", 0)
    BY Zenon DEF Reject, MovesTo
  <2> QED  BY <1>2, <2>1, Moved DEF WorkflowInv
<1>4. PICK steps : steps = Marked(Closed(approvals[r], k + 1, "SKIPPED"), k, "REJECTED")
  OBVIOUS
<1>5. steps \in Seq(StepRow) /\ OneStory(request, steps)
  BY <1>1, <1>3, <1>4, RejectedStory
<1>6. approvals' = [approvals EXCEPT ![r] = steps]
  BY <1>4, Zenon DEF Reject, Marked
<1>7. /\ requests' \in [Requests -> RequestRow \cup {NoRow}]
      /\ approvals' \in [Requests -> Seq(StepRow)] /\ ApprovalInOrder'
  BY <1>3, <1>5, <1>6, OneRequest
<1> QED  BY <1>7 DEF Reject, asset, evidence, WorkflowInv, WorkflowTypeOK

LEMMA ApproveStepInv ==
  ASSUME WorkflowInv, NEW r \in Requests, NEW user, NEW k, NEW next, ApproveStep(r, user,
                                                                                 k, next)
  PROVE  WorkflowInv'
<1>1. MayReview(r, user, k) /\ IsLowestPending(approvals[r], next, k)
  BY DEF ApproveStep
<1>2. /\ requests[r] \in RequestRow /\ requests[r].status = "SUBMITTED"
      /\ k \in Nat /\ Len(approvals[r]) \in Nat
  BY <1>1, Reviewed
<1>3. next \in Nat
  BY <1>1, <1>2 DEF IsLowestPending
<1>4. PICK request : request = [requests[r] EXCEPT !.current = next]
  OBVIOUS
<1>5. request \in RequestRow /\ request.status = "SUBMITTED" /\ request.current = next
  BY <1>2, <1>3, <1>4 DEF RequestRow
<1>6. requests' = [requests EXCEPT ![r] = request]
  BY <1>4, Zenon DEF ApproveStep
<1>7. PICK steps : steps = Marked(approvals[r], k, "APPROVED")
  OBVIOUS
<1>8. steps \in Seq(StepRow) /\ OneStory(request, steps)
  BY <1>1, <1>5, <1>7, NextStepStory
<1>9. approvals' = [approvals EXCEPT ![r] = steps]
  BY <1>7, Zenon DEF ApproveStep, Marked
<1>10. /\ requests' \in [Requests -> RequestRow \cup {NoRow}]
       /\ approvals' \in [Requests -> Seq(StepRow)] /\ ApprovalInOrder'
  BY <1>5, <1>6, <1>8, <1>9, OneRequest
<1> QED  BY <1>10 DEF ApproveStep, asset, evidence, WorkflowInv, WorkflowTypeOK

(* What an approved request does to the asset, for its types and for the   *)
(* action property: only ASSIGN and RETURN touch a holder.                 *)
LEMMA ApplyShape ==
  ASSUME WorkflowTypeOK, NEW r \in Requests, requests[r] \in RequestRow,
         Apply(r, requests[r].asset)
  PROVE  /\ status' \in [Assets -> Statuses \cup {"NONE"}]
         /\ holder' \in [Assets -> Users \cup {Nobody}]
         /\ returned' \in [Requests -> ReturnRecord \cup {NoReturnRecord}]
         /\ \A a \in Assets : holder'[a] # holder[a] =>
               /\ requests[r].type \in {"ASSIGN", "RETURN"} /\ requests[r].asset = a
               /\ holder'[a] = IF requests[r].type = "ASSIGN"
                               THEN requests[r].assignee ELSE Nobody
<1>1. PICK a : a = requests[r].asset
  OBVIOUS
<1>2. /\ a \in Assets /\ requests[r].assignee \in Users /\ requests[r].requester \in Users
      /\ holder[a] \in Users \cup {Nobody}
  BY <1>1 DEF RequestRow, WorkflowTypeOK
<1>3. CASE ApplyAssign(r, a)
  BY <1>1, <1>2, <1>3 DEF ApplyAssign, WorkflowTypeOK, Statuses
<1>4. CASE ApplyReturn(r, a)
  <2>1. PICK written : written = [holder |-> holder[a], by |-> requests[r].requester]
    OBVIOUS
  <2>2. written \in ReturnRecord
    BY <1>2, <1>4, <2>1 DEF ReturnRecord, ApplyReturn
  <2>3. returned' = [returned EXCEPT ![r] = written]
    BY <1>4, <2>1 DEF ApplyReturn
  <2>4. returned' \in [Requests -> ReturnRecord \cup {NoReturnRecord}]
    BY <2>2, <2>3 DEF WorkflowTypeOK
  <2> QED  BY <1>1, <1>2, <1>4, <2>4 DEF ApplyReturn, WorkflowTypeOK, Statuses
<1>5. CASE ApplyTransfer(r, a)
  BY <1>1, <1>2, <1>5 DEF ApplyTransfer, WorkflowTypeOK, Statuses
<1>6. ASSUME NEW type, NEW from, NEW to \in Statuses, ApplyStatus(r, a, type, from, to)
      PROVE  /\ status' \in [Assets -> Statuses \cup {"NONE"}]
             /\ holder' = holder /\ returned' = returned
  BY <1>1, <1>2, <1>6 DEF ApplyStatus, WorkflowTypeOK
<1>7. {"REPAIR", "LOST", "DISPOSE_PENDING"} \subseteq Statuses
  BY DEF Statuses
<1>8. CASE requests[r].type = "PURCHASE" /\ UNCHANGED asset
  BY <1>8 DEF asset, WorkflowTypeOK
<1> QED  BY <1>1, <1>3, <1>4, <1>5, <1>6, <1>7, <1>8 DEF Apply, WorkflowTypeOK

LEMMA ApproveFinalInv ==
  ASSUME WorkflowInv, NEW r \in Requests, NEW user, NEW k, ApproveFinal(r, user, k)
  PROVE  /\ WorkflowInv'
         /\ requests[r] \in RequestRow
         /\ requests[r].status = "SUBMITTED" /\ requests'[r].status = "APPROVED"
         /\ \A j \in 1..Len(approvals'[r]) : approvals'[r][j].status = "APPROVED"
<1>1. /\ MayReview(r, user, k)
      /\ \A j \in (k + 1)..Len(approvals[r]) : approvals[r][j].status # "PENDING"
  BY DEF ApproveFinal
<1>2. requests[r] \in RequestRow /\ requests[r].status = "SUBMITTED"
  BY <1>1, Reviewed
<1>3. PICK request \in RequestRow :
        requests' = [requests EXCEPT ![r] = request] /\ request.status = "APPROVED"
  <2>1. MovesTo(r, "APPROVED", 0)
    BY Zenon DEF ApproveFinal, MovesTo
  <2> QED  BY <1>2, <2>1, Moved DEF WorkflowInv
<1>4. PICK steps : steps = Marked(approvals[r], k, "APPROVED")
  OBVIOUS
<1>5. steps \in Seq(StepRow) /\ OneStory(request, steps)
  BY <1>1, <1>3, <1>4, ApprovedStory
<1>6. approvals' = [approvals EXCEPT ![r] = steps]
  BY <1>4, Zenon DEF ApproveFinal, Marked
<1>7. /\ requests' \in [Requests -> RequestRow \cup {NoRow}]
      /\ approvals' \in [Requests -> Seq(StepRow)] /\ ApprovalInOrder'
  BY <1>3, <1>5, <1>6, OneRequest
<1>8. Apply(r, requests[r].asset)
  BY DEF ApproveFinal
<1>9. WorkflowInv'
  <2>1. /\ status' \in [Assets -> Statuses \cup {"NONE"}]
        /\ holder' \in [Assets -> Users \cup {Nobody}]
        /\ returned' \in [Requests -> ReturnRecord \cup {NoReturnRecord}]
    BY <1>2, <1>8, ApplyShape DEF WorkflowInv
  <2> QED  BY <1>7, <2>1 DEF ApproveFinal, evidence, WorkflowInv, WorkflowTypeOK
<1>10. requests'[r] = request /\ approvals'[r] = steps
  BY <1>3, <1>6 DEF WorkflowInv, WorkflowTypeOK
<1>11. \A j \in 1..Len(steps) : steps[j].status = "APPROVED"
  <2>1. StepsAre(steps, 1, Len(steps), "APPROVED")
    BY <1>3, <1>5 DEF OneStory
  <2> QED  BY <2>1 DEF StepsAre
<1> QED  BY <1>2, <1>3, <1>9, <1>10, <1>11

(* The other actions leave the steps alone. *)
LEMMA CreateRequestInv ==
  ASSUME WorkflowInv, NEW r \in Requests, NEW user \in Users, NEW assignee \in Users,
         NEW type \in Types, NEW a \in Assets, CreateRequest(r, user, type, a, assignee)
  PROVE  WorkflowInv'
<1>1. PICK request : request = [type |-> type, requester |-> user, asset |-> a,
                                assignee |-> assignee, status |-> "DRAFT", current |-> 0]
  OBVIOUS
<1>2. request \in RequestRow /\ request.status = "DRAFT"
  BY <1>1, WorkflowAssumption DEF RequestRow
<1>3. requests' = [requests EXCEPT ![r] = request]
  BY <1>1 DEF CreateRequest
<1>4. approvals[r] \in Seq(StepRow) /\ requests[r].status = "NONE"
  BY RowShape DEF CreateRequest, WorkflowInv
<1>5. Len(approvals[r]) = 0
  BY <1>4 DEF WorkflowInv, ApprovalInOrder, OneStory
<1>6. OneStory(request, approvals[r])
  BY <1>2, <1>5 DEF OneStory
<1>7. approvals' = [approvals EXCEPT ![r] = approvals[r]]
  BY DEF CreateRequest, WorkflowInv, WorkflowTypeOK
<1>8. /\ requests' \in [Requests -> RequestRow \cup {NoRow}]
      /\ approvals' \in [Requests -> Seq(StepRow)] /\ ApprovalInOrder'
  BY <1>2, <1>3, <1>4, <1>6, <1>7, OneRequest
<1> QED  BY <1>8 DEF CreateRequest, asset, evidence, WorkflowInv, WorkflowTypeOK

LEMMA TransitionsStay ==
  ASSUME NEW s \in Statuses, NEW to \in Transitions[s]
  PROVE  to \in Statuses
  BY DEF Transitions, Statuses

(* Every step keeps the invariant, and one that changes a holder is the    *)
(* last approval of a request for the asset.                               *)
LEMMA NextInv ==
  ASSUME WorkflowInv, [WorkflowNext]_workflowVars
  PROVE  /\ WorkflowInv'
         /\ holder' = holder
            \/ \E r \in Requests, user \in Users :
                  \E k \in 1..Len(approvals[r]) : ApproveFinal(r, user, k)
<1>1. ASSUME NEW a \in Assets, NEW s \in Statuses, CreateAsset(a, s)
      PROVE  WorkflowInv' /\ holder' = holder
  BY <1>1 DEF CreateAsset, evidence, WorkflowInv, WorkflowTypeOK, ApprovalInOrder
<1>2. ASSUME NEW a \in Assets, NEW s \in Statuses, ChangeAssetStatus(a, s)
      PROVE  WorkflowInv' /\ holder' = holder
  BY <1>2 DEF ChangeAssetStatus, evidence, WorkflowInv, WorkflowTypeOK, ApprovalInOrder
<1>3. ASSUME NEW r \in Requests, NEW user \in Users, NEW assignee \in Users,
             NEW type \in Types, NEW a \in Assets, CreateRequest(r, user, type, a,
                                                                 assignee)
      PROVE  WorkflowInv' /\ holder' = holder
  BY <1>3, CreateRequestInv DEF CreateRequest, asset
<1>4. ASSUME NEW r \in Requests,
             UploadStart(r) \/ UploadRecord(r) \/ UploadFail(r) \/ DeactivatePhoto(r)
      PROVE  WorkflowInv' /\ holder' = holder
  BY <1>4 DEF UploadStart, UploadRecord, UploadFail, DeactivatePhoto, asset,
       WorkflowInv, WorkflowTypeOK,
              ApprovalInOrder
<1>5. ASSUME NEW r \in Requests, NEW plan \in Plans, Submit(r, plan)
      PROVE  WorkflowInv' /\ holder' = holder
  BY <1>5, SubmitInv DEF Submit, asset
<1>6. ASSUME NEW r \in Requests, Cancel(r)
      PROVE  WorkflowInv' /\ holder' = holder
  BY <1>6, CancelInv DEF Cancel, asset
<1>7. ASSUME NEW r \in Requests, NEW user \in Users, NEW k, Reject(r, user, k)
      PROVE  WorkflowInv' /\ holder' = holder
  BY <1>7, RejectInv DEF Reject, asset
<1>8. ASSUME NEW r \in Requests, NEW user \in Users, NEW k, NEW next,
             ApproveStep(r, user, k, next)
      PROVE  WorkflowInv' /\ holder' = holder
  BY <1>8, ApproveStepInv DEF ApproveStep, asset
<1>9. ASSUME NEW r \in Requests, NEW user \in Users, NEW k, ApproveFinal(r, user, k)
      PROVE  WorkflowInv'
  BY <1>9, ApproveFinalInv
<1>10. CASE UNCHANGED workflowVars
  BY <1>10 DEF workflowVars, WorkflowInv, WorkflowTypeOK, ApprovalInOrder
<1> QED
  BY <1>1, <1>2, <1>3, <1>4, <1>5, <1>6, <1>7, <1>8, <1>9, <1>10 DEF WorkflowNext

----------------------------------------------------------------------------
(* Types, and the story of each request, are kept by every step. *)
THEOREM WorkflowInvariant == WorkflowSpec => []WorkflowInv
<1>1. WorkflowInit => WorkflowInv
  BY WorkflowInitInv
<1>2. WorkflowInv /\ [WorkflowNext]_workflowVars => WorkflowInv'
  BY NextInv
<1> QED  BY <1>1, <1>2, PTL DEF WorkflowSpec

(* Steps are approved in order, none is skipped over, the request names    *)
(* the open one, and a decision leaves no step open (transitionRequest,    *)
(* getCurrentApproval), for plans of any length.                           *)
THEOREM StepsInOrder == WorkflowSpec => []ApprovalInOrder
<1>1. WorkflowInv => ApprovalInOrder
  BY DEF WorkflowInv
<1> QED  BY <1>1, WorkflowInvariant, PTL

(* An assignment begins or ends only with the last approval of a request   *)
(* for that asset (applyApprovedRequest).                                  *)
THEOREM AssignmentsApproved == WorkflowSpec => AssignmentNeedsApproval
<1> DEFINE Step == \A a \in Assets : holder'[a] # holder[a] =>
          \E r \in Requests :
             /\ requests[r].status = "SUBMITTED"
             /\ requests'[r].status = "APPROVED"
             /\ requests[r].type \in {"ASSIGN", "RETURN"}
             /\ requests[r].asset = a
             /\ holder'[a] = (IF requests[r].type = "ASSIGN"
                              THEN requests[r].assignee ELSE Nobody)
             /\ \A k \in 1..Len(approvals'[r]) : approvals'[r][k].status = "APPROVED"
<1>1. ASSUME WorkflowInv, [WorkflowNext]_workflowVars
      PROVE  Step
  <2>1. CASE holder' = holder
    BY <2>1
  <2>2. ASSUME NEW r \in Requests, NEW user \in Users, NEW k, ApproveFinal(r, user, k)
        PROVE  Step
    <3>1. /\ requests[r] \in RequestRow
          /\ requests[r].status = "SUBMITTED" /\ requests'[r].status = "APPROVED"
          /\ \A j \in 1..Len(approvals'[r]) : approvals'[r][j].status = "APPROVED"
      BY <1>1, <2>2, ApproveFinalInv
    <3>2. Apply(r, requests[r].asset)
      BY <2>2 DEF ApproveFinal
    <3>3. \A a \in Assets : holder'[a] # holder[a] =>
            /\ requests[r].type \in {"ASSIGN", "RETURN"} /\ requests[r].asset = a
            /\ holder'[a] = IF requests[r].type = "ASSIGN"
                            THEN requests[r].assignee ELSE Nobody
      BY <1>1, <3>1, <3>2, ApplyShape DEF WorkflowInv
    <3> QED  BY <3>1, <3>3
  <2> QED  BY <1>1, <2>1, <2>2, NextInv
<1>2. WorkflowInv /\ [WorkflowNext]_workflowVars => [Step]_workflowVars
  BY <1>1
<1> HIDE DEF Step
<1>3. WorkflowSpec => [][Step]_workflowVars
  BY <1>2, WorkflowInvariant, PTL DEF WorkflowSpec
<1> QED  BY <1>3 DEF Step, AssignmentNeedsApproval

(***************************************************************************)
(* One person's account under any number of handlers, sessions,            *)
(* invitations and tokens.  A session that was cut is in no handler's      *)
(* hands, so no renewal writes it back; the credential knows of every code *)
(* accepted since it was enrolled; and whoever has accepted an invitation  *)
(* exists, so that no second one can be accepted.                          *)
(***************************************************************************)

(* A session that was cut is in nobody's hands, so nobody writes it back.  *)
Cut == \A s \in cut : session[s] = "none" /\ s \notin Busy

(* The credential knows of every code accepted since it was enrolled.      *)
Codes ==
    /\ ~repeated
    /\ cred # None =>
          /\ \A c \in spent \ {Recovery} : c <= cred.last
          /\ Recovery \in spent => ~cred.recovery

(* A person who is not there has accepted nothing and has no password.     *)
Acceptances ==
    /\ ~account.exists => ~account.mustChange
    /\ \A i \in Invitations : invitation[i] = "accepted" => account.exists /\ ~account.mustChange
    /\ \A i, j \in Invitations :
          invitation[i] = "accepted" /\ invitation[j] = "accepted" => i = j

AccountsInv == AccountsTypeOK /\ Cut /\ Codes /\ MfaCanBeMet /\ Acceptances

(* Unlocking keeps the rest of the account.                                *)
LEMMA UnlockedTypes ==
  ASSUME AccountsTypeOK
  PROVE  /\ Unlocked \in Account /\ Unlocked.exists = account.exists
         /\ Unlocked.mfa = account.mfa /\ Unlocked.mustChange = account.mustChange
<1>1. account \in Account /\ 0 \in 0..MaxFails
  BY AccountsAssumption DEF AccountsTypeOK
<1> QED  BY <1>1 DEF Unlocked, Account

(* What a step may do with the person and the invitations.                 *)
Moves ==
    /\ account' \in Account
    /\ account.exists => account'.exists
    /\ account'.mustChange => account.mustChange
    /\ \A i \in Invitations :
          invitation'[i] = "accepted" => invitation[i] = "accepted" \/ Accept(i)

(* No step takes the person away, and none but an acceptance accepts.      *)
LEMMA PersonMoves == ASSUME AccountsTypeOK, [AccountsNext]_accountsVars PROVE Moves
<1>1. account \in Account
  BY DEF AccountsTypeOK
<1> USE <1>1 DEF Moves, people
<1>2. ASSUME NEW h \in Handlers,
             Save(h) \/ Invite(h) \/ Verify(h) \/ Disable(h) \/ Renew(h) \/ ResetRequest(h) \/ Break(h)
      PROVE  Moves
  BY <1>2 DEF Save, Invite, Verify, Disable, Renew, ResetRequest, Break
<1>3. ASSUME NEW h \in Handlers,
       \/ \E valid \in BOOLEAN : LoginRead(h, valid)
       \/ \E t \in Tokens : ResetIssue(h, t)
       \/ \E s \in Sids :
             \/ VerifyBegin(h, s)
             \/ \E place \in {"setup", "enable", "disable", "change", "saveAuth"} :
                   Request(h, s, place)
      PROVE  Moves
  BY <1>3 DEF LoginRead, ResetIssue, VerifyBegin, Request
<1>4. ASSUME NEW h \in Handlers, LoginFail(h)
      PROVE  Moves
  <2>1. OneMoreFailure(account.fails) \in 0..MaxFails
    BY AccountsAssumption DEF OneMoreFailure, Account
  <2> QED  BY <1>4, <2>1 DEF LoginFail, Account
<1>5. ASSUME NEW h \in Handlers, NEW old, LoginPass(h, old)
      PROVE  Moves
  BY <1>5, UnlockedTypes DEF LoginPass
<1>6. ASSUME NEW h \in Handlers, VerifyEnd(h)
      PROVE  Moves
  BY <1>6, UnlockedTypes DEF VerifyEnd
<1>7. ASSUME NEW h \in Handlers, Setup(h) \/ Enable(h) \/ Delete(h)
      PROVE  Moves
  BY <1>7 DEF Setup, Enable, Delete, Account
<1>8. ASSUME NEW h \in Handlers, Change(h)
      PROVE  Moves
  BY <1>8, UnlockedTypes DEF Change, Account
<1>9. ASSUME NEW t \in Tokens, ResetConfirm(t)
      PROVE  Moves
  BY <1>9, UnlockedTypes DEF ResetConfirm, Account
<1>10. ASSUME NEW h \in Handlers, NEW i \in Invitations, InviteInsert(h, i)
      PROVE  Moves
  BY <1>10 DEF InviteInsert, AccountsTypeOK
<1>11. ASSUME NEW i \in Invitations, Revoke(i)
      PROVE  Moves
  BY <1>11 DEF Revoke, AccountsTypeOK
<1>12. ASSUME NEW i \in Invitations, Accept(i)
      PROVE  Moves
  BY <1>12 DEF Accept, AccountsTypeOK, Account
<1>13. ASSUME LockOver
      PROVE  Moves
  BY <1>13 DEF LockOver, Account
<1>14. ASSUME Tick \/ Expire \/ (\E s \in Sids : Logout(s)) \/ UNCHANGED accountsVars
      PROVE  Moves
  BY <1>14 DEF Tick, Expire, Logout, accountsVars, AccountsTypeOK
<1> HIDE DEF Moves, people
<1> QED  BY <1>2, <1>3, <1>4, <1>5, <1>6, <1>7, <1>8, <1>9, <1>10, <1>11, <1>12, <1>13,
     <1>14 DEF AccountsNext

(* Only somebody who does not exist accepts, and exists from then on.      *)
LEMMA AcceptancesKept ==
  ASSUME AccountsInv, [AccountsNext]_accountsVars
  PROVE  Acceptances'
<1>1. Moves /\ AccountsTypeOK /\ Acceptances
  BY PersonMoves DEF AccountsInv
<1>2. CASE \E i \in Invitations : Accept(i)
  <2>1. PICK i \in Invitations : Accept(i)
    BY <1>2
  <2>2. ~account.exists /\ account'.exists /\ account'.mustChange = account.mustChange
    BY <2>1 DEF Accept, AccountsTypeOK, Account
  <2>3. \A j \in Invitations : invitation[j] # "accepted"
    BY <1>1, <2>2 DEF Acceptances
  <2>4. invitation' = [invitation EXCEPT ![i] = "accepted"]
    BY <2>1 DEF Accept
  <2> QED  BY <1>1, <2>2, <2>3, <2>4 DEF Acceptances, AccountsTypeOK
<1>3. CASE ~\E i \in Invitations : Accept(i)
  BY <1>1, <1>3 DEF Acceptances, Moves, AccountsTypeOK, Account
<1> QED  BY <1>2, <1>3

(* A set without two different elements has one at most.                   *)
LEMMA AtMostOne == ASSUME NEW S, \A x, y \in S : x = y PROVE Cardinality(S) <= 1
<1>1. CASE S = {}
  BY <1>1, FS_EmptySet
<1>2. CASE S # {}
  <2>1. PICK x \in S : TRUE
    BY <1>2
  <2>2. S = {x}
    BY <2>1
  <2> QED  BY <2>2, FS_Singleton
<1> QED  BY <1>1, <1>2

(* Hence one invitation at most is accepted.                               *)
LEMMA AcceptedOnce == Acceptances => OneAcceptance
<1> SUFFICES ASSUME Acceptances PROVE OneAcceptance
  OBVIOUS
<1>1. \A x, y \in {i \in Invitations : invitation[i] = "accepted"} : x = y
  BY DEF Acceptances
<1> QED  BY <1>1, AtMostOne DEF Acceptances, OneAcceptance

(* Whoever has the flag has the credential: the two are written together.  *)
LEMMA MfaKept == ASSUME AccountsInv, [AccountsNext]_accountsVars PROVE MfaCanBeMet'
<1>1. account \in Account /\ cred \in Credential \cup {None} /\ MfaCanBeMet
  BY DEF AccountsInv, AccountsTypeOK
<1> USE <1>1, CredentialAssumption DEF MfaCanBeMet, people, mfa
<1>2. ASSUME NEW h \in Handlers,
             Save(h) \/ Invite(h) \/ Renew(h) \/ ResetRequest(h) \/ Break(h)
      PROVE  MfaCanBeMet'
  BY <1>2 DEF Save, Invite, Renew, ResetRequest, Break
<1>3. ASSUME NEW h \in Handlers,
       \/ \E valid \in BOOLEAN : LoginRead(h, valid)
       \/ \E t \in Tokens : ResetIssue(h, t)
       \/ \E i \in Invitations : InviteInsert(h, i)
       \/ \E s \in Sids :
             \/ VerifyBegin(h, s)
             \/ \E place \in {"setup", "enable", "disable", "change", "saveAuth"} :
                   Request(h, s, place)
      PROVE  MfaCanBeMet'
  BY <1>3 DEF LoginRead, ResetIssue, InviteInsert, VerifyBegin, Request
<1>4. ASSUME NEW h \in Handlers, LoginFail(h)
      PROVE  MfaCanBeMet'
  BY <1>4 DEF LoginFail, Account
<1>5. ASSUME NEW h \in Handlers,
             VerifyEnd(h) \/ Change(h) \/ (\E old \in Sids \cup {None} : LoginPass(h,
                                                                                   old))
      PROVE  MfaCanBeMet'
  BY <1>5, UnlockedTypes DEF VerifyEnd, Change, LoginPass, Account, AccountsInv
<1>6. ASSUME NEW h \in Handlers, Verify(h) \/ Disable(h)
      PROVE  MfaCanBeMet'
  <2>1. PICK code : Accepted(code)
    BY <1>6 DEF Verify, Disable
  <2>2. cred \in Credential /\ cred.enabled /\ account.mfa
    BY <2>1 DEF Accepted
  <2>3. cred' \in Credential /\ cred'.enabled
    <3>1. CASE cred' = [cred EXCEPT !.recovery = FALSE]
      BY <2>2, <3>1 DEF Credential
    <3>2. CASE cred' = [cred EXCEPT !.last = code] /\ code \in Nat
      BY <2>2, <3>2 DEF Credential
    <3> QED  BY <2>1, <3>1, <3>2 DEF Accepted, Fresh, Window, Counters
  <2> QED  BY <2>3
<1>7. ASSUME NEW h \in Handlers, Setup(h) \/ Enable(h) \/ Delete(h)
      PROVE  MfaCanBeMet'
  <2>1. CASE Setup(h)
    BY <2>1 DEF Setup, Account
  <2>2. CASE Enable(h)
    <3>1. cred' = [enabled |-> TRUE, last |-> 0, recovery |-> TRUE]
      BY <2>2 DEF Enable
    <3>2. cred' \in Credential /\ cred'.enabled
      BY <3>1 DEF Credential
    <3> QED  BY <3>2
  <2>3. CASE Delete(h)
    BY <2>3 DEF Delete, Account
  <2> QED  BY <1>7, <2>1, <2>2, <2>3
<1>8. ASSUME NEW t \in Tokens, ResetConfirm(t)
      PROVE  MfaCanBeMet'
  BY <1>8, UnlockedTypes DEF ResetConfirm, Account, AccountsInv
<1>9. ASSUME NEW i \in Invitations, Revoke(i) \/ Accept(i)
      PROVE  MfaCanBeMet'
  BY <1>9 DEF Revoke, Accept, Account
<1>10. ASSUME LockOver
      PROVE  MfaCanBeMet'
  BY <1>10 DEF LockOver, Account
<1>11. ASSUME Tick \/ Expire \/ (\E s \in Sids : Logout(s)) \/ UNCHANGED accountsVars
      PROVE  MfaCanBeMet'
  BY <1>11 DEF Tick, Expire, Logout, accountsVars
<1> HIDE DEF MfaCanBeMet, people, mfa
<1> QED  BY <1>2, <1>3, <1>4, <1>5, <1>6, <1>7, <1>8, <1>9, <1>10,
     <1>11 DEF AccountsNext

(* A code is accepted only if the credential does not know of it yet, and  *)
(* it knows from then on.                                                  *)
LEMMA CodesKept == ASSUME AccountsInv, [AccountsNext]_accountsVars PROVE Codes'
<1>1. cred \in Credential \cup {None} /\ Codes /\ spent \subseteq Counters \cup {Recovery}
  BY DEF AccountsInv, AccountsTypeOK
<1> USE <1>1, CredentialAssumption DEF Codes, mfa
<1>2. ASSUME NEW h \in Handlers,
             Save(h) \/ Invite(h) \/ Renew(h) \/ ResetRequest(h) \/ Break(h)
        \/ LoginFail(h) \/ VerifyEnd(h) \/ Change(h)
      PROVE  Codes'
  BY <1>2 DEF Save, Invite, Renew, ResetRequest, Break, LoginFail, VerifyEnd, Change
<1>3. ASSUME NEW h \in Handlers,
       \/ \E valid \in BOOLEAN : LoginRead(h, valid)
       \/ \E old \in Sids \cup {None} : LoginPass(h, old)
       \/ \E t \in Tokens : ResetIssue(h, t)
       \/ \E i \in Invitations : InviteInsert(h, i)
       \/ \E s \in Sids :
             \/ VerifyBegin(h, s)
             \/ \E place \in {"setup", "enable", "disable", "change", "saveAuth"} :
                   Request(h, s, place)
      PROVE  Codes'
  BY <1>3 DEF LoginRead, LoginPass, ResetIssue, InviteInsert, VerifyBegin, Request
<1>4. ASSUME NEW h \in Handlers, Verify(h) \/ Disable(h)
      PROVE  Codes'
  <2>1. PICK code \in Counters \cup {Recovery} : Accepted(code)
    BY <1>4 DEF Verify, Disable
  <2>2. cred \in Credential /\ Fresh(code) /\ spent' = spent \cup {code}
        /\ repeated' = (repeated \/ code \in spent)
    BY <2>1 DEF Accepted
  <2>3. CASE code = Recovery
    <3>1. cred.recovery /\ cred' = [cred EXCEPT !.recovery = FALSE]
      BY <2>1, <2>2, <2>3 DEF Accepted, Fresh, Window, Counters, Recovery
    <3> QED  BY <2>2, <2>3, <3>1 DEF Credential
  <2>4. CASE code \in Counters
    <3>1. code > cred.last /\ cred' = [cred EXCEPT !.last = code] /\ code \in Counters
      BY <2>1, <2>2, <2>4 DEF Accepted, Fresh, Counters, Recovery
    <3>2. cred'.last = code /\ cred'.recovery = cred.recovery /\ cred.last \in Nat
      BY <2>2, <3>1 DEF Credential
    <3>3. \A c \in spent \ {Recovery} : c <= cred.last /\ c \in Counters
      BY <2>2, <3>1
    <3>4. code \notin spent /\ code /= Recovery
      BY <3>1, <3>2, <3>3 DEF Counters, Recovery
    <3>5. \A c \in spent' \ {Recovery} : c <= cred'.last
      BY <2>2, <3>1, <3>2, <3>3 DEF Counters
    <3> QED  BY <2>2, <3>2, <3>4, <3>5
  <2> QED  BY <2>3, <2>4
<1>5. ASSUME NEW h \in Handlers, Setup(h) \/ Enable(h) \/ Delete(h)
      PROVE  Codes'
  BY <1>5 DEF Setup, Enable, Delete, Enrol
<1>6. ASSUME NEW i \in Invitations, Revoke(i) \/ Accept(i)
      PROVE  Codes'
  BY <1>6 DEF Revoke, Accept
<1>7. ASSUME LockOver \/ Tick \/ Expire \/ (\E s \in Sids : Logout(s))
        \/ (\E t \in Tokens : ResetConfirm(t)) \/ UNCHANGED accountsVars
      PROVE  Codes'
  BY <1>7 DEF LockOver, Tick, Expire, Logout, ResetConfirm, accountsVars
<1> HIDE DEF Codes, mfa
<1> QED  BY <1>2, <1>3, <1>4, <1>5, <1>6, <1>7 DEF AccountsNext

(* What was cut stays cut: no handler has it in its hands.                 *)
LEMMA CutKept == ASSUME AccountsInv, [AccountsNext]_accountsVars PROVE Cut'
<1>1. AccountsTypeOK /\ Cut
  BY DEF AccountsInv
<1> USE <1>1, AccountsAssumption DEF Cut, AccountsTypeOK, Busy, GoOn, Done, Idle, Job,
     sessions
<1>2. ASSUME NEW h \in Handlers, Save(h) \/ Break(h)
      PROVE  Cut'
  BY <1>2 DEF Save, Break
<1>3. ASSUME NEW h \in Handlers,
             VerifyEnd(h) \/ Renew(h) \/ (\E old \in Sids \cup {None} : LoginPass(h, old))
      PROVE  Cut'
  BY <1>3 DEF VerifyEnd, Renew, LoginPass, Regenerate
<1>4. ASSUME NEW h \in Handlers, Change(h)
      PROVE  Cut'
  BY <1>4 DEF Change, DropSessions
<1>5. ASSUME NEW t \in Tokens, ResetConfirm(t)
      PROVE  Cut'
  BY <1>5 DEF ResetConfirm, DropSessions
<1>6. ASSUME NEW h \in Handlers,
             Invite(h) \/ ResetRequest(h) \/ LoginFail(h) \/ Verify(h) \/ Disable(h)
        \/ Setup(h) \/ Enable(h) \/ Delete(h)
      PROVE  Cut'
  BY <1>6 DEF Invite, ResetRequest, LoginFail, Verify, Disable, Setup, Enable, Delete
<1>7. ASSUME NEW h \in Handlers,
       \/ \E valid \in BOOLEAN : LoginRead(h, valid)
       \/ \E t \in Tokens : ResetIssue(h, t)
       \/ \E i \in Invitations : InviteInsert(h, i)
       \/ \E s \in Sids :
             \/ VerifyBegin(h, s)
             \/ \E place \in {"setup", "enable", "disable", "change", "saveAuth"} :
                   Request(h, s, place)
      PROVE  Cut'
  BY <1>7 DEF LoginRead, ResetIssue, InviteInsert, VerifyBegin, Request
<1>8. ASSUME NEW i \in Invitations, Revoke(i) \/ Accept(i)
      PROVE  Cut'
  BY <1>8 DEF Revoke, Accept
<1>9. ASSUME LockOver \/ Tick \/ Expire \/ (\E s \in Sids : Logout(s)) \/ UNCHANGED accountsVars
      PROVE  Cut'
  BY <1>9 DEF LockOver, Tick, Expire, Logout, accountsVars
<1> HIDE DEF Cut, AccountsTypeOK, Busy, GoOn, Done, Idle, Job, sessions
<1> QED  BY <1>2, <1>3, <1>4, <1>5, <1>6, <1>7, <1>8, <1>9 DEF AccountsNext

(* The steps keep the types: of the handlers, ...                          *)
LEMMA JobTypes ==
  ASSUME AccountsTypeOK, [AccountsNext]_accountsVars
  PROVE  job' \in [Handlers -> Job]
<1>1. job \in [Handlers -> Job] /\ Idle \in Job
  BY DEF AccountsTypeOK, Idle, Job
<1> USE <1>1 DEF GoOn, Done, Job
<1>2. ASSUME NEW h \in Handlers,
       \/ Save(h) \/ Invite(h) \/ LoginFail(h) \/ Verify(h) \/ Setup(h) \/ Enable(h)
       \/ Disable(h) \/ Delete(h) \/ Change(h) \/ ResetRequest(h) \/ Break(h)
      PROVE  job' \in [Handlers -> Job]
  BY <1>2 DEF Save, Invite, LoginFail, Verify, Setup, Enable, Disable, Delete, Change,
       ResetRequest, Break
<1>3. ASSUME NEW h \in Handlers,
       \/ VerifyEnd(h) \/ Renew(h) \/ \E old \in Sids \cup {None} : LoginPass(h, old)
      PROVE  job' \in [Handlers -> Job]
  BY <1>3 DEF VerifyEnd, Renew, LoginPass, Regenerate
<1>4. ASSUME NEW h \in Handlers,
       \/ \E valid \in BOOLEAN : LoginRead(h, valid)
       \/ \E t \in Tokens : ResetIssue(h, t)
       \/ \E i \in Invitations : InviteInsert(h, i)
       \/ \E s \in Sids :
             \/ VerifyBegin(h, s)
             \/ \E place \in {"setup", "enable", "disable", "change", "saveAuth"} :
                   Request(h, s, place)
      PROVE  job' \in [Handlers -> Job]
  BY <1>4 DEF LoginRead, ResetIssue, InviteInsert, VerifyBegin, Request
<1>5. ASSUME
       \/ \E i \in Invitations : Revoke(i) \/ Accept(i)
       \/ \E t \in Tokens : ResetConfirm(t)
       \/ \E s \in Sids : Logout(s)
       \/ LockOver \/ Tick \/ Expire \/ UNCHANGED accountsVars
      PROVE  job' \in [Handlers -> Job]
  BY <1>5 DEF Revoke, Accept, ResetConfirm, Logout, LockOver, Tick, Expire, accountsVars
<1> HIDE DEF GoOn, Done, Job
<1> QED  BY <1>2, <1>3, <1>4, <1>5 DEF AccountsNext

(* ... of the sessions and the rows of tokens and invitations, ...         *)
RowTypes ==
    /\ token' \in [Tokens -> {"absent", "live", "dead"}]
    /\ invitation' \in [Invitations -> {"absent", "open", "expired", "accepted",
                                        "revoked"}]
    /\ session' \in [Sids -> {"none", "auth", "pending"}] /\ cut' \subseteq Sids

LEMMA RowsTyped == ASSUME AccountsTypeOK, [AccountsNext]_accountsVars PROVE RowTypes
<1> USE DEF AccountsTypeOK, RowTypes, people, sessions
<1>1. ASSUME NEW h \in Handlers,
       \/ Save(h) \/ Invite(h) \/ LoginFail(h) \/ Verify(h) \/ Setup(h) \/ Enable(h)
       \/ Disable(h) \/ Delete(h) \/ ResetRequest(h) \/ Break(h)
      PROVE  RowTypes
  BY <1>1 DEF Save, Invite, LoginFail, Verify, Setup, Enable, Disable, Delete,
       ResetRequest, Break
<1>2. ASSUME NEW h \in Handlers,
       \/ VerifyEnd(h) \/ Renew(h) \/ \E old \in Sids \cup {None} : LoginPass(h, old)
      PROVE  RowTypes
  BY <1>2 DEF VerifyEnd, Renew, LoginPass, Regenerate
<1>3. ASSUME NEW h \in Handlers, Change(h)
      PROVE  RowTypes
  BY <1>3 DEF Change, DropSessions
<1>4. ASSUME NEW h \in Handlers,
       \/ \E valid \in BOOLEAN : LoginRead(h, valid)
       \/ \E t \in Tokens : ResetIssue(h, t)
       \/ \E i \in Invitations : InviteInsert(h, i)
       \/ \E s \in Sids :
             \/ VerifyBegin(h, s)
             \/ \E place \in {"setup", "enable", "disable", "change", "saveAuth"} :
                   Request(h, s, place)
      PROVE  RowTypes
  BY <1>4 DEF LoginRead, ResetIssue, InviteInsert, VerifyBegin, Request
<1>5. ASSUME NEW t \in Tokens, ResetConfirm(t)
      PROVE  RowTypes
  BY <1>5 DEF ResetConfirm, DropSessions
<1>6. ASSUME
       \/ \E i \in Invitations : Revoke(i) \/ Accept(i)
       \/ \E s \in Sids : Logout(s)
       \/ LockOver \/ Tick \/ Expire \/ UNCHANGED accountsVars
      PROVE  RowTypes
  BY <1>6 DEF Revoke, Accept, Logout, LockOver, Tick, Expire, accountsVars
<1> HIDE DEF AccountsTypeOK, RowTypes, people, sessions
<1> QED  BY <1>1, <1>2, <1>3, <1>4, <1>5, <1>6 DEF AccountsNext

(* ... and of the credential and what is known of it.                      *)
MfaTypes ==
    /\ cred' \in Credential \cup {None} /\ clock' \in 0..MaxClock
    /\ enrolment' \in 0..MaxEnrolments /\ spent' \subseteq Counters \cup {Recovery}
    /\ repeated' \in BOOLEAN

(* Enrolments are counted up to the bound.                                 *)
LEMMA EnrolTypes == ASSUME AccountsTypeOK, Enrol PROVE enrolment' \in 0..MaxEnrolments
BY AccountsAssumption DEF AccountsTypeOK, Enrol

LEMMA MfaTyped == ASSUME AccountsTypeOK, [AccountsNext]_accountsVars PROVE MfaTypes
<1> USE DEF AccountsTypeOK, MfaTypes, mfa
<1>1. ASSUME NEW h \in Handlers,
       \/ Save(h) \/ Invite(h) \/ LoginFail(h) \/ VerifyEnd(h) \/ Change(h) \/ Renew(h)
       \/ ResetRequest(h) \/ Break(h)
      PROVE  MfaTypes
  BY <1>1 DEF Save, Invite, LoginFail, VerifyEnd, Change, Renew, ResetRequest, Break
<1>2. ASSUME NEW h \in Handlers, Verify(h) \/ Disable(h)
      PROVE  MfaTypes
  <2>1. PICK code \in Counters \cup {Recovery} : Accepted(code)
    BY <1>2 DEF Verify, Disable
  <2>2. cred' \in Credential
    <3>1. cred \in Credential /\ code \in Nat
      BY <2>1 DEF Accepted, Counters, Recovery
    <3>2. cred' = [cred EXCEPT !.recovery = FALSE] \/ cred' = [cred EXCEPT !.last = code]
      BY <2>1 DEF Accepted
    <3> QED  BY <3>1, <3>2 DEF Credential
  <2>3. repeated' \in BOOLEAN
    BY <2>1 DEF Accepted
  <2> QED  BY <2>1, <2>2, <2>3 DEF Accepted
<1>3. ASSUME NEW h \in Handlers, Setup(h) \/ Enable(h) \/ Delete(h)
      PROVE  MfaTypes
  <2>1. CASE Setup(h)
    <3>1. cred' = [enabled |-> FALSE, last |-> 0, recovery |-> FALSE] /\ Enrol
      BY <2>1 DEF Setup
    <3>2. cred' \in Credential
      BY <3>1 DEF Credential
    <3> QED  BY <3>1, <3>2, EnrolTypes DEF Enrol
  <2>2. CASE Enable(h)
    <3>1. cred' = [enabled |-> TRUE, last |-> 0, recovery |-> TRUE] /\ Enrol
      BY <2>2 DEF Enable
    <3>2. cred' \in Credential
      BY <3>1 DEF Credential
    <3> QED  BY <3>1, <3>2, EnrolTypes DEF Enrol
  <2>3. CASE Delete(h)
    BY <2>3 DEF Delete
  <2> QED  BY <1>3, <2>1, <2>2, <2>3
<1>4. ASSUME NEW h \in Handlers,
       \/ \E valid \in BOOLEAN : LoginRead(h, valid)
       \/ \E old \in Sids \cup {None} : LoginPass(h, old)
       \/ \E t \in Tokens : ResetIssue(h, t)
       \/ \E i \in Invitations : InviteInsert(h, i)
       \/ \E s \in Sids :
             \/ VerifyBegin(h, s)
             \/ \E place \in {"setup", "enable", "disable", "change", "saveAuth"} :
                   Request(h, s, place)
      PROVE  MfaTypes
  BY <1>4 DEF LoginRead, LoginPass, ResetIssue, InviteInsert, VerifyBegin, Request
<1>5. ASSUME Tick
      PROVE  MfaTypes
  BY <1>5, AccountsAssumption DEF Tick
<1>6. ASSUME
       \/ \E i \in Invitations : Revoke(i) \/ Accept(i)
       \/ \E t \in Tokens : ResetConfirm(t)
       \/ \E s \in Sids : Logout(s)
       \/ LockOver \/ Expire \/ UNCHANGED accountsVars
      PROVE  MfaTypes
  BY <1>6 DEF Revoke, Accept, ResetConfirm, Logout, LockOver, Expire, accountsVars
<1> HIDE DEF AccountsTypeOK, MfaTypes, mfa
<1> QED  BY <1>1, <1>2, <1>3, <1>4, <1>5, <1>6 DEF AccountsNext

(* Together: the types are kept.                                           *)
LEMMA AccountsTypesKept ==
  ASSUME AccountsTypeOK, [AccountsNext]_accountsVars
  PROVE  AccountsTypeOK'
BY PersonMoves, JobTypes, RowsTyped, MfaTyped DEF Moves, RowTypes, MfaTypes,
     AccountsTypeOK

(* At the beginning there is nobody.                                       *)
LEMMA AccountsInitInv == AccountsInit => AccountsInv
<1> SUFFICES ASSUME AccountsInit PROVE AccountsInv
  OBVIOUS
<1>1. AccountsTypeOK
  <2>1. account \in Account
    <3>1. 0 \in 0..MaxFails
      BY AccountsAssumption
    <3> QED  BY <3>1 DEF AccountsInit, Account
  <2>2. clock \in 0..MaxClock /\ enrolment \in 0..MaxEnrolments
    BY AccountsAssumption DEF AccountsInit
  <2>3. job \in [Handlers -> Job]
    BY DEF AccountsInit, Idle, Job
  <2> QED  BY <2>1, <2>2, <2>3 DEF AccountsInit, AccountsTypeOK
<1>2. Cut /\ Codes /\ MfaCanBeMet /\ Acceptances
  <2>1. \A i \in Invitations : invitation[i] # "accepted"
    BY DEF AccountsInit
  <2>2. ~account.exists => ~account.mustChange
    BY DEF AccountsInit
  <2>3. ~account.mfa
    BY DEF AccountsInit
  <2> QED  BY <2>1, <2>2, <2>3 DEF AccountsInit, Cut, Codes, MfaCanBeMet, Acceptances
<1> QED  BY <1>1, <1>2 DEF AccountsInv

(* Every reachable state satisfies the invariant, whatever the numbers of  *)
(* handlers, sessions, invitations and tokens and all the bounds are.      *)
THEOREM AccountsInvariant == AccountsSpec => []AccountsInv
<1>1. ASSUME AccountsInv, [AccountsNext]_accountsVars PROVE AccountsInv'
  BY <1>1, AccountsTypesKept, CutKept, CodesKept, MfaKept,
       AcceptancesKept DEF AccountsInv
<1> QED  BY <1>1, AccountsInitInv, PTL DEF AccountsSpec

(* A changed password ends the idle sessions of the person for good.       *)
THEOREM IdleSessionsEndForGood == AccountsSpec => []IdleSessionsEnd
<1>1. AccountsInv => IdleSessionsEnd
  BY DEF AccountsInv, Cut, IdleSessionsEnd
<1> QED  BY <1>1, AccountsInvariant, PTL

(* Within one enrolment no code is accepted twice.                         *)
THEOREM NoCodeTwice == AccountsSpec => []CodesAcceptedOnce
<1>1. AccountsInv => CodesAcceptedOnce
  BY DEF AccountsInv, Codes, CodesAcceptedOnce
<1> QED  BY <1>1, AccountsInvariant, PTL

(* Who is asked for a second factor has an enabled credential.             *)
THEOREM MfaIsMet == AccountsSpec => []MfaCanBeMet
<1>1. AccountsInv => MfaCanBeMet
  BY DEF AccountsInv
<1> QED  BY <1>1, AccountsInvariant, PTL

(* Of the invitations to one address at most one is accepted, and only     *)
(* where nobody was.                                                       *)
THEOREM OneIsAccepted == AccountsSpec => []OneAcceptance
<1>1. AccountsInv => OneAcceptance
  BY AcceptedOnce DEF AccountsInv
<1> QED  BY <1>1, AccountsInvariant, PTL
=============================================================================
