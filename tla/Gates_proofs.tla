----------------------------- MODULE Gates_proofs ------------------------------
(* Proofs about Gates for every number of agents, calls, gates, hook calls and *)
(* ticks, with and without a delegate: its invariants; that a note reaches its *)
(* agent, as long as one of the messages about each gate fits the context of a *)
(* call; and that Gates implements Permits.                                    *)
EXTENDS Gates, FiniteSetTheorems, WellFoundedInduction, TLAPS

-------------------------------------------------------------------------------
(* The inductive invariant *)

\* Nothing is known of a gate before it is raised.
Fresh == \A i \in Gate : i > raised => gate[i] = Unraised

\* A hook acks messages that were sent.
AckSent == \A h \in Hook : hook[h].ack \subseteq DOMAIN sent

\* The approval that an attempt is about to spend, or has spent, is an answered
\* gate on its session's call.
ChosenBy(r) ==
  /\ r.pc = "spend" =>
       /\ r.yes \in 1..raised /\ Resolved(r.yes)
       /\ gate[r.yes].who = r.who /\ gate[r.yes].what = r.what
  /\ r.used # 0 =>
       /\ r.used \in 1..raised
       /\ gate[r.used].who = r.who /\ gate[r.used].what = r.what

Chosen == \A h \in Hook : ChosenBy(hook[h])

\* A gate that is answered and not spent has an answer left.
Credit ==
  \A i \in Gate : /\ uses[i] <= answers[i]
                  /\ Resolved(i) /\ ~gate[i].spent => uses[i] < answers[i]

\* Only a delegate that is there is waited for: by a tick for gates past
\* their deadline, and for gates with a note.
Awaited ==
  /\ \A t \in Tick : \A i \in tick[t].todo :
       delegate /\ i \in late /\ gate[i].owner = "human_timeout"
  /\ \A i \in Gate : asks[i] > 0 => delegate /\ i \in Written /\ i <= raised

Inv == TypeOK /\ Fresh /\ AckSent /\ Chosen /\ Credit /\ Awaited /\ DelegateWhenDue

-------------------------------------------------------------------------------
(* Types *)

LEMMA TypeInit == Init => TypeOK
BY GatesAssumption
DEF Init, TypeOK, Record, Attempt, Unraised, Idle, Done, Gate, Decision, Verdict, Message, Silence

LEMMA GateNat == MaxGates \in Nat /\ Gate = 1..MaxGates
BY GatesAssumption DEF Gate

\* Writing a record or the locals of a hook.
LEMMA PutType ==
  ASSUME TypeOK, NEW i \in Gate, NEW record \in Record, Put(i, record)
  PROVE  /\ gate' \in [Gate -> Record] /\ gate'[i] = record
         /\ \A j \in Gate : j # i => gate'[j] = gate[j]
BY DEF TypeOK, Put

LEMMA GoType ==
  ASSUME TypeOK, NEW h \in Hook, NEW locals \in Attempt, Go(h, locals)
  PROVE  /\ hook' \in [Hook -> Attempt] /\ hook'[h] = locals
         /\ \A k \in Hook : k # h => hook'[k] = hook[k]
BY DEF TypeOK, Go

\* What a decision leaves is well typed.
LEMMA DecideType ==
  ASSUME TypeOK, NEW i \in Gate, NEW d \in Decision, NEW by \in {"human", "delegate"},
         NEW note \in Text \cup {None}, NEW spent \in BOOLEAN, Decide(i, d, by, note, spent)
  PROVE  /\ gate' \in [Gate -> Record] /\ answers' \in [Gate -> Nat]
         /\ saying' \in Message \cup {Silence} /\ sent' = sent /\ unread' = unread /\ cut' = cut
         /\ \A j \in Gate : j # i => gate'[j] = gate[j]
         /\ gate'[i] = [gate[i] EXCEPT !.answer = d, !.by = by, !.note = note, !.spent = spent]
<1> DEFINE record == [gate[i] EXCEPT !.answer = d, !.by = by, !.note = note, !.spent = spent]
<1>1. record \in Record
  <2>1. gate[i] \in Record
    BY DEF TypeOK
  <2> QED BY <2>1, Zenon DEF Record
<1>2. gate' \in [Gate -> Record] /\ gate'[i] = record /\ \A j \in Gate : j # i => gate'[j] = gate[j]
  <2>1. Put(i, record)
    BY DEF Decide
  <2> HIDE DEF record
  <2> QED BY <1>1, <2>1, PutType
<1>3. answers' \in [Gate -> Nat] /\ sent' = sent /\ unread' = unread /\ cut' = cut
  BY DEF TypeOK, Decide
<1>4. saying' \in Message \cup {Silence}
  BY DEF TypeOK, Decide, Message
<1> QED BY <1>2, <1>3, <1>4

\* The texts of a press, and of the record it is made on.
LEMMA TextType ==
  ASSUME NEW note \in Text \cup {None}, NEW text \in Text \cup {None}
  PROVE  (IF text # None THEN text ELSE note) \in Text \cup {None}
OBVIOUS

LEMMA WriteType ==
  ASSUME TypeOK, NEW i \in Gate, NEW text \in Text \cup {None}, Write(i, text)
  PROVE  wrote' \in [Gate -> Text \cup {None}] /\ Written \subseteq Written'
BY DEF TypeOK, Write, Written

\* The texts a tick has listed, and lists.
LEMMA NotedType ==
  ASSUME TypeOK
  PROVE  /\ \A t \in Tick : \A i \in Gate : tick[t].noted[i] \in Text \cup {None}
         /\ [j \in Gate |-> IF j \in Due THEN gate[j].note ELSE None] \in [Gate -> Text \cup {None}]
         /\ Due \subseteq Gate
<1>1. \A i \in Gate : gate[i].note \in Text \cup {None}
  BY DEF TypeOK, Record
<1>2. late \subseteq Gate
  BY GateNat DEF TypeOK
<1>3. ASSUME NEW t \in Tick PROVE tick[t].noted \in [Gate -> Text \cup {None}]
  BY DEF TypeOK
<1> QED BY <1>1, <1>2, <1>3 DEF Due

\* The locals a step of a hook leaves.
LEMMA LocalsType ==
  ASSUME NEW r \in Attempt
  PROVE  /\ \A pc \in {"match", "finish"}, v \in Verdict :
              [r EXCEPT !.tier = "classifier", !.pc = pc, !.verdict = v] \in Attempt
         /\ \A i \in Gate, o \in {"raise", "reuse"} :
              [r EXCEPT !.pc = "spend", !.yes = i, !.otherwise = o] \in Attempt
         /\ \A i \in Gate, pc \in {"classify", "finish"} :
              [r EXCEPT !.used = i, !.verdict = "allow", !.yes = 0, !.otherwise = "raise",
                        !.pc = pc] \in Attempt
         /\ [r EXCEPT !.pc = "place", !.yes = 0] \in Attempt
         /\ [r EXCEPT !.verdict = "deny", !.pc = "finish", !.otherwise = "raise"] \in Attempt
<1>1. ASSUME NEW pc \in {"match", "finish"}, NEW v \in Verdict
      PROVE  [r EXCEPT !.tier = "classifier", !.pc = pc, !.verdict = v] \in Attempt
  BY DEF Attempt
<1>2. ASSUME NEW i \in Gate, NEW o \in {"raise", "reuse"}
      PROVE  [r EXCEPT !.pc = "spend", !.yes = i, !.otherwise = o] \in Attempt
  BY DEF Attempt
<1>3. ASSUME NEW i \in Gate, NEW pc \in {"classify", "finish"}
      PROVE  [r EXCEPT !.used = i, !.verdict = "allow", !.yes = 0, !.otherwise = "raise",
                       !.pc = pc] \in Attempt
  BY DEF Attempt, Verdict
<1>4. [r EXCEPT !.pc = "place", !.yes = 0] \in Attempt
  BY DEF Attempt
<1>5. [r EXCEPT !.verdict = "deny", !.pc = "finish", !.otherwise = "raise"] \in Attempt
  BY DEF Attempt, Verdict
<1> QED BY <1>1, <1>2, <1>3, <1>4, <1>5

LEMMA IdleType ==
  /\ Idle \in Attempt
  /\ \A s \in Session, c \in Call, v \in Verdict, polled \in SUBSET Nat,
        where \in {"match", "classify", "finish"} :
       [Idle EXCEPT !.who = s, !.what = c, !.verdict = v, !.ack = polled, !.pc = where] \in Attempt
BY DEF Idle, Attempt, Verdict

LEMMA HookType ==
  ASSUME TypeOK, AckSent, Chosen, NEW h \in Hook, HookStep(h)
  PROVE  TypeOK'
<1>t. /\ hook[h] \in Attempt /\ raised \in 0..MaxGates /\ late \subseteq 1..raised
      /\ uses \in [Gate -> Nat]
  BY DEF TypeOK
<1>1. ASSUME NEW s \in Session, NEW c \in Call, NEW v \in Verdict, NEW channel \in BOOLEAN,
             Begin(h, s, c, v, channel)
      PROVE  TypeOK'
  <2> DEFINE polled == IF channel THEN Inbox(s) ELSE {}
             where == CASE v = "ask" -> "match" [] v = "allow" -> "classify" [] v = "deny" -> "finish"
             locals == [Idle EXCEPT !.who = s, !.what = c, !.verdict = v, !.ack = polled, !.pc = where]
  <2>1. polled \in SUBSET Nat
    <3>1. sent \in Seq(Message) /\ unread \subseteq DOMAIN sent
      BY DEF TypeOK
    <3>2. DOMAIN sent \subseteq Nat
      BY <3>1
    <3> QED BY <3>1, <3>2 DEF Inbox
  <2>2. where \in {"match", "classify", "finish"}
    BY DEF Verdict
  <2>3. locals \in Attempt
    <3> HIDE DEF polled, where
    <3> QED BY <2>1, <2>2, IdleType
  <2>4. Go(h, locals)
    BY <1>1 DEF Begin
  <2>5. hook' \in [Hook -> Attempt]
    <3> HIDE DEF locals
    <3> QED BY <2>3, <2>4, GoType
  <2>6. attempts' \in Nat
    BY <1>1 DEF TypeOK, Begin
  <2> HIDE DEF polled, where, locals
  <2> QED BY <1>1, <2>5, <2>6 DEF TypeOK, Begin, records, bus
<1>2. ASSUME NEW band \in {"allow", "deny", "route"}, Classify(h, band) PROVE TypeOK'
  <2> DEFINE locals == [hook[h] EXCEPT !.tier = "classifier",
                          !.pc = IF band = "route" THEN "match" ELSE "finish",
                          !.verdict = IF band = "deny" THEN "deny" ELSE @]
  <2>1. Go(h, locals)
    BY <1>2 DEF Classify
  <2>2. locals \in Attempt
    <3>1. hook[h].verdict \in Verdict
      BY <1>t DEF Attempt
    <3>2. (IF band = "deny" THEN "deny" ELSE hook[h].verdict) \in Verdict
      BY <3>1 DEF Verdict
    <3>3. locals = [hook[h] EXCEPT !.tier = "classifier",
                          !.pc = IF band = "route" THEN "match" ELSE "finish",
                          !.verdict = IF band = "deny" THEN "deny" ELSE hook[h].verdict]
      BY <1>t DEF Attempt
    <3> QED BY <1>t, <3>2, <3>3, LocalsType
  <2> HIDE DEF locals
  <2>3. hook' \in [Hook -> Attempt]
    BY <2>1, <2>2, GoType
  <2> QED BY <1>2, <2>3 DEF TypeOK, Classify, records, bus
<1>3. ASSUME NEW i \in Gate, Match(h, i) PROVE TypeOK'
  <2>1. hook' \in [Hook -> Attempt]
    BY <1>3, <1>t, GoType, LocalsType DEF Match, Reading
  <2> QED BY <1>3, <2>1 DEF TypeOK, Match, records, bus
<1>4. CASE Spend(h)
  <2> DEFINE i == hook[h].yes
             record == [gate[i] EXCEPT !.spent = TRUE]
  <2>1. i \in Gate
    BY <1>4, <1>t, GateNat DEF Chosen, ChosenBy, Spend
  <2>2. hook' \in [Hook -> Attempt]
    BY <1>4, <1>t, <2>1, GoType, LocalsType DEF Spend
  <2>3. gate[i] \in Record
    BY <2>1 DEF TypeOK
  <2>4. record \in Record
    BY <2>3, Zenon DEF Record
  <2>5. Put(i, record)
    BY <1>4 DEF Spend
  <2> HIDE DEF record
  <2>6. gate' \in [Gate -> Record]
    BY <2>1, <2>4, <2>5, PutType
  <2>7. uses' \in [Gate -> Nat]
    BY <1>4, <1>t, <2>1 DEF Spend
  <2> QED BY <1>4, <2>2, <2>6, <2>7 DEF TypeOK, Spend, bus
<1>5. CASE SpentAlready(h)
  <2>1. hook' \in [Hook -> Attempt]
    BY <1>5, <1>t, GoType, LocalsType DEF SpentAlready
  <2> QED BY <1>5, <2>1 DEF TypeOK, SpentAlready, records, bus
<1>6. CASE Reuse(h)
  <2>1. hook' \in [Hook -> Attempt]
    BY <1>6, <1>t, GoType, LocalsType DEF Reuse
  <2> QED BY <1>6, <2>1 DEF TypeOK, Reuse, records, bus
<1>7. ASSUME NEW p \in {"human", "human_timeout"}, NEW q \in BOOLEAN, Raise(h, p, q) PROVE TypeOK'
  <2> DEFINE record == [Unraised EXCEPT !.who = hook[h].who, !.what = hook[h].what,
                          !.answer = "pending", !.owner = IF q THEN "human" ELSE p]
  <2>1. hook' \in [Hook -> Attempt]
    BY <1>7, <1>t, GoType, LocalsType DEF Raise
  <2>2. record \in Record
    <3>1. hook[h].who \in Session \cup {None} /\ hook[h].what \in Call \cup {None}
      BY <1>t DEF Attempt
    <3> QED BY <3>1 DEF Unraised, Record
  <2>3. raised + 1 \in Gate /\ raised' = raised + 1 /\ raised' \in 0..MaxGates
    BY <1>7, <1>t, GateNat DEF Raise
  <2>4. Put(raised + 1, record)
    BY <1>7 DEF Raise
  <2> HIDE DEF record
  <2>5. gate' \in [Gate -> Record]
    BY <2>2, <2>3, <2>4, PutType
  <2>6. late \subseteq 1..raised'
    BY <1>t, <2>3
  <2> QED BY <1>7, <2>1, <2>3, <2>5, <2>6 DEF TypeOK, Raise, bus
<1>8. CASE Finish(h)
  <2>1. hook' \in [Hook -> Attempt]
    BY <1>8, GoType, IdleType DEF Finish
  <2>2. heard' \subseteq DOMAIN sent
    BY <1>8 DEF TypeOK, AckSent, Finish, Fitting
  <2> QED BY <1>8, <2>1, <2>2 DEF TypeOK, Finish, records
<1> QED BY <1>1, <1>2, <1>3, <1>4, <1>5, <1>6, <1>7, <1>8 DEF HookStep

LEMMA GateType ==
  ASSUME TypeOK, Fresh, Awaited, NEW i \in Gate, GateStep(i)
  PROVE  TypeOK'
<1>t. /\ gate[i] \in Record /\ asks \in [Gate -> Nat] /\ raised \in 0..MaxGates
      /\ late \subseteq 1..raised /\ wrote \in [Gate -> Text \cup {None}]
  BY DEF TypeOK
<1>n. gate[i].note \in Text \cup {None} /\ gate[i].spent \in BOOLEAN
  BY <1>t DEF Record
<1>r. ASSUME gate[i].answer # "none" PROVE i \in 1..raised
  BY <1>r, <1>t, GateNat DEF Fresh, Unraised
<1>1. ASSUME NEW d \in Decision, NEW text \in Text \cup {None}, Respond(i, d, text) PROVE TypeOK'
  <2>1. i \in 1..raised
    BY <1>1, <1>r DEF Respond, Pending
  <2>2. (IF text # None THEN text ELSE gate[i].note) \in Text \cup {None}
    BY <1>n
  <2>3. Decide(i, d, "human", IF text # None THEN text ELSE gate[i].note, gate[i].spent)
    BY <1>1 DEF Respond
  <2>4. /\ gate' \in [Gate -> Record] /\ answers' \in [Gate -> Nat]
        /\ saying' \in Message \cup {Silence} /\ sent' = sent /\ unread' = unread /\ cut' = cut
    BY <1>n, <2>2, <2>3, DecideType
  <2>5. wrote' \in [Gate -> Text \cup {None}]
    BY <1>1, WriteType DEF Respond
  <2> QED BY <1>1, <2>4, <2>5 DEF TypeOK, Respond
<1>2. ASSUME NEW text \in Text, AddNote(i, text) PROVE TypeOK'
  <2>1. gate' \in [Gate -> Record]
    <3> DEFINE record == [gate[i] EXCEPT !.note = text]
    <3>1. record \in Record
      BY <1>t, Zenon DEF Record
    <3>2. Put(i, record)
      BY <1>2 DEF AddNote
    <3> HIDE DEF record
    <3> QED BY <3>1, <3>2, PutType
  <2>2. asks' \in [Gate -> Nat]
    BY <1>2, <1>t DEF AddNote
  <2>3. wrote' \in [Gate -> Text \cup {None}]
    BY <1>2, WriteType DEF AddNote
  <2> QED BY <1>2, <2>1, <2>2, <2>3 DEF TypeOK, AddNote, bus
<1>3. ASSUME NEW d \in Decision, Settle(i, d) PROVE TypeOK'
  <2>1. asks' \in [Gate -> Nat]
    BY <1>3, <1>t DEF Settle
  <2>2. CASE Pending(i)
    <3>1. Decide(i, d, "delegate", gate[i].note, gate[i].spent)
      BY <1>3, <2>2 DEF Settle
    <3>2. /\ gate' \in [Gate -> Record] /\ answers' \in [Gate -> Nat]
          /\ saying' \in Message \cup {Silence} /\ sent' = sent /\ unread' = unread /\ cut' = cut
      BY <1>n, <3>1, DecideType
    <3> QED BY <1>3, <2>1, <3>2 DEF TypeOK, Settle
  <2>3. CASE ~Pending(i)
    BY <1>3, <2>1, <2>3 DEF TypeOK, Settle, bus
  <2> QED BY <2>2, <2>3
<1>4. CASE Elapse(i)
  <2>1. late' \subseteq 1..raised
    BY <1>4, <1>r, <1>t DEF Elapse, Pending
  <2> QED BY <1>4, <2>1 DEF TypeOK, Elapse, bus
<1> QED BY <1>1, <1>2, <1>3, <1>4 DEF GateStep

LEMMA TickType ==
  ASSUME TypeOK, NEW t \in Tick, TickStep(t)
  PROVE  TypeOK'
<1>t. /\ tick \in [Tick -> [todo : SUBSET Gate, noted : [Gate -> Text \cup {None}]]] /\ late \subseteq 1..raised
      /\ raised \in 0..MaxGates
  BY DEF TypeOK
<1>1. CASE StartTick(t)
  <2> DEFINE noted == [j \in Gate |-> IF j \in Due THEN gate[j].note ELSE None]
  <2>1. Due \subseteq Gate /\ noted \in [Gate -> Text \cup {None}]
    BY NotedType
  <2>2. tick' = [tick EXCEPT ![t] = [todo |-> Due, noted |-> noted]]
    BY <1>1 DEF StartTick
  <2> HIDE DEF noted
  <2>3. tick' \in [Tick -> [todo : SUBSET Gate, noted : [Gate -> Text \cup {None}]]]
    BY <1>t, <2>1, <2>2
  <2> QED BY <1>1, <2>3 DEF TypeOK, StartTick, records, bus
<1>2. ASSUME NEW i \in Gate, NEW d \in Decision, DecideTick(t, i, d) PROVE TypeOK'
  <2>1. tick[t].noted[i] \in Text \cup {None}
    BY NotedType DEF Inv
  <2>2. Decide(i, d, "delegate", tick[t].noted[i], FALSE)
    BY <1>2 DEF DecideTick
  <2>3. /\ gate' \in [Gate -> Record] /\ answers' \in [Gate -> Nat]
        /\ saying' \in Message \cup {Silence} /\ sent' = sent /\ unread' = unread /\ cut' = cut
    BY <2>1, <2>2, DecideType
  <2>4. tick' \in [Tick -> [todo : SUBSET Gate, noted : [Gate -> Text \cup {None}]]]
    BY <1>2, <1>t DEF DecideTick
  <2> QED BY <1>2, <2>3, <2>4 DEF TypeOK, DecideTick
<1>3. CASE FailTick(t)
  <2>1. tick' \in [Tick -> [todo : SUBSET Gate, noted : [Gate -> Text \cup {None}]]]
    BY <1>3, <1>t DEF FailTick, Done
  <2> QED BY <1>3, <2>1 DEF TypeOK, FailTick, records, bus
<1> QED BY <1>1, <1>2, <1>3 DEF TickStep

\* What becomes of an announcement.
LEMMA SayType ==
  ASSUME TypeOK
  PROVE  /\ saying # Silence /\ sent' = Append(sent, saying) /\ unread' = unread \cup {Len(sent) + 1} =>
              /\ sent' \in Seq(Message) /\ unread' \subseteq DOMAIN sent' /\ heard \subseteq DOMAIN sent'
         /\ CutOff => saying' \in Message \cup {Silence} /\ cut' \subseteq Message
<1>1. ASSUME saying # Silence, sent' = Append(sent, saying), unread' = unread \cup {Len(sent) + 1}
      PROVE  sent' \in Seq(Message) /\ unread' \subseteq DOMAIN sent' /\ heard \subseteq DOMAIN sent'
  <2>1. sent \in Seq(Message) /\ saying \in Message
    BY <1>1 DEF TypeOK
  <2>2. sent' \in Seq(Message) /\ DOMAIN sent' = 1..(Len(sent) + 1) /\ DOMAIN sent = 1..Len(sent) /\ Len(sent) \in Nat
    BY <1>1, <2>1
  <2> QED BY <1>1, <2>2 DEF TypeOK
<1>2. CutOff => saying' \in Message \cup {Silence} /\ cut' \subseteq Message
  BY DEF TypeOK, CutOff
<1> QED BY <1>1, <1>2

LEMMA TypeStep == Inv /\ [Next]_vars => TypeOK'
<1> SUFFICES ASSUME Inv, [Next]_vars PROVE TypeOK'
  OBVIOUS
<1>1. CASE Deliver
  BY <1>1, SayType DEF Inv, TypeOK, Deliver, records
<1>2. CASE FailAnnounce
  BY <1>2, SayType DEF Inv, TypeOK, FailAnnounce, CutOff, records
<1>3. CASE Restart
  BY <1>3, SayType, IdleType DEF Inv, TypeOK, Restart, CutOff, Done, records
<1>4. CASE UNCHANGED vars
  BY <1>4 DEF Inv, TypeOK, vars, records, bus
<1> QED BY <1>1, <1>2, <1>3, <1>4, HookType, GateType, TickType DEF Inv, Next, Step

-------------------------------------------------------------------------------
(* What a step leaves of the records *)

\* Gates are only added, at the end; whose gate it is, on which call, and who
\* owns it never changes, and an answered gate stays answered.
Keeps ==
  /\ raised \in Nat /\ raised' \in Nat /\ raised <= raised' /\ late \subseteq late'
  /\ \A i \in Gate : i > raised' => gate'[i] = gate[i]
  /\ \A i \in 1..raised :
       /\ gate'[i].who = gate[i].who /\ gate'[i].what = gate[i].what
       /\ gate'[i].owner = gate[i].owner
       /\ Resolved(i) => Resolved(i)'

\* The same for a step that writes one record.
LEMMA PutKeeps ==
  ASSUME Inv, NEW i \in 1..raised, raised' = raised, late' = late,
         \A j \in Gate : j # i => gate'[j] = gate[j],
         gate'[i].who = gate[i].who, gate'[i].what = gate[i].what, gate'[i].owner = gate[i].owner,
         gate'[i].answer \in Decision \/ gate'[i].answer = gate[i].answer
  PROVE  Keeps
<1>1. raised \in 0..MaxGates
  BY DEF Inv, TypeOK
<1>2. \A j \in 1..raised : j \in Gate
  BY <1>1, GateNat
<1> QED BY <1>1, <1>2 DEF Keeps, Resolved

LEMMA DecideKeeps ==
  ASSUME Inv, NEW i \in 1..raised, NEW d \in Decision, NEW by \in {"human", "delegate"},
         NEW note \in Text \cup {None}, NEW spent \in BOOLEAN, Decide(i, d, by, note, spent),
         raised' = raised, late' = late
  PROVE  Keeps
<1>0. TypeOK
  BY DEF Inv
<1>i. i \in Gate
  BY <1>0, GateNat DEF TypeOK
<1>1. gate[i] \in Record
  BY <1>0, <1>i DEF TypeOK
<1>2. gate' = [gate EXCEPT ![i] = [gate[i] EXCEPT !.answer = d, !.by = by, !.note = note, !.spent = spent]]
  BY DEF Decide, Put
<1>3. \A j \in Gate : j # i => gate'[j] = gate[j]
  BY <1>0, <1>i, <1>2 DEF TypeOK
<1>5. gate'[i] = [gate[i] EXCEPT !.answer = d, !.by = by, !.note = note, !.spent = spent]
  BY <1>0, <1>i, <1>2, Zenon DEF TypeOK
<1>4. /\ gate'[i].who = gate[i].who /\ gate'[i].what = gate[i].what
      /\ gate'[i].owner = gate[i].owner /\ gate'[i].answer = d
  BY <1>1, <1>5 DEF Record
<1> QED BY <1>3, <1>4, PutKeeps

\* A step that writes no record.
LEMMA QuietKeeps ==
  ASSUME Inv, UNCHANGED <<gate, raised>>, late \subseteq late'
  PROVE  Keeps
BY DEF Inv, TypeOK, Keeps, Resolved

LEMMA StepKeeps == Inv /\ [Next]_vars => Keeps
<1> SUFFICES ASSUME Inv, [Next]_vars PROVE Keeps
  OBVIOUS
<1>t. /\ gate \in [Gate -> Record] /\ hook \in [Hook -> Attempt] /\ raised \in 0..MaxGates
  BY DEF Inv, TypeOK
<1>1. ASSUME NEW h \in Hook, HookStep(h) PROVE Keeps
  <2>1. CASE Spend(h)
    <3> DEFINE i == hook[h].yes
    <3>1. i \in 1..raised /\ i \in Gate
      BY <2>1, <1>t, GateNat DEF Inv, Chosen, ChosenBy, Spend
    <3>2. [gate[i] EXCEPT !.spent = TRUE] \in Record
      <4>1. gate[i] \in Record
        BY <1>t, <3>1
      <4> QED BY <4>1, Zenon DEF Record
    <3>3. gate'[i] = [gate[i] EXCEPT !.spent = TRUE] /\ \A j \in Gate : j # i => gate'[j] = gate[j]
      BY <2>1, <3>1, <3>2, PutType DEF Inv, Spend
    <3>4. /\ gate'[i].who = gate[i].who /\ gate'[i].what = gate[i].what
          /\ gate'[i].owner = gate[i].owner /\ gate'[i].answer = gate[i].answer
      BY <1>t, <3>1, <3>3 DEF Record
    <3> QED BY <2>1, <3>1, <3>3, <3>4, PutKeeps DEF Spend
  <2>2. ASSUME NEW p \in {"human", "human_timeout"}, NEW q \in BOOLEAN, Raise(h, p, q) PROVE Keeps
    <3>1. raised + 1 \in Gate /\ raised' = raised + 1 /\ late' = late
      BY <2>2, <1>t, GateNat DEF Raise
    <3>2. \A j \in Gate : j # raised + 1 => gate'[j] = gate[j]
      BY <2>2, <1>t, <3>1, GateNat DEF Raise, Put
    <3> QED BY <1>t, <3>1, <3>2, GateNat DEF Keeps, Resolved
  <2>3. CASE UNCHANGED <<gate, raised, late>>
    BY <2>3, QuietKeeps
  <2> QED BY <1>1, <2>1, <2>2, <2>3
          DEF HookStep, Begin, Classify, Match, SpentAlready, Reuse, Finish, records
<1>2. ASSUME NEW i \in Gate, GateStep(i) PROVE Keeps
  <2>n. gate[i].note \in Text \cup {None} /\ gate[i].spent \in BOOLEAN
    BY <1>t DEF Record
  <2>r. Pending(i) => i \in 1..raised
    BY <1>t, GateNat DEF Inv, Fresh, Unraised, Pending
  <2>1. ASSUME NEW d \in Decision, NEW text \in Text \cup {None}, Respond(i, d, text) PROVE Keeps
    <3>1. (IF text # None THEN text ELSE gate[i].note) \in Text \cup {None}
      BY <2>n
    <3> QED BY <2>1, <2>n, <2>r, <3>1, DecideKeeps DEF Respond
  <2>2. ASSUME NEW text \in Text, AddNote(i, text) PROVE Keeps
    <3>1. [gate[i] EXCEPT !.note = text] \in Record
      <4>1. gate[i] \in Record
        BY <1>t
      <4> QED BY <4>1, Zenon DEF Record
    <3>2. gate'[i] = [gate[i] EXCEPT !.note = text] /\ \A j \in Gate : j # i => gate'[j] = gate[j]
      BY <2>2, <3>1, PutType DEF Inv, AddNote
    <3>3. /\ gate'[i].who = gate[i].who /\ gate'[i].what = gate[i].what
          /\ gate'[i].owner = gate[i].owner /\ gate'[i].answer = gate[i].answer
      BY <1>t, <3>2 DEF Record
    <3> QED BY <2>2, <2>r, <3>2, <3>3, PutKeeps DEF AddNote
  <2>3. ASSUME NEW d \in Decision, Settle(i, d) PROVE Keeps
    <3>1. CASE Pending(i)
      BY <2>3, <2>n, <2>r, <3>1, DecideKeeps DEF Settle
    <3>2. CASE ~Pending(i)
      BY <2>3, <3>2, QuietKeeps DEF Settle
    <3> QED BY <3>1, <3>2
  <2>4. CASE Elapse(i)
    BY <2>4, QuietKeeps DEF Elapse
  <2> QED BY <1>2, <2>1, <2>2, <2>3, <2>4 DEF GateStep
<1>3. ASSUME NEW t \in Tick, TickStep(t) PROVE Keeps
  <2>1. ASSUME NEW i \in Gate, NEW d \in Decision, DecideTick(t, i, d) PROVE Keeps
    <3>1. tick[t].noted[i] \in Text \cup {None}
      BY NotedType DEF Inv
    <3>2. i \in 1..raised
      BY <2>1 DEF Inv, TypeOK, Awaited, DecideTick
    <3> QED BY <2>1, <3>1, <3>2, DecideKeeps DEF DecideTick
  <2>2. CASE UNCHANGED <<gate, raised, late>>
    BY <2>2, QuietKeeps
  <2> QED BY <1>3, <2>1, <2>2 DEF TickStep, StartTick, FailTick, records
<1>4. CASE Deliver \/ FailAnnounce \/ Restart \/ UNCHANGED vars
  BY <1>4, QuietKeeps DEF Deliver, FailAnnounce, CutOff, Restart, vars, records
<1> QED BY <1>1, <1>2, <1>3, <1>4 DEF Next, Step

-------------------------------------------------------------------------------
(* The invariant is kept *)

LEMMA FreshStep == Inv /\ Keeps => Fresh'
BY GateNat DEF Inv, TypeOK, Fresh, Keeps

\* What the steps of hooks do to the locals of each of them.
HookMoves ==
  \A k \in Hook :
    \/ hook'[k].ack = hook[k].ack /\ hook'[k].who = hook[k].who /\ hook'[k].what = hook[k].what
    \/ /\ hook'[k].ack = {} \/ \E s \in Session : hook'[k].ack = Inbox(s)
       /\ hook'[k].used = 0 /\ hook'[k].pc # "spend"

LEMMA SameMoves ==
  ASSUME hook \in [Hook -> Attempt], NEW h \in Hook, NEW locals, Go(h, locals),
         locals.ack = hook[h].ack, locals.who = hook[h].who, locals.what = hook[h].what
  PROVE  HookMoves
BY DEF Go, HookMoves

LEMMA GoMoves ==
  ASSUME Inv, NEW h \in Hook, HookStep(h)
  PROVE  HookMoves
<1>t. hook \in [Hook -> Attempt]
  BY DEF Inv, TypeOK
<1>1. ASSUME NEW s \in Session, NEW c \in Call, NEW v \in Verdict, NEW channel \in BOOLEAN,
             Begin(h, s, c, v, channel)
      PROVE  HookMoves
  <2> DEFINE polled == IF channel THEN Inbox(s) ELSE {}
  <2>1. polled = {} \/ \E s2 \in Session : polled = Inbox(s2)
    OBVIOUS
  <2>2. /\ \A k \in Hook : k # h => hook'[k] = hook[k]
        /\ hook'[h].ack = polled /\ hook'[h].used = 0
        /\ hook'[h].pc \in {"match", "classify", "finish"}
    BY <1>1, <1>t DEF Begin, Go, Idle, Verdict
  <2> QED BY <2>1, <2>2 DEF HookMoves
<1>2. CASE Finish(h)
  BY <1>2, <1>t DEF Finish, Go, Idle, HookMoves
<1>3. CASE ~\E s \in Session, c \in Call, v \in Verdict, channel \in BOOLEAN :
             Begin(h, s, c, v, channel)
  <2>1. CASE Finish(h)
    BY <1>2, <2>1
  <2>2. CASE ~Finish(h)
    <3>t. hook[h] \in Attempt
      BY <1>t
    <3>1. ASSUME NEW band \in {"allow", "deny", "route"}, Classify(h, band) PROVE HookMoves
      <4> DEFINE locals == [hook[h] EXCEPT !.tier = "classifier",
                           !.pc = IF band = "route" THEN "match" ELSE "finish",
                           !.verdict = IF band = "deny" THEN "deny" ELSE @]
      <4>1. Go(h, locals)
        BY <3>1 DEF Classify
      <4>2. locals.ack = hook[h].ack /\ locals.who = hook[h].who /\ locals.what = hook[h].what
        BY <3>t DEF Attempt
      <4> HIDE DEF locals
      <4> QED BY <4>1, <4>2, <1>t, SameMoves
    <3>2. ASSUME NEW i \in Gate, Match(h, i) PROVE HookMoves
      <4> DEFINE locals == [hook[h] EXCEPT !.pc = "spend", !.yes = i, !.otherwise = Reading(h)]
      <4>1. Go(h, locals)
        BY <3>2 DEF Match
      <4>2. locals.ack = hook[h].ack /\ locals.who = hook[h].who /\ locals.what = hook[h].what
        BY <3>t DEF Attempt
      <4> HIDE DEF locals
      <4> QED BY <4>1, <4>2, <1>t, SameMoves
    <3>3. ASSUME Spend(h) PROVE HookMoves
      <4> DEFINE locals == [hook[h] EXCEPT !.used = hook[h].yes, !.verdict = "allow", !.yes = 0,
                           !.otherwise = "raise",
                           !.pc = IF hook[h].tier = "policy" THEN "classify" ELSE "finish"]
      <4>1. Go(h, locals)
        BY <3>3 DEF Spend
      <4>2. locals.ack = hook[h].ack /\ locals.who = hook[h].who /\ locals.what = hook[h].what
        BY <3>t DEF Attempt
      <4> HIDE DEF locals
      <4> QED BY <4>1, <4>2, <1>t, SameMoves
    <3>4. ASSUME SpentAlready(h) PROVE HookMoves
      <4> DEFINE locals == [hook[h] EXCEPT !.pc = "place", !.yes = 0]
      <4>1. Go(h, locals)
        BY <3>4 DEF SpentAlready
      <4>2. locals.ack = hook[h].ack /\ locals.who = hook[h].who /\ locals.what = hook[h].what
        BY <3>t DEF Attempt
      <4> HIDE DEF locals
      <4> QED BY <4>1, <4>2, <1>t, SameMoves
    <3>5. ASSUME Reuse(h) PROVE HookMoves
      <4> DEFINE locals == [hook[h] EXCEPT !.verdict = "deny", !.pc = "finish", !.otherwise = "raise"]
      <4>1. Go(h, locals)
        BY <3>5 DEF Reuse
      <4>2. locals.ack = hook[h].ack /\ locals.who = hook[h].who /\ locals.what = hook[h].what
        BY <3>t DEF Attempt
      <4> HIDE DEF locals
      <4> QED BY <4>1, <4>2, <1>t, SameMoves
    <3>6. ASSUME NEW p \in {"human", "human_timeout"}, NEW q \in BOOLEAN, Raise(h, p, q) PROVE HookMoves
      <4> DEFINE locals == [hook[h] EXCEPT !.verdict = "deny", !.pc = "finish", !.otherwise = "raise"]
      <4>1. Go(h, locals)
        BY <3>6 DEF Raise
      <4>2. locals.ack = hook[h].ack /\ locals.who = hook[h].who /\ locals.what = hook[h].what
        BY <3>t DEF Attempt
      <4> HIDE DEF locals
      <4> QED BY <4>1, <4>2, <1>t, SameMoves
    <3> QED BY <1>3, <2>2, <3>1, <3>2, <3>3, <3>4, <3>5, <3>6 DEF HookStep
  <2> QED BY <2>1, <2>2
<1> QED BY <1>1, <1>3

\* Every step but a hook's leaves the hooks alone, or ends them all.
LEMMA OtherHooks ==
  ASSUME Inv, [Next]_vars, \A h \in Hook : ~HookStep(h)
  PROVE  hook' = hook \/ hook' = [h \in Hook |-> Idle]
BY DEF Next, Step, GateStep, Respond, AddNote, Settle, Elapse, TickStep, StartTick, DecideTick, FailTick,
       Deliver, FailAnnounce, CutOff, Restart, vars

\* Messages stay sent.
LEMMA SentGrows ==
  ASSUME Inv, [Next]_vars
  PROVE  DOMAIN sent \subseteq DOMAIN sent'
<1>t. sent \in Seq(Message) /\ saying \in Message \cup {Silence}
  BY DEF Inv, TypeOK
<1>1. CASE Deliver
  BY <1>t, <1>1 DEF Deliver
<1>2. CASE sent' = sent
  BY <1>2
<1> QED BY <1>1, <1>2
        DEF Next, Step, HookStep, Begin, Classify, Match, Spend, SpentAlready, Reuse, Raise, Finish,
            GateStep, Respond, AddNote, Settle, Elapse, Decide, TickStep, StartTick, DecideTick,
            FailTick, FailAnnounce, CutOff, Restart, vars, bus

LEMMA AckSentStep == Inv /\ [Next]_vars => AckSent'
<1> SUFFICES ASSUME Inv, [Next]_vars, NEW k \in Hook PROVE hook'[k].ack \subseteq DOMAIN sent'
  BY DEF AckSent
<1>1. hook[k].ack \subseteq DOMAIN sent /\ unread \subseteq DOMAIN sent
  BY DEF Inv, AckSent, TypeOK
<1>2. DOMAIN sent \subseteq DOMAIN sent'
  BY SentGrows
<1>3. ASSUME NEW h \in Hook, HookStep(h) PROVE hook'[k].ack \subseteq DOMAIN sent'
  <2>1. HookMoves
    BY <1>3, GoMoves
  <2> QED BY <1>1, <1>2, <2>1 DEF HookMoves, Inbox
<1>4. CASE hook' = hook \/ hook' = [h \in Hook |-> Idle]
  BY <1>1, <1>2, <1>4 DEF Idle
<1> QED BY <1>3, <1>4, OtherHooks

\* An attempt that fits its gate before a step fits it after.
LEMMA ChosenKept ==
  ASSUME Keeps, NEW r, ChosenBy(r)
  PROVE  ChosenBy(r)'
<1>1. 1..raised \subseteq 1..raised'
  BY DEF Keeps
<1>2. ASSUME NEW i \in 1..raised PROVE gate'[i].who = gate[i].who /\ gate'[i].what = gate[i].what
  BY <1>2 DEF Keeps
<1>3. ASSUME NEW i \in 1..raised, Resolved(i) PROVE Resolved(i)'
  BY <1>3 DEF Keeps
<1>4. CASE r.pc = "spend"
  <2>1. Resolved(r.yes)'
    BY <1>3, <1>4 DEF ChosenBy
  <2> QED BY <1>1, <1>2, <1>4, <2>1 DEF ChosenBy
<1>5. CASE r.pc # "spend"
  BY <1>1, <1>2, <1>5 DEF ChosenBy
<1> QED BY <1>4, <1>5

\* The locals a step of a hook leaves fit the gates it found.
LEMMA ChosenByHook ==
  ASSUME Inv, NEW h \in Hook, HookStep(h)
  PROVE  \E locals : Go(h, locals) /\ ChosenBy(locals)
<1>t. hook[h] \in Attempt
  BY DEF Inv, TypeOK
<1>c. ChosenBy(hook[h])
  BY DEF Inv, Chosen
\* Locals that name no new gate.
<1>n. ASSUME NEW r, r.who = hook[h].who, r.what = hook[h].what, r.used = hook[h].used, r.pc # "spend"
      PROVE  ChosenBy(r)
  BY <1>c, <1>n DEF ChosenBy
<1>1. ASSUME NEW s \in Session, NEW c \in Call, NEW v \in Verdict, NEW channel \in BOOLEAN,
             Begin(h, s, c, v, channel)
      PROVE  \E locals : Go(h, locals) /\ ChosenBy(locals)
  <2> DEFINE polled == IF channel THEN Inbox(s) ELSE {}
             where == CASE v = "ask" -> "match" [] v = "allow" -> "classify" [] v = "deny" -> "finish"
             locals == [Idle EXCEPT !.who = s, !.what = c, !.verdict = v, !.ack = polled, !.pc = where]
  <2>1. Go(h, locals)
    BY <1>1 DEF Begin
  <2>2. locals.used = 0 /\ locals.pc # "spend"
    BY DEF Idle, Verdict
  <2>3. ChosenBy(locals)
    BY <2>2 DEF ChosenBy
  <2> QED BY <2>1, <2>3
<1>2. ASSUME NEW band \in {"allow", "deny", "route"}, Classify(h, band)
      PROVE  \E locals : Go(h, locals) /\ ChosenBy(locals)
  <2> DEFINE locals == [hook[h] EXCEPT !.tier = "classifier",
                          !.pc = IF band = "route" THEN "match" ELSE "finish",
                          !.verdict = IF band = "deny" THEN "deny" ELSE @]
  <2>1. Go(h, locals)
    BY <1>2 DEF Classify
  <2>2. /\ locals.who = hook[h].who /\ locals.what = hook[h].what /\ locals.used = hook[h].used
        /\ locals.pc # "spend"
    BY <1>t DEF Attempt
  <2> HIDE DEF locals
  <2> QED BY <1>n, <2>1, <2>2
<1>3. ASSUME NEW i \in Gate, Match(h, i) PROVE \E locals : Go(h, locals) /\ ChosenBy(locals)
  <2> DEFINE locals == [hook[h] EXCEPT !.pc = "spend", !.yes = i, !.otherwise = Reading(h)]
  <2>1. Go(h, locals)
    BY <1>3 DEF Match
  <2>2. /\ locals.who = hook[h].who /\ locals.what = hook[h].what /\ locals.used = hook[h].used
        /\ locals.yes = i
    BY <1>t DEF Attempt
  <2>3. i \in 1..raised /\ Resolved(i) /\ gate[i].who = hook[h].who /\ gate[i].what = hook[h].what
    BY <1>3 DEF Match, Approvals, Matching, Resolved, Decision
  <2> HIDE DEF locals
  <2>4. ChosenBy(locals)
    BY <1>c, <2>2, <2>3 DEF ChosenBy
  <2> QED BY <2>1, <2>4
<1>4. CASE Spend(h)
  <2> DEFINE locals == [hook[h] EXCEPT !.used = hook[h].yes, !.verdict = "allow", !.yes = 0,
                           !.otherwise = "raise",
                           !.pc = IF hook[h].tier = "policy" THEN "classify" ELSE "finish"]
  <2>1. Go(h, locals) /\ hook[h].pc = "spend"
    BY <1>4 DEF Spend
  <2>2. /\ locals.who = hook[h].who /\ locals.what = hook[h].what /\ locals.used = hook[h].yes
        /\ locals.pc # "spend"
    BY <1>t DEF Attempt
  <2> HIDE DEF locals
  <2>3. ChosenBy(locals)
    BY <1>c, <2>1, <2>2 DEF ChosenBy
  <2> QED BY <2>1, <2>3
<1>5. CASE SpentAlready(h)
  <2> DEFINE locals == [hook[h] EXCEPT !.pc = "place", !.yes = 0]
  <2>1. Go(h, locals)
    BY <1>5 DEF SpentAlready
  <2>2. /\ locals.who = hook[h].who /\ locals.what = hook[h].what /\ locals.used = hook[h].used
        /\ locals.pc # "spend"
    BY <1>t DEF Attempt
  <2> HIDE DEF locals
  <2> QED BY <1>n, <2>1, <2>2
<1>6. CASE Reuse(h) \/ \E p \in {"human", "human_timeout"}, q \in BOOLEAN : Raise(h, p, q)
  <2> DEFINE locals == [hook[h] EXCEPT !.verdict = "deny", !.pc = "finish", !.otherwise = "raise"]
  <2>1. Go(h, locals)
    BY <1>6 DEF Reuse, Raise
  <2>2. /\ locals.who = hook[h].who /\ locals.what = hook[h].what /\ locals.used = hook[h].used
        /\ locals.pc # "spend"
    BY <1>t DEF Attempt
  <2> HIDE DEF locals
  <2> QED BY <1>n, <2>1, <2>2
<1>7. CASE Finish(h)
  <2>1. Go(h, Idle)
    BY <1>7 DEF Finish
  <2>2. ChosenBy(Idle)
    BY DEF ChosenBy, Idle
  <2> QED BY <2>1, <2>2
<1> QED BY <1>1, <1>2, <1>3, <1>4, <1>5, <1>6, <1>7 DEF HookStep

LEMMA ChosenStep == Inv /\ [Next]_vars => Chosen'
<1> SUFFICES ASSUME Inv, [Next]_vars PROVE Chosen'
  OBVIOUS
<1>k. Keeps
  BY StepKeeps
<1>t. hook \in [Hook -> Attempt]
  BY DEF Inv, TypeOK
<1>c. \A k \in Hook : ChosenBy(hook[k])
  BY DEF Inv, Chosen
\* The hooks' locals after the step fit the gates before it.
<1>1. ASSUME NEW k \in Hook PROVE \E r : r = hook'[k] /\ ChosenBy(r)
  <2>1. ASSUME NEW h \in Hook, HookStep(h) PROVE ChosenBy(hook'[k])
    <3>1. PICK locals : Go(h, locals) /\ ChosenBy(locals)
      BY <2>1, ChosenByHook
    <3>2. CASE k = h
      BY <1>t, <3>1, <3>2 DEF Go
    <3>3. CASE k # h
      BY <1>t, <1>c, <3>1, <3>3 DEF Go
    <3> QED BY <3>2, <3>3
  <2>2. CASE hook' = hook
    BY <1>c, <2>2
  <2>3. CASE hook' = [h \in Hook |-> Idle]
    <3>1. ChosenBy(Idle)
      BY DEF ChosenBy, Idle
    <3> QED BY <2>3, <3>1
  <2> QED BY <2>1, <2>2, <2>3, OtherHooks
<1>2. ASSUME NEW k \in Hook PROVE ChosenBy(hook[k])'
  <2>1. PICK r : r = hook'[k] /\ ChosenBy(r)
    BY <1>1
  <2>2. ChosenBy(r)'
    BY <1>k, <2>1, ChosenKept
  <2> QED BY <2>1, <2>2 DEF ChosenBy, Resolved
<1> QED BY <1>2 DEF Chosen

\* A step that writes no answer and lets nothing through.
LEMMA CreditKept ==
  ASSUME Inv, UNCHANGED <<uses, answers>>,
         \A j \in Gate : gate'[j] = gate[j] \/ gate'[j].answer \notin Decision
  PROVE  Credit'
BY DEF Inv, Credit, Resolved

LEMMA DecideCredit ==
  ASSUME Inv, NEW i \in Gate, NEW d \in Decision, NEW by \in {"human", "delegate"},
         NEW note \in Text \cup {None}, NEW spent \in BOOLEAN, Decide(i, d, by, note, spent), uses' = uses
  PROVE  Credit'
<1>1. \A j \in Gate : j # i => gate'[j] = gate[j]
  BY DEF Inv, TypeOK, Decide, Put
<1>2. answers' = [answers EXCEPT ![i] = @ + 1] /\ answers \in [Gate -> Nat] /\ uses \in [Gate -> Nat]
  BY DEF Inv, TypeOK, Decide
<1> QED BY <1>1, <1>2 DEF Inv, Credit, Resolved

LEMMA CreditStep == Inv /\ [Next]_vars => Credit'
<1> SUFFICES ASSUME Inv, [Next]_vars PROVE Credit'
  OBVIOUS
<1>t. /\ gate \in [Gate -> Record] /\ raised \in 0..MaxGates /\ uses \in [Gate -> Nat]
      /\ answers \in [Gate -> Nat]
  BY DEF Inv, TypeOK
<1>n. \A i \in Gate : gate[i].note \in Text \cup {None} /\ gate[i].spent \in BOOLEAN
  BY <1>t DEF Record
<1>1. ASSUME NEW h \in Hook, HookStep(h) PROVE Credit'
  <2>1. CASE Spend(h)
    <3> DEFINE i == hook[h].yes
    <3>1. i \in Gate /\ Resolved(i) /\ ~gate[i].spent
      BY <2>1, <1>t, GateNat DEF Inv, Chosen, ChosenBy, Spend
    <3>2. uses[i] < answers[i]
      BY <3>1 DEF Inv, Credit
    <3>3. gate[i] \in Record
      BY <1>t, <3>1
    <3>4. [gate[i] EXCEPT !.spent = TRUE] \in Record
      BY <3>3, Zenon DEF Record
    <3>5. gate'[i] = [gate[i] EXCEPT !.spent = TRUE] /\ \A j \in Gate : j # i => gate'[j] = gate[j]
      BY <2>1, <3>1, <3>4, PutType DEF Inv, Spend
    <3>6. gate'[i].spent
      BY <3>3, <3>5 DEF Record
    <3>7. uses' = [uses EXCEPT ![i] = @ + 1] /\ answers' = answers
      BY <2>1 DEF Spend
    <3> HIDE DEF i
    <3>8. ASSUME NEW j \in Gate
          PROVE  uses'[j] <= answers'[j] /\ (Resolved(j)' /\ ~gate'[j].spent => uses'[j] < answers'[j])
      <4>1. CASE j = i
        BY <1>t, <3>1, <3>2, <3>6, <3>7, <4>1
      <4>2. CASE j # i
        BY <1>t, <3>5, <3>7, <4>2 DEF Inv, Credit, Resolved
      <4> QED BY <4>1, <4>2
    <3> QED BY <3>8 DEF Credit
  <2>2. ASSUME NEW p \in {"human", "human_timeout"}, NEW q \in BOOLEAN, Raise(h, p, q) PROVE Credit'
    <3> DEFINE record == [Unraised EXCEPT !.who = hook[h].who, !.what = hook[h].what,
                            !.answer = "pending", !.owner = IF q THEN "human" ELSE p]
    <3>1. record.answer \notin Decision
      BY DEF Unraised, Decision
    <3>2. Put(raised + 1, record) /\ UNCHANGED <<uses, answers>>
      BY <2>2 DEF Raise
    <3> HIDE DEF record
    <3>3. \A j \in Gate : gate'[j] = gate[j] \/ gate'[j] = record
      BY <1>t, <3>2 DEF Put
    <3> QED BY <3>1, <3>2, <3>3, CreditKept
  <2>3. CASE UNCHANGED <<gate, uses, answers>>
    BY <2>3, CreditKept
  <2> QED BY <1>1, <2>1, <2>2, <2>3
          DEF HookStep, Begin, Classify, Match, SpentAlready, Reuse, Finish, records
<1>2. ASSUME NEW i \in Gate, GateStep(i) PROVE Credit'
  <2>1. ASSUME NEW d \in Decision, NEW text \in Text \cup {None}, Respond(i, d, text) PROVE Credit'
    <3>1. (IF text # None THEN text ELSE gate[i].note) \in Text \cup {None}
      BY <1>n
    <3> QED BY <2>1, <1>n, <3>1, DecideCredit DEF Respond
  <2>2. ASSUME NEW text \in Text, AddNote(i, text) PROVE Credit'
    <3>1. gate[i] \in Record /\ gate[i].answer = "pending"
      BY <1>t, <2>2 DEF AddNote, Pending
    <3>2. [gate[i] EXCEPT !.note = text] \in Record
      BY <3>1, Zenon DEF Record
    <3>3. gate'[i] = [gate[i] EXCEPT !.note = text] /\ \A j \in Gate : j # i => gate'[j] = gate[j]
      BY <2>2, <3>2, PutType DEF Inv, AddNote
    <3>4. gate'[i].answer \notin Decision
      BY <3>1, <3>3 DEF Record, Decision
    <3> QED BY <2>2, <3>3, <3>4, CreditKept DEF AddNote
  <2>3. ASSUME NEW d \in Decision, Settle(i, d) PROVE Credit'
    <3>1. CASE Pending(i)
      BY <2>3, <1>n, <3>1, DecideCredit DEF Settle
    <3>2. CASE ~Pending(i)
      BY <2>3, <3>2, CreditKept DEF Settle
    <3> QED BY <3>1, <3>2
  <2>4. CASE Elapse(i)
    BY <2>4, CreditKept DEF Elapse
  <2> QED BY <1>2, <2>1, <2>2, <2>3, <2>4 DEF GateStep
<1>3. ASSUME NEW t \in Tick, TickStep(t) PROVE Credit'
  <2>1. ASSUME NEW i \in Gate, NEW d \in Decision, DecideTick(t, i, d) PROVE Credit'
    <3>1. tick[t].noted[i] \in Text \cup {None}
      BY NotedType DEF Inv
    <3> QED BY <2>1, <3>1, DecideCredit DEF DecideTick
  <2>2. CASE UNCHANGED <<gate, uses, answers>>
    BY <2>2, CreditKept
  <2> QED BY <1>3, <2>1, <2>2 DEF TickStep, StartTick, FailTick, records
<1>4. CASE Deliver \/ FailAnnounce \/ Restart \/ UNCHANGED vars
  BY <1>4, CreditKept DEF Deliver, FailAnnounce, CutOff, Restart, vars, records
<1> QED BY <1>1, <1>2, <1>3, <1>4 DEF Next, Step

\* Whether there is a delegate is settled when the daemon is started; what a
\* human wrote stays written.
LEMMA FrameStep ==
  ASSUME Inv, [Next]_vars
  PROVE  delegate' = delegate /\ Written \subseteq Written'
<1>1. delegate' = delegate
  BY DEF Next, Step, HookStep, Begin, Classify, Match, Spend, SpentAlready, Reuse, Raise, Finish,
         GateStep, Respond, AddNote, Settle, Elapse, TickStep, StartTick, DecideTick, FailTick,
         Deliver, FailAnnounce, Restart, vars
<1>2. ASSUME NEW i \in Gate, NEW text \in Text \cup {None}, Write(i, text)
      PROVE  Written \subseteq Written'
  BY <1>2, WriteType DEF Inv
<1>3. wrote' = wrote => Written' = Written
  BY DEF Written
<1>4. ASSUME NEW i \in Gate, GateStep(i) PROVE Written \subseteq Written'
  BY <1>2, <1>3, <1>4 DEF GateStep, Respond, AddNote, Settle, Elapse
<1>5. CASE wrote' = wrote
  BY <1>1, <1>3, <1>5
<1> QED BY <1>1, <1>4, <1>5
        DEF Next, Step, HookStep, Begin, Classify, Match, Spend, SpentAlready, Reuse, Raise, Finish,
            TickStep, StartTick, DecideTick, FailTick, Deliver, FailAnnounce, Restart, vars

\* A step that does not begin to wait for the delegate.
LEMMA AwaitedKept ==
  ASSUME Inv, Keeps, delegate' = delegate, Written \subseteq Written',
         \A t \in Tick : tick'[t].todo \subseteq tick[t].todo,
         \A i \in Gate : asks'[i] > 0 => asks[i] > 0
  PROVE  Awaited'
<1>1. ASSUME NEW i \in late PROVE i \in 1..raised /\ i \in late' /\ gate'[i].owner = gate[i].owner
  BY <1>1 DEF Inv, TypeOK, Keeps
<1>2. \A t \in Tick : \A i \in tick'[t].todo : delegate' /\ i \in late' /\ gate'[i].owner = "human_timeout"
  BY <1>1 DEF Inv, Awaited
<1>3. ASSUME NEW i \in Gate, asks'[i] > 0 PROVE delegate' /\ i \in Written' /\ i <= raised'
  BY <1>3, GateNat DEF Inv, Awaited, Keeps
<1> QED BY <1>2, <1>3 DEF Awaited

LEMMA AwaitedStep == Inv /\ [Next]_vars => Awaited'
<1> SUFFICES ASSUME Inv, [Next]_vars PROVE Awaited'
  OBVIOUS
<1>t. /\ tick \in [Tick -> [todo : SUBSET Gate, noted : [Gate -> Text \cup {None}]]] /\ asks \in [Gate -> Nat]
      /\ late \subseteq 1..raised /\ raised \in 0..MaxGates
  BY DEF Inv, TypeOK
<1>k. Keeps /\ delegate' = delegate /\ Written \subseteq Written'
  BY StepKeeps, FrameStep
<1>s. CASE UNCHANGED <<tick, asks>>
  BY <1>s, <1>k, AwaitedKept
<1>1. ASSUME NEW t \in Tick, StartTick(t) PROVE Awaited'
  <2>1. delegate /\ tick' = [tick EXCEPT ![t] = [todo |-> Due, noted |-> [j \in Gate |-> IF j \in Due THEN gate[j].note ELSE None]]]
    BY <1>1 DEF StartTick
  <2>2. gate' = gate /\ late' = late /\ asks' = asks
    BY <1>1 DEF StartTick, records
  <2>3. \A i \in Due : i \in late /\ gate[i].owner = "human_timeout"
    BY DEF Due
  <2>4. ASSUME NEW k \in Tick, NEW i \in tick'[k].todo
        PROVE  delegate' /\ i \in late' /\ gate'[i].owner = "human_timeout"
    <3>1. CASE k = t
      BY <1>t, <1>k, <2>1, <2>2, <2>3, <3>1
    <3>2. CASE k # t
      BY <1>t, <1>k, <2>1, <2>2, <3>2 DEF Inv, Awaited
    <3> QED BY <3>1, <3>2
  <2>5. ASSUME NEW i \in Gate, asks'[i] > 0 PROVE delegate' /\ i \in Written' /\ i <= raised'
    BY <1>k, <2>2, <2>5, GateNat DEF Inv, Awaited, Keeps
  <2> QED BY <2>4, <2>5 DEF Awaited
<1>2. ASSUME NEW t \in Tick, NEW i \in Gate, NEW d \in Decision, DecideTick(t, i, d) PROVE Awaited'
  BY <1>2, <1>t, <1>k, AwaitedKept DEF DecideTick
<1>3. ASSUME NEW t \in Tick, FailTick(t) PROVE Awaited'
  BY <1>3, <1>t, <1>k, AwaitedKept DEF FailTick, Done
<1>4. ASSUME NEW i \in Gate, NEW text \in Text, AddNote(i, text) PROVE Awaited'
  <2>w. i \in Written'
    <3>1. wrote' = [wrote EXCEPT ![i] = text] /\ wrote \in [Gate -> Text \cup {None}] /\ text # None
      BY <1>4, GatesAssumption DEF Inv, TypeOK, AddNote, Write
    <3> QED BY <3>1 DEF Written
  <2>1. i \in 1..raised /\ i \in Written' /\ tick' = tick
    BY <1>4, <1>t, <2>w, GateNat DEF Inv, Fresh, Unraised, Pending, AddNote
  <2>2. \A j \in Gate : asks'[j] > 0 => asks[j] > 0 \/ (j = i /\ delegate)
    BY <1>4, <1>t DEF AddNote
  <2>3. ASSUME NEW j \in Gate, asks'[j] > 0 PROVE delegate' /\ j \in Written' /\ j <= raised'
    BY <1>k, <1>t, <2>1, <2>2, <2>3, GateNat DEF Inv, Awaited, Keeps
  <2>4. ASSUME NEW k \in Tick, NEW j \in tick'[k].todo
        PROVE  delegate' /\ j \in late' /\ gate'[j].owner = "human_timeout"
    BY <1>k, <1>t, <2>1, <2>4 DEF Inv, Awaited, Keeps
  <2> QED BY <2>3, <2>4 DEF Awaited
<1>5. ASSUME NEW i \in Gate, NEW d \in Decision, Settle(i, d) PROVE Awaited'
  BY <1>5, <1>t, <1>k, AwaitedKept DEF Settle
<1>6. CASE Restart
  <2>1. \A t \in Tick : tick'[t].todo = {}
    BY <1>6 DEF Restart, Done
  <2>2. \A i \in Gate : asks'[i] = 0
    BY <1>6 DEF Restart
  <2> QED BY <1>k, <2>1, <2>2, AwaitedKept
<1> QED BY <1>s, <1>1, <1>2, <1>3, <1>4, <1>5, <1>6
        DEF Next, Step, HookStep, Begin, Classify, Match, Spend, SpentAlready, Reuse, Raise, Finish,
            GateStep, Respond, Elapse, TickStep, Deliver, FailAnnounce, CutOff, vars

\* A step that makes no decision of the delegate's but one that is due.
LEMMA DelegateKept ==
  ASSUME Inv, Keeps, delegate' = delegate, Written \subseteq Written',
         \A i \in Gate : gate'[i].by = "delegate" =>
           \/ gate[i].by = "delegate"
           \/ delegate /\ (i \in Written \/ (i \in late /\ gate[i].owner = "human_timeout"))
  PROVE  DelegateWhenDue'
<1>1. ASSUME NEW i \in late PROVE i \in late' /\ gate'[i].owner = gate[i].owner
  BY <1>1 DEF Inv, TypeOK, Keeps
<1>2. ASSUME NEW i \in Gate, gate'[i].by = "delegate"
      PROVE  delegate /\ (i \in Written \/ (i \in late /\ gate[i].owner = "human_timeout"))
  BY <1>2 DEF Inv, DelegateWhenDue
<1> QED BY <1>1, <1>2 DEF DelegateWhenDue

\* Who decided, after a decision.
LEMMA DecideBy ==
  ASSUME Inv, NEW i \in Gate, NEW d \in Decision, NEW by \in {"human", "delegate"},
         NEW note \in Text \cup {None}, NEW spent \in BOOLEAN, Decide(i, d, by, note, spent)
  PROVE  gate'[i].by = by /\ gate'[i].answer = d /\ \A j \in Gate : j # i => gate'[j] = gate[j]
<1>1. gate \in [Gate -> Record] /\ gate[i] \in Record
  BY DEF Inv, TypeOK
<1>2. gate' = [gate EXCEPT ![i] = [gate[i] EXCEPT !.answer = d, !.by = by, !.note = note, !.spent = spent]]
  BY DEF Decide, Put
<1>3. gate'[i] = [gate[i] EXCEPT !.answer = d, !.by = by, !.note = note, !.spent = spent]
  BY <1>1, <1>2, Zenon
<1>4. gate'[i].by = by /\ gate'[i].answer = d
  BY <1>1, <1>3 DEF Record
<1> QED BY <1>1, <1>2, <1>4

\* Steps that decide nothing leave every answer and who gave it.
LEMMA OtherAnswers ==
  ASSUME Inv, [Next]_vars,
         \A i \in Gate, d \in Decision, text \in Text \cup {None} : ~Respond(i, d, text),
         \A i \in Gate, d \in Decision : ~(Settle(i, d) /\ Pending(i)),
         \A t \in Tick, i \in Gate, d \in Decision : ~DecideTick(t, i, d),
         NEW j \in Gate
  PROVE  \/ gate'[j].by = gate[j].by /\ gate'[j].answer = gate[j].answer
         \/ gate'[j].by = "nobody" /\ ~Resolved(j)
<1>t. /\ gate \in [Gate -> Record] /\ raised \in 0..MaxGates /\ hook \in [Hook -> Attempt]
      /\ gate[j] \in Record
  BY DEF Inv, TypeOK
<1>s. CASE gate' = gate
  BY <1>s
<1>1. ASSUME NEW h \in Hook, Spend(h) PROVE gate'[j].by = gate[j].by /\ gate'[j].answer = gate[j].answer
  <2> DEFINE i == hook[h].yes
  <2>1. i \in Gate
    BY <1>1, <1>t, GateNat DEF Inv, Chosen, ChosenBy, Spend
  <2>2. gate' = [gate EXCEPT ![i] = [gate[i] EXCEPT !.spent = TRUE]]
    BY <1>1 DEF Spend, Put
  <2> HIDE DEF i
  <2>3. CASE j = i
    <3>1. gate'[j] = [gate[j] EXCEPT !.spent = TRUE]
      BY <1>t, <2>1, <2>2, <2>3, Zenon
    <3> QED BY <1>t, <3>1 DEF Record
  <2>4. CASE j # i
    BY <1>t, <2>1, <2>2, <2>4
  <2> QED BY <2>3, <2>4
<1>2. ASSUME NEW h \in Hook, NEW p \in {"human", "human_timeout"}, NEW q \in BOOLEAN, Raise(h, p, q)
      PROVE  gate'[j] = gate[j] \/ (gate'[j].by = "nobody" /\ ~Resolved(j))
  <2> DEFINE record == [Unraised EXCEPT !.who = hook[h].who, !.what = hook[h].what,
                          !.answer = "pending", !.owner = IF q THEN "human" ELSE p]
  <2>1. record.by = "nobody"
    BY DEF Unraised
  <2>2. gate' = [gate EXCEPT ![raised + 1] = record]
    BY <1>2 DEF Raise, Put
  <2> HIDE DEF record
  <2>3. gate[raised + 1] = Unraised \/ raised + 1 \notin Gate
    BY <1>t, GateNat DEF Inv, Fresh
  <2>4. CASE j = raised + 1
    BY <1>t, <2>1, <2>2, <2>3, <2>4 DEF Unraised, Resolved, Decision
  <2>5. CASE j # raised + 1
    BY <1>t, <2>2, <2>5
  <2> QED BY <2>4, <2>5
<1>3. ASSUME NEW i \in Gate, NEW text \in Text, AddNote(i, text) PROVE gate'[j].by = gate[j].by /\ gate'[j].answer = gate[j].answer
  <2>2. gate' = [gate EXCEPT ![i] = [gate[i] EXCEPT !.note = text]]
    BY <1>3 DEF AddNote, Put
  <2>3. CASE j = i
    <3>1. gate'[j] = [gate[j] EXCEPT !.note = text]
      BY <1>t, <2>2, <2>3, Zenon
    <3> QED BY <1>t, <3>1 DEF Record
  <2>4. CASE j # i
    BY <1>t, <2>2, <2>4
  <2> QED BY <2>3, <2>4
<1> QED BY <1>s, <1>1, <1>2, <1>3
        DEF Next, Step, HookStep, Begin, Classify, Match, SpentAlready, Reuse, Finish,
            GateStep, Settle, Elapse, TickStep, StartTick, FailTick, Deliver, FailAnnounce, CutOff, Restart, vars, records

LEMMA DelegateStep == Inv /\ [Next]_vars => DelegateWhenDue'
<1> SUFFICES ASSUME Inv, [Next]_vars PROVE DelegateWhenDue'
  OBVIOUS
<1>t. gate \in [Gate -> Record]
  BY DEF Inv, TypeOK
<1>n. \A i \in Gate : gate[i].note \in Text \cup {None} /\ gate[i].spent \in BOOLEAN
  BY <1>t DEF Record
<1>k. Keeps /\ delegate' = delegate /\ Written \subseteq Written'
  BY StepKeeps, FrameStep
<1>1. ASSUME NEW i \in Gate, NEW d \in Decision, NEW text \in Text \cup {None}, Respond(i, d, text)
      PROVE  DelegateWhenDue'
  <2>1. (IF text # None THEN text ELSE gate[i].note) \in Text \cup {None}
    BY <1>n
  <2>2. gate'[i].by = "human" /\ \A j \in Gate : j # i => gate'[j] = gate[j]
    BY <1>1, <1>n, <2>1, DecideBy DEF Respond
  <2> QED BY <1>k, <2>2, DelegateKept
<1>2. ASSUME NEW i \in Gate, NEW d \in Decision, Settle(i, d), Pending(i) PROVE DelegateWhenDue'
  <2>1. \A j \in Gate : j # i => gate'[j] = gate[j]
    BY <1>2, <1>n, DecideBy DEF Settle
  <2>2. delegate /\ i \in Written
    BY <1>2 DEF Inv, Awaited, Settle
  <2> QED BY <1>k, <2>1, <2>2, DelegateKept
<1>3. ASSUME NEW t \in Tick, NEW i \in Gate, NEW d \in Decision, DecideTick(t, i, d)
      PROVE  DelegateWhenDue'
  <2>1. tick[t].noted[i] \in Text \cup {None}
    BY NotedType DEF Inv
  <2>2. \A j \in Gate : j # i => gate'[j] = gate[j]
    BY <1>3, <2>1, DecideBy DEF DecideTick
  <2>3. delegate /\ i \in late /\ gate[i].owner = "human_timeout"
    BY <1>3 DEF Inv, Awaited, DecideTick
  <2> QED BY <1>k, <2>2, <2>3, DelegateKept
<1>4. CASE \A j \in Gate : gate'[j].by = gate[j].by \/ gate'[j].by = "nobody"
  BY <1>k, <1>4, DelegateKept
<1> QED BY <1>1, <1>2, <1>3, <1>4, OtherAnswers

LEMMA InvInit == Init => Inv
<1> SUFFICES ASSUME Init PROVE Inv
  OBVIOUS
<1>1. TypeOK
  BY TypeInit
<1>2. Fresh /\ AckSent /\ Chosen
  BY DEF Init, Fresh, AckSent, Chosen, ChosenBy, Idle
<1>3. Credit
  BY DEF Init, Credit, Resolved, Unraised, Decision
<1>4. Awaited /\ DelegateWhenDue
  BY DEF Init, Awaited, DelegateWhenDue, Unraised, Done
<1> QED BY <1>1, <1>2, <1>3, <1>4 DEF Inv

LEMMA InvStep == Inv /\ [Next]_vars => Inv'
BY TypeStep, StepKeeps, FreshStep, AckSentStep, ChosenStep, CreditStep, AwaitedStep, DelegateStep DEF Inv

\* The invariant holds in every state: the theorems below follow from it.
THEOREM Invariant == Spec => []Inv
BY InvInit, InvStep, PTL DEF Spec

-------------------------------------------------------------------------------
(* What follows *)

\* The records, messages, locals and counters stay what they are declared to be.
THEOREM TypeCorrect == Spec => []TypeOK
<1>1. Inv => TypeOK
  BY DEF Inv
<1> QED BY <1>1, Invariant, PTL

\* consume is a compare-and-swap: no number of identical calls gets more out
\* of a gate than it was answered.
THEOREM OnceNotStanding == Spec => []OneCallPerAnswer
<1>1. Inv => OneCallPerAnswer
  BY DEF Inv, Credit, OneCallPerAnswer
<1> QED BY <1>1, Invariant, PTL

\* findApprovedUnspentGate: an approval opens the call it was given for.
THEOREM ApprovalFitsCall == Spec => []YesFitsCall
<1>1. Inv => YesFitsCall
  BY DEF Inv, Chosen, ChosenBy, YesFitsCall
<1> QED BY <1>1, Invariant, PTL

\* tick and settleLater: the delegate never decides a gate that is the
\* human's, unless the human wrote a note on it.
THEOREM DelegateInItsPlace == Spec => []DelegateWhenDue
<1>1. Inv => DelegateWhenDue
  BY DEF Inv
<1> QED BY <1>1, Invariant, PTL

LEMMA StandsStep ==
  Inv /\ [Next]_vars =>
    \A i \in Gate :
      Resolved(i) /\ <<gate'[i].answer, gate'[i].by>> # <<gate[i].answer, gate[i].by>>
        => \E t \in Tick : i \in tick[t].todo
<1> SUFFICES ASSUME Inv, [Next]_vars, NEW j \in Gate, Resolved(j),
                    \A t \in Tick : j \notin tick[t].todo
             PROVE  gate'[j].answer = gate[j].answer /\ gate'[j].by = gate[j].by
  OBVIOUS
<1>t. gate \in [Gate -> Record]
  BY DEF Inv, TypeOK
<1>n. \A i \in Gate : gate[i].note \in Text \cup {None} /\ gate[i].spent \in BOOLEAN
  BY <1>t DEF Record
<1>p. \A i \in Gate : Pending(i) => i # j
  BY DEF Pending, Resolved, Decision
<1>1. ASSUME NEW i \in Gate, NEW d \in Decision, NEW text \in Text \cup {None}, Respond(i, d, text)
      PROVE  gate'[j] = gate[j]
  <2>1. (IF text # None THEN text ELSE gate[i].note) \in Text \cup {None}
    BY <1>n
  <2>2. \A k \in Gate : k # i => gate'[k] = gate[k]
    BY <1>1, <1>n, <2>1, DecideBy DEF Respond
  <2> QED BY <1>1, <1>p, <2>2 DEF Respond
<1>2. ASSUME NEW i \in Gate, NEW d \in Decision, Settle(i, d), Pending(i) PROVE gate'[j] = gate[j]
  <2>1. \A k \in Gate : k # i => gate'[k] = gate[k]
    BY <1>2, <1>n, DecideBy DEF Settle
  <2> QED BY <1>2, <1>p, <2>1
<1>3. ASSUME NEW t \in Tick, NEW i \in Gate, NEW d \in Decision, DecideTick(t, i, d)
      PROVE  gate'[j] = gate[j]
  <2>d. Decide(i, d, "delegate", tick[t].noted[i], FALSE)
    BY <1>3 DEF DecideTick
  <2>2. \A k \in Gate : k # i => gate'[k] = gate[k]
    BY <1>t, <2>d DEF Decide, Put
  <2> QED BY <1>3, <2>2 DEF DecideTick
<1> QED BY <1>1, <1>2, <1>3, OtherAnswers

\* Only a tick that listed a gate changes the decision written on it.
THEOREM AnswerStands == Spec => DecisionStands
BY Invariant, StandsStep, PTL DEF Spec, DecisionStands

-------------------------------------------------------------------------------
(* A note reaches its agent *)

\* The messages a decision has still to announce or has sent, and those that were cut off too.
Said == ({saying} \cup {sent[n] : n \in DOMAIN sent}) \ {Silence}
Words == {saying} \cup cut \cup {sent[n] : n \in DOMAIN sent}

\* A note is on its record while the gate waits, and in the words of the decision; of a gate
\* that is owed its note nothing else was said; and of the messages about a gate one is in
\* the inbox or was put before the agent.
NotesKept == \A i \in Written : i \in 1..raised /\ (Pending(i) => gate[i].note = wrote[i])

NotesSaid == \A i \in Gate : Owed(i) => LastNote(i) \in Words

Faithful(x) == /\ x.about \in 1..raised /\ Resolved(x.about)
               /\ Owed(x.about) => x = LastNote(x.about)

SaidFaithfully == \A x \in Said : Faithful(x)

InReach == \A n \in DOMAIN sent : \E m \in unread \cup heard : sent[m].about = sent[n].about

\* Of the messages about each gate one fits the context of the call that acks them.
OneFits(msgs) == \A n \in msgs : \E m \in Fitting(msgs) : sent[m].about = sent[n].about
AcksFit == \A h \in Hook : OneFits(hook[h].ack)

\* The same of the messages that wait for each agent.
NotesFit == \A s \in Session : OneFits(Inbox(s))

OnTheWay == NotesKept /\ NotesSaid /\ SaidFaithfully /\ InReach /\ AcksFit

\* A step that owes nothing new and says nothing new.
LEMMA WordsKept ==
  ASSUME Inv, NotesSaid, SaidFaithfully, Keeps, Said' \subseteq Said, Words \ {Silence} \subseteq Words',
         \A i \in Gate : Owed(i)' => Owed(i) /\ wrote'[i] = wrote[i]
  PROVE  NotesSaid' /\ SaidFaithfully'
<1>1. NotesSaid'
  <2> SUFFICES ASSUME NEW i \in Gate, Owed(i)' PROVE LastNote(i)' \in Words'
    BY DEF NotesSaid
  <2>1. LastNote(i) \in Words /\ LastNote(i)' = LastNote(i)
    BY DEF NotesSaid, LastNote
  <2>2. LastNote(i) # Silence
    <3>1. LastNote(i).about = i /\ Silence.about = 0 /\ i # 0
      BY GateNat DEF LastNote, Silence
    <3> QED BY <3>1
  <2> QED BY <2>1, <2>2
<1>2. SaidFaithfully'
  <2> SUFFICES ASSUME NEW x \in Said' PROVE Faithful(x)'
    BY DEF SaidFaithfully
  <2>1. /\ x.about \in 1..raised /\ x.about \in Gate /\ Resolved(x.about)
        /\ Owed(x.about) => x = LastNote(x.about)
    <3>1. Faithful(x) /\ raised \in 0..MaxGates
      BY DEF SaidFaithfully, Inv, TypeOK
    <3> QED BY <3>1, GateNat DEF Faithful
  <2>2. x.about \in 1..raised' /\ Resolved(x.about)'
    BY <2>1 DEF Keeps
  <2>3. Owed(x.about)' => x = LastNote(x.about)'
    BY <2>1 DEF LastNote
  <2> QED BY <2>2, <2>3 DEF Faithful
<1> QED BY <1>1, <1>2

\* A gate whose answer and note a step leaves is owed no more than before.
LEMMA OwedLess ==
  ASSUME Keeps, NEW i \in Gate, wrote'[i] = wrote[i],
         gate'[i].answer = gate[i].answer /\ gate'[i].by = gate[i].by
  PROVE  Owed(i)' => Owed(i)
BY DEF Keeps, Owed, Written, Resolved

\* A step that decides nothing, writes no note and leaves what was said.
LEMMA NothingWritten ==
  ASSUME Inv, NotesKept, NotesSaid, SaidFaithfully, Keeps, wrote' = wrote,
         Said' \subseteq Said, Words \ {Silence} \subseteq Words',
         \A i \in Written : /\ gate'[i].answer = gate[i].answer /\ gate'[i].by = gate[i].by
                            /\ gate'[i].note = gate[i].note
  PROVE  NotesKept' /\ NotesSaid' /\ SaidFaithfully'
<1>1. Written' = Written /\ Written \subseteq Gate
  BY DEF Written
<1>2. NotesKept'
  BY <1>1 DEF NotesKept, Pending, Keeps
<1>3. ASSUME NEW i \in Gate, Owed(i)' PROVE Owed(i) /\ wrote'[i] = wrote[i]
  <2>1. i \in Written
    BY <1>1, <1>3 DEF Owed
  <2> QED BY <1>3, <2>1, OwedLess
<1> QED BY <1>2, <1>3, WordsKept

\* What the record says after a decision.
LEMMA DecideSays ==
  ASSUME Inv, NEW i \in Gate, NEW d \in Decision, NEW by \in {"human", "delegate"},
         NEW note \in Text \cup {None}, NEW spent \in BOOLEAN, Decide(i, d, by, note, spent)
  PROVE  /\ gate'[i].answer = d /\ gate'[i].by = by /\ gate'[i].note = note
         /\ \A j \in Gate : j # i => gate'[j] = gate[j]
<1>1. gate \in [Gate -> Record] /\ gate[i] \in Record
  BY DEF Inv, TypeOK
<1>2. gate' = [gate EXCEPT ![i] = [gate[i] EXCEPT !.answer = d, !.by = by, !.note = note, !.spent = spent]]
  BY DEF Decide, Put
<1>3. gate'[i] = [gate[i] EXCEPT !.answer = d, !.by = by, !.note = note, !.spent = spent]
  BY <1>1, <1>2, Zenon
<1>4. gate'[i].note = note
  BY <1>1, <1>3 DEF Record
<1>5. gate'[i].answer = d /\ gate'[i].by = by /\ \A j \in Gate : j # i => gate'[j] = gate[j]
  BY DecideBy
<1> QED BY <1>4, <1>5

\* A decision says the note on the record; only a tick decides without it.
LEMMA DecideNotes ==
  ASSUME Inv, NotesKept, NotesSaid, SaidFaithfully, Keeps, saying = Silence,
         NEW i \in 1..raised, NEW d \in Decision, NEW by \in {"human", "delegate"},
         NEW note \in Text \cup {None}, NEW spent \in BOOLEAN, Decide(i, d, by, note, spent),
         \A j \in Gate : j # i => wrote'[j] = wrote[j],
         \/ Pending(i) /\ (i \in Written' => wrote'[i] = note)
         \/ i \in late /\ by = "delegate"
  PROVE  NotesKept' /\ NotesSaid' /\ SaidFaithfully'
<1>1. i \in Gate /\ raised \in Nat
  <2>1. raised \in 0..MaxGates
    BY DEF Inv, TypeOK
  <2> QED BY <2>1, GateNat
<1>2. /\ gate'[i].answer = d /\ gate'[i].by = by /\ gate'[i].note = note
      /\ \A j \in Gate : j # i => gate'[j] = gate[j]
      /\ sent' = sent /\ unread' = unread /\ cut' = cut
      /\ saying' = IF note # None THEN [about |-> i, text |-> note] ELSE saying
  <2>1. /\ gate'[i].answer = d /\ gate'[i].by = by /\ gate'[i].note = note
        /\ \A j \in Gate : j # i => gate'[j] = gate[j]
    BY <1>1, DecideSays
  <2>2. /\ sent' = sent /\ unread' = unread /\ cut' = cut
        /\ saying' = IF note # None THEN [about |-> i, text |-> note] ELSE saying
    BY DEF Decide
  <2> QED BY <2>1, <2>2
<1>3. ~Pending(i)' /\ i \in 1..raised'
  BY <1>2 DEF Pending, Decision, Keeps
<1>4. NotesKept'
  <2> SUFFICES ASSUME NEW j \in Written', j # i
               PROVE  j \in 1..raised' /\ (Pending(j)' => gate'[j].note = wrote'[j])
    BY <1>3 DEF NotesKept
  <2>1. j \in Written /\ gate'[j] = gate[j] /\ wrote'[j] = wrote[j]
    BY <1>2 DEF Written
  <2> QED BY <2>1 DEF NotesKept, Pending, Keeps
\* Another gate is owed what it was, and the note on this one is what the decision says.
<1>5. ASSUME NEW j \in Gate, j # i, Owed(j)' PROVE Owed(j) /\ wrote'[j] = wrote[j]
  BY <1>2, <1>5, OwedLess
<1>6. Owed(i)' => Pending(i) /\ note = wrote'[i] /\ note # None
  <2> SUFFICES ASSUME Owed(i)' PROVE Pending(i) /\ note = wrote'[i] /\ note # None
    OBVIOUS
  <2>1. i \in Written' /\ wrote'[i] # None
    BY DEF Owed, Written
  <2>2. ~(i \in late /\ by = "delegate")
    BY <1>2 DEF Owed, Keeps
  <2> QED BY <2>1, <2>2
<1>7. NotesSaid'
  <2> SUFFICES ASSUME NEW j \in Gate, Owed(j)' PROVE LastNote(j)' \in Words'
    BY DEF NotesSaid
  <2>1. CASE j = i
    BY <1>2, <1>6, <2>1 DEF Words, LastNote
  <2>2. CASE j # i
    <3>1. LastNote(j) \in Words /\ LastNote(j)' = LastNote(j)
      BY <1>5, <2>2 DEF NotesSaid, LastNote
    <3>2. LastNote(j) # saying
      <4>1. LastNote(j).about = j /\ Silence.about = 0 /\ j # 0
        BY GateNat DEF LastNote, Silence
      <4> QED BY <4>1
    <3> QED BY <1>2, <3>1, <3>2 DEF Words
  <2> QED BY <2>1, <2>2
<1>8. SaidFaithfully'
  <2> SUFFICES ASSUME NEW x \in Said' PROVE Faithful(x)'
    BY DEF SaidFaithfully
  <2>1. CASE x \in Said
    <3>1. x.about \in 1..raised /\ Resolved(x.about) /\ (Owed(x.about) => x = LastNote(x.about))
      BY <2>1 DEF SaidFaithfully, Faithful
    <3>2. x.about \in 1..raised' /\ Resolved(x.about)' /\ x.about \in Gate
      <4>1. raised \in 0..MaxGates
        BY DEF Inv, TypeOK
      <4> QED BY <3>1, <4>1, GateNat DEF Keeps
    <3>3. Owed(x.about)' => x.about # i
      BY <1>6, <3>1 DEF Pending, Resolved, Decision
    <3>4. Owed(x.about)' => x = LastNote(x.about)'
      BY <1>5, <3>1, <3>2, <3>3 DEF LastNote
    <3> QED BY <3>2, <3>4 DEF Faithful
  <2>2. CASE x \notin Said
    <3>1. x = [about |-> i, text |-> note]
      BY <1>2, <2>2 DEF Said
    <3>2. Resolved(i)'
      BY <1>2 DEF Resolved
    <3>3. x.about = i
      BY <3>1
    <3> QED BY <1>3, <1>6, <3>1, <3>2, <3>3 DEF Faithful, LastNote
  <2> QED BY <2>1, <2>2
<1> QED BY <1>4, <1>7, <1>8

\* What a hook acks: what it polled.
LEMMA AcksKept ==
  ASSUME Inv, AcksFit, \A n \in DOMAIN sent : sent'[n] = sent[n],
         \A h \in Hook : \/ hook'[h].ack \in {hook[h].ack, {}}
                         \/ hook'[h].ack \subseteq DOMAIN sent /\ OneFits(hook'[h].ack)
  PROVE  AcksFit'
<1> SUFFICES ASSUME NEW h \in Hook, NEW n \in hook'[h].ack
             PROVE  \E m \in Fitting(hook'[h].ack) : sent'[m].about = sent'[n].about
  BY DEF AcksFit, OneFits, Fitting
<1>1. PICK msgs : msgs = hook'[h].ack
  OBVIOUS
<1>2. msgs \subseteq DOMAIN sent /\ OneFits(msgs)
  <2>1. hook[h].ack \subseteq DOMAIN sent /\ OneFits(hook[h].ack) /\ OneFits({})
    BY DEF Inv, AckSent, AcksFit, OneFits
  <2> QED BY <1>1, <2>1
<1>3. PICK m \in Fitting(msgs) : sent[m].about = sent[n].about
  BY <1>1, <1>2 DEF OneFits
<1>4. m \in DOMAIN sent /\ n \in DOMAIN sent
  BY <1>1, <1>2, <1>3 DEF Fitting
<1> QED BY <1>1, <1>3, <1>4

\* What hooks do decides nothing, writes no note, says nothing, and leaves the ticks.
LEMMA HookSaysNothing ==
  ASSUME Inv, NEW h \in Hook, HookStep(h)
  PROVE  /\ wrote' = wrote /\ saying' = saying /\ sent' = sent /\ cut' = cut
         /\ tick' = tick /\ asks' = asks /\ delegate' = delegate
         /\ \A i \in Gate : gate'[i].note = gate[i].note
         /\ \A i \in 1..raised : gate'[i].answer = gate[i].answer /\ gate'[i].by = gate[i].by
<1>t. gate \in [Gate -> Record] /\ raised \in 0..MaxGates /\ \A i \in 1..raised : i \in Gate
  BY GateNat DEF Inv, TypeOK
<1>1. /\ wrote' = wrote /\ saying' = saying /\ sent' = sent /\ cut' = cut
      /\ tick' = tick /\ asks' = asks /\ delegate' = delegate
  BY DEF HookStep, Begin, Classify, Match, Spend, SpentAlready, Reuse, Raise, Finish, bus
<1>2. CASE Spend(h)
  <2> DEFINE i == hook[h].yes
  <2>1. i \in Gate
    BY <1>t, <1>2, GateNat DEF Inv, Chosen, ChosenBy, Spend
  <2>2. gate' = [gate EXCEPT ![i] = [gate[i] EXCEPT !.spent = TRUE]]
    BY <1>2 DEF Spend, Put
  <2> HIDE DEF i
  <2>3. gate'[i] = [gate[i] EXCEPT !.spent = TRUE]
    BY <1>t, <2>1, <2>2, Zenon
  <2>4. /\ gate'[i].note = gate[i].note /\ gate'[i].answer = gate[i].answer /\ gate'[i].by = gate[i].by
        /\ \A j \in Gate : j # i => gate'[j] = gate[j]
    BY <1>t, <2>1, <2>2, <2>3 DEF Record
  <2> QED BY <1>1, <1>t, <2>4
<1>3. ASSUME NEW p \in {"human", "human_timeout"}, NEW q \in BOOLEAN, Raise(h, p, q)
      PROVE  /\ \A i \in Gate : gate'[i].note = gate[i].note
             /\ \A i \in 1..raised : gate'[i].answer = gate[i].answer /\ gate'[i].by = gate[i].by
  <2> DEFINE record == [Unraised EXCEPT !.who = hook[h].who, !.what = hook[h].what,
                          !.answer = "pending", !.owner = IF q THEN "human" ELSE p]
  <2>1. record.note = None
    BY DEF Unraised
  <2>2. gate' = [gate EXCEPT ![raised + 1] = record]
    BY <1>3 DEF Raise, Put
  <2> HIDE DEF record
  <2>3. raised + 1 \in Gate => gate[raised + 1].note = None
    BY <1>t DEF Inv, Fresh, Unraised
  <2> QED BY <1>t, <2>1, <2>2, <2>3
<1>4. CASE gate' = gate
  BY <1>1, <1>4
<1> QED BY <1>1, <1>2, <1>3, <1>4 DEF HookStep, Begin, Classify, Match, SpentAlready, Reuse, Finish, records

\* The messages a step leaves in reach.
LEMMA ReachKept ==
  ASSUME InReach, sent' = sent, unread' = unread, heard' = heard
  PROVE  InReach'
BY DEF InReach

LEMMA HookOnTheWay ==
  ASSUME Inv, NotesFit, OnTheWay, Keeps, NEW h \in Hook, HookStep(h)
  PROVE  OnTheWay'
<1>t. raised \in 0..MaxGates /\ unread \subseteq DOMAIN sent
  BY DEF Inv, TypeOK
<1>k. NotesKept /\ NotesSaid /\ SaidFaithfully /\ InReach /\ AcksFit
  BY DEF OnTheWay
<1>1. /\ wrote' = wrote /\ saying' = saying /\ sent' = sent /\ cut' = cut
      /\ \A i \in Gate : gate'[i].note = gate[i].note
      /\ \A i \in 1..raised : gate'[i].answer = gate[i].answer /\ gate'[i].by = gate[i].by
  BY HookSaysNothing
<1>2. NotesKept' /\ NotesSaid' /\ SaidFaithfully'
  <2>1. Said' = Said /\ Words' = Words
    BY <1>1 DEF Said, Words
  <2>2. \A i \in Written : i \in 1..raised /\ i \in Gate
    BY <1>k DEF NotesKept, Written
  <2> QED BY <1>1, <1>k, <2>1, <2>2, NothingWritten
<1>3. InReach'
  <2>1. CASE Finish(h)
    <3>1. unread' = unread \ hook[h].ack /\ heard' = heard \cup Fitting(hook[h].ack)
      BY <2>1 DEF Finish
    <3> SUFFICES ASSUME NEW n \in DOMAIN sent
                 PROVE  \E m \in unread' \cup heard' : sent[m].about = sent[n].about
      BY <1>1 DEF InReach
    <3>2. PICK m \in unread \cup heard : sent[m].about = sent[n].about
      BY <1>k DEF InReach
    <3>3. CASE m \in hook[h].ack
      <4>1. PICK k \in Fitting(hook[h].ack) : sent[k].about = sent[m].about
        BY <1>k, <3>3 DEF AcksFit, OneFits
      <4> QED BY <3>1, <3>2, <4>1
    <3>4. CASE m \notin hook[h].ack
      BY <3>1, <3>2, <3>4
    <3> QED BY <3>3, <3>4
  <2>2. CASE ~Finish(h)
    <3>1. unread' = unread /\ heard' = heard
      BY <2>2 DEF HookStep, Begin, Classify, Match, Spend, SpentAlready, Reuse, Raise, bus
    <3> QED BY <1>1, <1>k, <3>1, ReachKept
  <2> QED BY <2>1, <2>2
<1>4. AcksFit'
  <2>1. \A k \in Hook : \/ hook'[k].ack = hook[k].ack \/ hook'[k].ack = {}
                        \/ \E s \in Session : hook'[k].ack = Inbox(s)
    BY GoMoves DEF HookMoves
  <2>2. ASSUME NEW s \in Session PROVE Inbox(s) \subseteq DOMAIN sent /\ OneFits(Inbox(s))
    BY <1>t DEF Inbox, NotesFit
  <2>3. ASSUME NEW k \in Hook, NEW s \in Session, hook'[k].ack = Inbox(s)
        PROVE  hook'[k].ack \subseteq DOMAIN sent /\ OneFits(hook'[k].ack)
    <3>1. PICK msgs : msgs = Inbox(s)
      OBVIOUS
    <3>2. OneFits(msgs) /\ hook'[k].ack = msgs
      BY <2>2, <2>3, <3>1
    <3> QED BY <2>2, <3>1, <3>2
  <2>4. \A k \in Hook : \/ hook'[k].ack \in {hook[k].ack, {}}
                        \/ hook'[k].ack \subseteq DOMAIN sent /\ OneFits(hook'[k].ack)
    BY <2>1, <2>3
  <2> QED BY <1>1, <1>k, <2>4, AcksKept
<1> QED BY <1>2, <1>3, <1>4 DEF OnTheWay

\* Announcing, or failing to.
LEMMA AnnouncedOnTheWay ==
  ASSUME Inv, OnTheWay, Keeps, Deliver \/ FailAnnounce \/ Restart
  PROVE  OnTheWay'
<1>t. /\ sent \in Seq(Message) /\ unread \subseteq DOMAIN sent /\ heard \subseteq DOMAIN sent
      /\ saying \in Message \cup {Silence}
  BY DEF Inv, TypeOK
<1>k. NotesKept /\ NotesSaid /\ SaidFaithfully /\ InReach /\ AcksFit
  BY DEF OnTheWay
<1>1. gate' = gate /\ wrote' = wrote /\ heard' = heard
  BY DEF Deliver, FailAnnounce, Restart, records
<1>2. Said' \subseteq Said /\ Words \ {Silence} \subseteq Words' /\ \A n \in DOMAIN sent : sent'[n] = sent[n]
  <2>1. CASE Deliver
    <3>1. saying' = Silence /\ sent' = Append(sent, saying) /\ cut' = cut /\ saying # Silence
      BY <2>1 DEF Deliver
    <3>2. /\ DOMAIN sent = 1..Len(sent) /\ DOMAIN sent' = 1..(Len(sent) + 1) /\ Len(sent) \in Nat
          /\ \A n \in 1..Len(sent) : sent'[n] = sent[n]
          /\ sent'[Len(sent) + 1] = saying
      BY <1>t, <3>1
    <3>3. {sent'[n] : n \in DOMAIN sent'} = {sent[n] : n \in DOMAIN sent} \cup {saying}
      <4>1. \A n \in DOMAIN sent' : n \in DOMAIN sent \/ n = Len(sent) + 1
        BY <3>2
      <4>2. \A n \in DOMAIN sent : n \in DOMAIN sent'
        BY <3>2
      <4>3. Len(sent) + 1 \in DOMAIN sent'
        BY <3>2
      <4> QED BY <3>2, <4>1, <4>2, <4>3
    <3> QED BY <3>1, <3>2, <3>3 DEF Said, Words
  <2>2. CASE FailAnnounce \/ Restart
    <3>1. sent' = sent /\ saying' = Silence /\ cut' = IF saying = Silence THEN cut ELSE cut \cup {saying}
      BY <2>2 DEF FailAnnounce, Restart, CutOff
    <3> QED BY <3>1 DEF Said, Words
  <2> QED BY <2>1, <2>2
<1>3. NotesKept' /\ NotesSaid' /\ SaidFaithfully'
  BY <1>1, <1>2, <1>k, NothingWritten
<1>4. InReach'
  <2>1. CASE Deliver
    <3>1. sent' = Append(sent, saying) /\ unread' = unread \cup {Len(sent) + 1}
      BY <2>1 DEF Deliver
    <3>2. \A n \in DOMAIN sent' : n \in DOMAIN sent \/ n \in unread'
      BY <1>t, <3>1
    <3>3. ASSUME NEW n \in DOMAIN sent PROVE \E m \in unread' \cup heard' : sent'[m].about = sent'[n].about
      <4>1. PICK m \in unread \cup heard : sent[m].about = sent[n].about
        BY <1>k DEF InReach
      <4> QED BY <1>1, <1>2, <1>t, <3>1, <4>1
    <3> QED BY <3>2, <3>3 DEF InReach
  <2>2. CASE FailAnnounce \/ Restart
    BY <1>1, <1>k, <2>2, ReachKept DEF FailAnnounce, Restart, CutOff
  <2> QED BY <2>1, <2>2
<1>5. AcksFit'
  <2>1. \A h \in Hook : hook'[h].ack \in {hook[h].ack, {}}
    BY DEF Deliver, FailAnnounce, Restart, Idle
  <2> QED BY <1>2, <1>k, <2>1, AcksKept
<1> QED BY <1>3, <1>4, <1>5 DEF OnTheWay

LEMMA OnTheWayStep == Inv /\ NotesFit /\ OnTheWay /\ [Next]_vars => OnTheWay'
<1> SUFFICES ASSUME Inv, NotesFit, OnTheWay, [Next]_vars PROVE OnTheWay'
  OBVIOUS
<1>t. /\ gate \in [Gate -> Record] /\ raised \in 0..MaxGates /\ late \subseteq 1..raised
      /\ wrote \in [Gate -> Text \cup {None}]
  BY DEF Inv, TypeOK
<1>k. Keeps /\ NotesKept /\ NotesSaid /\ SaidFaithfully /\ InReach /\ AcksFit
  BY StepKeeps DEF OnTheWay
<1>n. \A i \in Gate : gate[i].note \in Text \cup {None} /\ gate[i].spent \in BOOLEAN
  BY <1>t DEF Record
<1>r. \A i \in Gate : Pending(i) => i \in 1..raised
  BY <1>t, GateNat DEF Inv, Fresh, Unraised, Pending
<1>h. CASE hook' = hook /\ sent' = sent /\ unread' = unread /\ heard' = heard
           /\ NotesKept' /\ NotesSaid' /\ SaidFaithfully'
  <2>1. InReach' /\ AcksFit'
    BY <1>h, <1>k, ReachKept, AcksKept
  <2> QED BY <1>h, <2>1 DEF OnTheWay
<1>s. CASE hook' = hook /\ gate' = gate /\ bus' = bus /\ heard' = heard /\ wrote' = wrote
  <2>1. Said' = Said /\ Words' = Words
    BY <1>s DEF Said, Words, bus
  <2> QED BY <1>h, <1>k, <1>s, <2>1, NothingWritten DEF bus
<1>1. ASSUME NEW h \in Hook, HookStep(h) PROVE OnTheWay'
  BY <1>1, <1>k, HookOnTheWay
<1>2. ASSUME NEW i \in Gate, GateStep(i), saying = Silence PROVE OnTheWay'
  <2>1. ASSUME NEW d \in Decision, NEW text \in Text \cup {None}, Respond(i, d, text) PROVE OnTheWay'
    <3> DEFINE note == IF text # None THEN text ELSE gate[i].note
    <3>1. /\ note \in Text \cup {None} /\ i \in 1..raised /\ Pending(i)
          /\ Decide(i, d, "human", note, gate[i].spent)
          /\ hook' = hook /\ heard' = heard
          /\ wrote' = [wrote EXCEPT ![i] = IF text # None THEN text ELSE @]
      BY <1>n, <1>r, <2>1 DEF Respond, Write
    <3>3. i \in Written' => wrote'[i] = note
      BY <1>k, <1>t, <3>1 DEF NotesKept, Written
    <3>4. \A j \in Gate : j # i => wrote'[j] = wrote[j]
      BY <1>t, <3>1
    <3> HIDE DEF note
    <3>5. NotesKept' /\ NotesSaid' /\ SaidFaithfully'
      BY <1>2, <1>k, <1>n, <3>1, <3>3, <3>4, DecideNotes
    <3>6. sent' = sent /\ unread' = unread
      BY <3>1 DEF Decide
    <3> QED BY <1>h, <3>1, <3>5, <3>6
  <2>2. ASSUME NEW text \in Text, AddNote(i, text) PROVE OnTheWay'
    <3>1. /\ gate' = [gate EXCEPT ![i] = [gate[i] EXCEPT !.note = text]] /\ Pending(i) /\ i \in 1..raised
          /\ hook' = hook /\ heard' = heard /\ bus' = bus /\ text # None
      BY <1>r, <2>2, GatesAssumption DEF AddNote, Put
    <3>w. wrote' = [wrote EXCEPT ![i] = text]
      BY <2>2, <3>1 DEF AddNote, Write
    <3>2. gate'[i] = [gate[i] EXCEPT !.note = text]
      BY <1>t, <3>1, Zenon
    <3>3. /\ gate'[i].answer = gate[i].answer /\ gate'[i].note = text /\ wrote'[i] = text
          /\ \A j \in Gate : j # i => gate'[j] = gate[j] /\ wrote'[j] = wrote[j]
      BY <1>t, <3>1, <3>2, <3>w DEF Record
    <3>4. NotesKept'
      <4>1. \A j \in Written' : j \in Gate /\ (j = i \/ j \in Written)
        BY <3>3 DEF Written
      <4>2. \A j \in 1..raised : j \in 1..raised'
        BY <1>k DEF Keeps
      <4> QED BY <1>k, <3>1, <3>3, <4>1, <4>2 DEF NotesKept, Pending
    <3>5. NotesSaid' /\ SaidFaithfully'
      <4>1. Said' = Said /\ Words' = Words
        BY <3>1 DEF Said, Words, bus
      <4>2. ~Owed(i)'
        BY <3>1, <3>3 DEF Owed, Resolved, Pending, Decision
      <4>3. ASSUME NEW j \in Gate, Owed(j)' PROVE Owed(j) /\ wrote'[j] = wrote[j]
        BY <1>k, <3>3, <4>2, <4>3, OwedLess
      <4> QED BY <1>k, <4>1, <4>3, WordsKept
    <3> QED BY <1>h, <3>1, <3>4, <3>5 DEF bus
  <2>3. ASSUME NEW d \in Decision, Settle(i, d) PROVE OnTheWay'
    <3>1. CASE Pending(i)
      <4>1. /\ Decide(i, d, "delegate", gate[i].note, gate[i].spent)
            /\ hook' = hook /\ heard' = heard /\ wrote' = wrote /\ i \in 1..raised
        BY <1>r, <2>3, <3>1 DEF Settle
      <4>2. i \in Written' => wrote'[i] = gate[i].note
        BY <1>k, <3>1, <4>1 DEF NotesKept, Written
      <4>3. NotesKept' /\ NotesSaid' /\ SaidFaithfully'
        BY <1>2, <1>k, <1>n, <3>1, <4>1, <4>2, DecideNotes
      <4> QED BY <1>h, <4>1, <4>3 DEF Decide
    <3>2. CASE ~Pending(i)
      <4>1. gate' = gate /\ bus' = bus /\ heard' = heard /\ wrote' = wrote /\ hook' = hook
        BY <2>3, <3>2 DEF Settle
      <4> QED BY <1>s, <4>1
    <3> QED BY <3>1, <3>2
  <2>4. CASE Elapse(i)
    BY <1>s, <2>4 DEF Elapse
  <2> QED BY <1>2, <2>1, <2>2, <2>3, <2>4 DEF GateStep
<1>3. ASSUME NEW t \in Tick, TickStep(t), saying = Silence PROVE OnTheWay'
  <2>1. ASSUME NEW i \in Gate, NEW d \in Decision, DecideTick(t, i, d) PROVE OnTheWay'
    <3>1. tick[t].noted[i] \in Text \cup {None}
      BY NotedType DEF Inv
    <3>2. i \in late /\ i \in 1..raised
      BY <1>t, <2>1 DEF Inv, Awaited, DecideTick
    <3>3. /\ Decide(i, d, "delegate", tick[t].noted[i], FALSE)
          /\ hook' = hook /\ heard' = heard /\ wrote' = wrote
      BY <2>1 DEF DecideTick
    <3>4. NotesKept' /\ NotesSaid' /\ SaidFaithfully'
      BY <1>3, <1>k, <3>1, <3>2, <3>3, DecideNotes
    <3> QED BY <1>h, <3>3, <3>4 DEF Decide
  <2>2. CASE StartTick(t) \/ FailTick(t)
    BY <1>s, <2>2 DEF StartTick, FailTick, records
  <2> QED BY <1>3, <2>1, <2>2 DEF TickStep
<1>4. CASE Deliver \/ FailAnnounce \/ Restart
  BY <1>4, <1>k, AnnouncedOnTheWay
<1>5. CASE UNCHANGED vars
  BY <1>s, <1>5 DEF vars, records
<1> QED BY <1>1, <1>2, <1>3, <1>4, <1>5 DEF Next, Step

LEMMA OnTheWayInit == Init => OnTheWay
<1> SUFFICES ASSUME Init PROVE OnTheWay
  OBVIOUS
<1>1. Written = {} /\ sent = <<>> /\ saying = Silence /\ \A h \in Hook : hook[h].ack = {}
  BY DEF Init, Written, Idle
<1>2. \A i \in Gate : ~Owed(i)
  BY <1>1 DEF Owed
<1>3. Said = {} /\ DOMAIN sent = {}
  BY <1>1 DEF Said
<1> QED BY <1>1, <1>2, <1>3 DEF OnTheWay, NotesKept, NotesSaid, SaidFaithfully, InReach, AcksFit, OneFits

\* The last text written on a decided gate is about to be announced, is in its agent's inbox
\* or was put before the agent, unless a kill or a failed write cut the announcement off,
\* whatever calls, ticks and restarts come between: as long as the messages that wait for an
\* agent hold one about each gate that fits, since preToolUse acks those that do not as well.
THEOREM NotesThatFitAreHeard == Spec /\ []NotesFit => []NoteIsHeard
<1>1. Inv /\ OnTheWay => NoteIsHeard
  <2> SUFFICES ASSUME Inv, OnTheWay, NEW i \in Gate, Owed(i)
               PROVE  LastNote(i) \in {saying} \cup cut \cup {sent[n] : n \in unread \cup heard}
    BY DEF NoteIsHeard
  <2>1. LastNote(i) \in Words /\ i # 0
    BY GateNat DEF OnTheWay, NotesSaid
  <2>2. ASSUME NEW n \in DOMAIN sent, LastNote(i) = sent[n]
        PROVE  LastNote(i) \in {sent[k] : k \in unread \cup heard}
    <3>1. PICK m \in unread \cup heard : sent[m].about = sent[n].about
      BY DEF OnTheWay, InReach
    <3>2. m \in DOMAIN sent /\ sent[m].about = i
      BY <2>2, <3>1 DEF Inv, TypeOK, LastNote
    <3>3. sent[m] # Silence
      BY <2>1, <3>2 DEF Silence
    <3>4. Faithful(sent[m])
      BY <3>2, <3>3 DEF OnTheWay, SaidFaithfully, Said
    <3>5. sent[m] = LastNote(i)
      BY <3>2, <3>4 DEF Faithful
    <3> QED BY <3>5
  <2> QED BY <2>1, <2>2 DEF Words
<1> QED BY <1>1, OnTheWayInit, OnTheWayStep, Invariant, PTL DEF Spec

\* Notes, and messages, are about gates that a human wrote on.
Noted ==
  /\ \A i \in Gate : gate[i].note # None => i \in Written
  /\ \A t \in Tick : \A i \in Gate : tick[t].noted[i] # None => i \in Written
  /\ \A x \in Said : x.about \in Written
  /\ Cardinality(Written) <= MaxNoted

\* Without a delegate every gate is answered, and its note announced, once.
SentOnce ==
  ~delegate =>
    /\ \A i \in Gate : asks[i] = 0
    /\ \A t \in Tick : tick[t].todo = {}
    /\ \A n, m \in DOMAIN sent : sent[m].about = sent[n].about => m = n
    /\ \A n \in DOMAIN sent : sent[n].about # saying.about

LEMMA WrittenFinite == IsFiniteSet(Written) /\ Written \subseteq Gate
<1>1. Written \subseteq Gate /\ IsFiniteSet(Gate)
  BY GateNat, FS_Interval DEF Written
<1> QED BY <1>1, FS_Subset

\* A human writes on no more gates than the bound.
LEMMA FewNotes ==
  ASSUME Inv, Noted, NEW i \in Gate, NEW text \in Text \cup {None}, Write(i, text)
  PROVE  /\ Cardinality(Written') <= MaxNoted /\ Written \subseteq Written'
         /\ text # None => i \in Written'
<1>1. IsFiniteSet(Written) /\ Cardinality(Written) \in Nat /\ MaxNoted \in Nat
  BY WrittenFinite, FS_CardinalityType, GatesAssumption
<1>2. wrote \in [Gate -> Text \cup {None}]
        /\ wrote' = [wrote EXCEPT ![i] = IF text # None THEN text ELSE @]
  BY DEF Inv, TypeOK, Write
<1>3. Written' = IF text # None THEN Written \cup {i} ELSE Written
  BY <1>2 DEF Written
<1>4. CASE text = None \/ i \in Written
  <2>1. Written' = Written
    BY <1>3, <1>4
  <2> QED BY <1>3, <1>4, <2>1 DEF Noted
<1>5. CASE text # None /\ i \notin Written
  <2>1. Cardinality(Written \cup {i}) = Cardinality(Written) + 1
    BY <1>1, <1>5, FS_AddElement
  <2>2. Cardinality(Written) < MaxNoted
    BY <1>5 DEF Write, MayWrite
  <2>3. Cardinality(Written \cup {i}) <= MaxNoted
    BY <1>1, <2>1, <2>2
  <2> QED BY <1>3, <1>5, <2>3
<1> QED BY <1>4, <1>5

LEMMA NotedKept ==
  ASSUME Inv, Noted, wrote' = wrote, Said' \subseteq Said,
         \A i \in Gate : gate'[i].note = gate[i].note,
         \A t \in Tick : \A i \in Gate : tick'[t].noted[i] # None => i \in Written
  PROVE  Noted'
<1>1. Written' = Written
  BY DEF Written
<1> QED BY <1>1 DEF Noted

LEMMA DecideNoted ==
  ASSUME Inv, Noted, NEW i \in Gate, NEW d \in Decision, NEW by \in {"human", "delegate"},
         NEW note \in Text \cup {None}, NEW spent \in BOOLEAN, Decide(i, d, by, note, spent),
         Written \subseteq Written', note # None => i \in Written', Cardinality(Written') <= MaxNoted,
         \A t \in Tick : \A j \in Gate : tick'[t].noted[j] \in {tick[t].noted[j], None}
  PROVE  Noted'
<1>1. /\ gate'[i].note = note /\ \A j \in Gate : j # i => gate'[j] = gate[j]
      /\ sent' = sent /\ saying' = IF note # None THEN [about |-> i, text |-> note] ELSE saying
  <2>1. gate'[i].note = note /\ \A j \in Gate : j # i => gate'[j] = gate[j]
    BY DecideSays
  <2> QED BY <2>1 DEF Decide
<1>2. ASSUME NEW x \in Said' PROVE x.about \in Written'
  <2>1. x \in Said \/ (note # None /\ x = [about |-> i, text |-> note])
    BY <1>1 DEF Said
  <2> QED BY <2>1 DEF Noted
<1> QED BY <1>1, <1>2 DEF Noted

\* What is said after announcing, or failing to.
LEMMA SaidLess ==
  ASSUME Inv, Deliver \/ FailAnnounce \/ Restart
  PROVE  Said' \subseteq Said
<1>1. CASE Deliver
  <2>1. saying' = Silence /\ sent' = Append(sent, saying) /\ saying # Silence
    BY <1>1 DEF Deliver
  <2>2. /\ \A n \in DOMAIN sent' : n \in DOMAIN sent \/ n = Len(sent) + 1
        /\ \A n \in DOMAIN sent : sent'[n] = sent[n]
        /\ sent'[Len(sent) + 1] = saying
    BY <2>1 DEF Inv, TypeOK
  <2> QED BY <2>1, <2>2 DEF Said
<1>2. CASE FailAnnounce \/ Restart
  BY <1>2 DEF FailAnnounce, Restart, CutOff, Said
<1> QED BY <1>1, <1>2

LEMMA NotedStep == Inv /\ Noted /\ [Next]_vars => Noted'
<1> SUFFICES ASSUME Inv, Noted, [Next]_vars PROVE Noted'
  OBVIOUS
<1>t. /\ gate \in [Gate -> Record]
      /\ tick \in [Tick -> [todo : SUBSET Gate, noted : [Gate -> Text \cup {None}]]]
  BY DEF Inv, TypeOK
<1>n. \A i \in Gate : gate[i].note \in Text \cup {None} /\ gate[i].spent \in BOOLEAN
  BY <1>t DEF Record
<1>o. /\ \A t \in Tick : \A i \in Gate : tick[t].noted[i] # None => i \in Written
      /\ \A i \in Gate : gate[i].note # None => i \in Written
      /\ Cardinality(Written) <= MaxNoted
  BY DEF Noted
<1>w. wrote' = wrote => Written' = Written
  BY DEF Written
<1>s. CASE gate' = gate /\ bus' = bus /\ wrote' = wrote
           /\ \A t \in Tick : \A i \in Gate : tick'[t].noted[i] # None => i \in Written
  <2>1. Said' = Said
    BY <1>s DEF Said, bus
  <2> QED BY <1>s, <2>1, NotedKept
<1>1. ASSUME NEW h \in Hook, HookStep(h) PROVE Noted'
  <2>1. /\ wrote' = wrote /\ saying' = saying /\ sent' = sent /\ tick' = tick
        /\ \A i \in Gate : gate'[i].note = gate[i].note
    BY <1>1, HookSaysNothing
  <2>2. Said' = Said
    BY <2>1 DEF Said
  <2> QED BY <1>o, <2>1, <2>2, NotedKept
<1>2. ASSUME NEW i \in Gate, GateStep(i) PROVE Noted'
  <2>1. ASSUME NEW d \in Decision, NEW text \in Text \cup {None}, Respond(i, d, text) PROVE Noted'
    <3> DEFINE note == IF text # None THEN text ELSE gate[i].note
    <3>1. note \in Text \cup {None}
      BY <1>n
    <3>2. Decide(i, d, "human", note, gate[i].spent) /\ tick' = tick
      BY <2>1 DEF Respond
    <3>3. Cardinality(Written') <= MaxNoted /\ Written \subseteq Written' /\ (text # None => i \in Written')
      BY <2>1, FewNotes DEF Respond
    <3>4. note # None => i \in Written'
      BY <1>o, <3>3
    <3> HIDE DEF note
    <3> QED BY <1>n, <3>1, <3>2, <3>3, <3>4, DecideNoted
  <2>2. ASSUME NEW text \in Text, AddNote(i, text) PROVE Noted'
    <3>1. /\ gate' = [gate EXCEPT ![i] = [gate[i] EXCEPT !.note = text]]
          /\ bus' = bus /\ tick' = tick /\ text # None
      BY <2>2, GatesAssumption DEF AddNote, Put
    <3>2. \A j \in Gate : j # i => gate'[j] = gate[j]
      BY <1>t, <3>1
    <3>3. Cardinality(Written') <= MaxNoted /\ Written \subseteq Written' /\ i \in Written'
      BY <2>2, <3>1, FewNotes DEF AddNote
    <3>4. Said' = Said
      BY <3>1 DEF Said, bus
    <3> QED BY <1>o, <3>1, <3>2, <3>3, <3>4 DEF Noted
  <2>3. ASSUME NEW d \in Decision, Settle(i, d) PROVE Noted'
    <3>1. wrote' = wrote /\ tick' = tick
      BY <2>3 DEF Settle
    <3>2. CASE Pending(i)
      <4>1. Decide(i, d, "delegate", gate[i].note, gate[i].spent)
        BY <2>3, <3>2 DEF Settle
      <4> QED BY <1>n, <1>o, <1>w, <3>1, <4>1, DecideNoted
    <3>3. CASE ~Pending(i)
      BY <1>o, <1>s, <2>3, <3>1, <3>3 DEF Settle
    <3> QED BY <3>2, <3>3
  <2>4. CASE Elapse(i)
    BY <1>o, <1>s, <2>4 DEF Elapse
  <2> QED BY <1>2, <2>1, <2>2, <2>3, <2>4 DEF GateStep
<1>3. ASSUME NEW t \in Tick, TickStep(t) PROVE Noted'
  <2>1. ASSUME NEW i \in Gate, NEW d \in Decision, DecideTick(t, i, d) PROVE Noted'
    <3>1. tick[t].noted[i] \in Text \cup {None}
      BY NotedType DEF Inv
    <3>2. /\ Decide(i, d, "delegate", tick[t].noted[i], FALSE) /\ wrote' = wrote
          /\ tick' = [tick EXCEPT ![t].todo = @ \ {i}, ![t].noted[i] = None]
      BY <2>1 DEF DecideTick
    <3>3. \A k \in Tick : \A j \in Gate : tick'[k].noted[j] \in {tick[k].noted[j], None}
      BY <1>t, <3>2
    <3> QED BY <1>o, <1>w, <3>1, <3>2, <3>3, DecideNoted
  <2>2. CASE StartTick(t)
    <3> DEFINE noted == [j \in Gate |-> IF j \in Due THEN gate[j].note ELSE None]
    <3>1. tick' = [tick EXCEPT ![t] = [todo |-> Due, noted |-> noted]]
          /\ gate' = gate /\ bus' = bus /\ wrote' = wrote
      BY <2>2 DEF StartTick, records
    <3>2. \A j \in Gate : noted[j] # None => j \in Written
      BY <1>o
    <3> HIDE DEF noted
    <3>3. \A k \in Tick : tick'[k].noted \in {tick[k].noted, noted}
      BY <1>t, <3>1
    <3> QED BY <1>o, <1>s, <3>1, <3>2, <3>3
  <2>3. CASE FailTick(t)
    <3>1. tick' = [tick EXCEPT ![t] = Done] /\ gate' = gate /\ bus' = bus /\ wrote' = wrote
      BY <2>3 DEF FailTick, records
    <3>2. \A k \in Tick : \A i \in Gate : tick'[k].noted[i] # None => i \in Written
      BY <1>t, <1>o, <3>1 DEF Done
    <3> QED BY <1>s, <3>1, <3>2
  <2> QED BY <1>3, <2>1, <2>2, <2>3 DEF TickStep
<1>4. CASE Deliver \/ FailAnnounce \/ Restart
  <2>1. gate' = gate /\ wrote' = wrote
    BY <1>4 DEF Deliver, FailAnnounce, Restart, records
  <2>2. \A t \in Tick : \A i \in Gate : tick'[t].noted[i] # None => i \in Written
    BY <1>o, <1>4 DEF Deliver, FailAnnounce, Restart, Done
  <2> QED BY <1>4, <2>1, <2>2, SaidLess, NotedKept
<1>5. CASE UNCHANGED vars
  BY <1>o, <1>s, <1>5 DEF vars, records
<1> QED BY <1>1, <1>2, <1>3, <1>4, <1>5 DEF Next, Step

LEMMA NotedInit == Init => Noted
<1> SUFFICES ASSUME Init PROVE Noted
  OBVIOUS
<1>1. Written = {} /\ Said = {}
  BY DEF Init, Written, Said
<1>2. Cardinality(Written) <= MaxNoted
  BY <1>1, GatesAssumption, FS_EmptySet
<1>3. /\ \A i \in Gate : gate[i].note = None
      /\ \A t \in Tick : \A i \in Gate : tick[t].noted[i] = None
  BY DEF Init, Unraised, Done
<1> QED BY <1>1, <1>2, <1>3 DEF Noted

LEMMA NotedAlways == Spec => [](Inv /\ Noted)
BY NotedInit, NotedStep, Invariant, PTL DEF Spec

\* A message before which few wait fits.
LEMMA FirstFits ==
  ASSUME NEW msgs \in SUBSET Nat, msgs # {}, 1 <= ContextCap
  PROVE  \E m \in Fitting(msgs) : \A n \in msgs : m <= n
<1> DEFINE R == OpToRel(<, Nat)
<1>1. IsWellFoundedOn(R, Nat)
  BY NatLessThanWellFounded
<1>2. \A x, y \in Nat : y < x => <<y, x>> \in R
  BY DEF OpToRel
<1> HIDE DEF R
<1>3. PICK m \in msgs : \A n \in msgs : ~(<<n, m>> \in R)
  BY <1>1, WFMin
<1>4. \A n \in msgs : m <= n
  <2> TAKE n \in msgs
  <2>1. m \in Nat /\ n \in Nat /\ ~(n < m)
    BY <1>2, <1>3
  <2> QED BY <2>1
<1>5. {k \in msgs : k <= m} = {m}
  <2>1. \A k \in msgs : k \in Nat /\ m \in Nat /\ (k <= m <=> k = m)
    BY <1>4
  <2> QED BY <2>1
<1>6. m \in Fitting(msgs)
  BY <1>5, FS_Singleton DEF Fitting
<1> QED BY <1>4, <1>6

\* Messages that were sent are about gates with a note.
LEMMA SentAbout ==
  ASSUME Inv, Noted, NEW n \in DOMAIN sent
  PROVE  sent[n].about \in Written
<1>1. sent[n] \in Message
  BY DEF Inv, TypeOK
<1>2. sent[n].about \in Gate
  BY <1>1 DEF Message
<1>3. sent[n] # Silence
  BY <1>2, GateNat DEF Silence
<1> QED BY <1>3 DEF Noted, Said

LEMMA OneNoteFits ==
  ASSUME Inv, Noted, MaxNoted <= 1, 1 <= ContextCap
  PROVE  NotesFit
<1>1. \A i, j \in Written : i = j
  <2> SUFFICES ASSUME NEW i \in Written, NEW j \in Written, i # j PROVE FALSE
    OBVIOUS
  <2>1. IsFiniteSet(Written) /\ Cardinality(Written) \in Nat /\ Cardinality(Written) <= 1
    BY WrittenFinite, FS_CardinalityType, GatesAssumption DEF Noted
  <2>2. Cardinality({i, j}) = 2 /\ {i, j} \subseteq Written
    <3>1. IsFiniteSet({i}) /\ Cardinality({i}) = 1
      BY FS_Singleton
    <3>2. Cardinality({i} \cup {j}) = Cardinality({i}) + 1
      BY <3>1, FS_AddElement
    <3>3. {i} \cup {j} = {i, j}
      OBVIOUS
    <3> QED BY <3>1, <3>2, <3>3
  <2>3. Cardinality({i, j}) <= Cardinality(Written)
    BY <2>1, <2>2, FS_Subset
  <2> QED BY <2>1, <2>2, <2>3
<1>2. \A s \in Session : Inbox(s) \subseteq DOMAIN sent /\ Inbox(s) \in SUBSET Nat
  BY DEF Inv, TypeOK, Inbox
<1>3. \A n, m \in DOMAIN sent : sent[n].about = sent[m].about
  BY <1>1, SentAbout
<1> SUFFICES ASSUME NEW s \in Session, NEW n \in Inbox(s)
             PROVE  \E m \in Fitting(Inbox(s)) : sent[m].about = sent[n].about
  BY DEF NotesFit, OneFits
<1>4. \E m \in Fitting(Inbox(s)) : TRUE
  <2>1. PICK msgs : msgs = Inbox(s)
    OBVIOUS
  <2>2. \E m \in Fitting(msgs) : \A k \in msgs : m <= k
    BY <1>2, <2>1, FirstFits
  <2> QED BY <2>1, <2>2
<1>5. PICK m \in Fitting(Inbox(s)) : TRUE
  BY <1>4
<1>6. m \in Inbox(s)
  BY <1>5 DEF Fitting
<1> QED BY <1>2, <1>3, <1>5, <1>6

\* With notes on one gate, and room for one message, nothing that waits can push it out: even
\* when a delegate's answer sends a note again, both messages are about the same gate.
THEOREM OneNoteIsHeard ==
  ASSUME MaxNoted <= 1, 1 <= ContextCap
  PROVE  Spec => []NoteIsHeard
<1>1. Inv /\ Noted => NotesFit
  BY OneNoteFits
<1> QED BY <1>1, NotedAlways, NotesThatFitAreHeard, PTL

\* The messages about a gate that waits for its answer: none.
LEMMA PendingUnsaid ==
  ASSUME SaidFaithfully, NEW i \in Gate, Pending(i)
  PROVE  \A n \in DOMAIN sent : sent[n].about # i
<1> SUFFICES ASSUME NEW n \in DOMAIN sent, sent[n].about = i PROVE FALSE
  OBVIOUS
<1>1. sent[n] # Silence
  BY GateNat DEF Silence
<1>2. Resolved(i)
  BY <1>1 DEF SaidFaithfully, Said, Faithful
<1> QED BY <1>2 DEF Pending, Resolved, Decision

LEMMA SentOnceStep == Inv /\ OnTheWay /\ SentOnce /\ [Next]_vars => SentOnce'
<1> SUFFICES ASSUME Inv, SaidFaithfully, SentOnce, [Next]_vars, ~delegate PROVE SentOnce'
  BY FrameStep DEF OnTheWay, SentOnce
<1>t. /\ gate \in [Gate -> Record] /\ sent \in Seq(Message)
      /\ asks \in [Gate -> Nat] /\ tick \in [Tick -> [todo : SUBSET Gate, noted : [Gate -> Text \cup {None}]]]
  BY DEF Inv, TypeOK
<1>n. \A i \in Gate : gate[i].note \in Text \cup {None} /\ gate[i].spent \in BOOLEAN
  BY <1>t DEF Record
<1>o. /\ \A i \in Gate : asks[i] = 0
      /\ \A t \in Tick : tick[t].todo = {}
      /\ \A n, m \in DOMAIN sent : sent[m].about = sent[n].about => m = n
      /\ \A n \in DOMAIN sent : sent[n].about # saying.about
  BY DEF SentOnce
<1>m. \A n \in DOMAIN sent : sent[n].about # 0
  <2>1. \A n \in DOMAIN sent : sent[n] \in Message
    BY <1>t
  <2> QED BY <2>1, GateNat DEF Message
<1>s. CASE bus' = bus /\ asks' = asks /\ tick' = tick
  BY <1>o, <1>s DEF SentOnce, bus
<1>1. ASSUME NEW h \in Hook, HookStep(h) PROVE SentOnce'
  BY <1>1, <1>o, HookSaysNothing DEF SentOnce
<1>2. ASSUME NEW i \in Gate, GateStep(i) PROVE SentOnce'
  <2>1. ASSUME NEW d \in Decision, NEW text \in Text \cup {None}, Respond(i, d, text) PROVE SentOnce'
    <3> DEFINE note == IF text # None THEN text ELSE gate[i].note
    <3>1. note \in Text \cup {None} /\ Decide(i, d, "human", note, gate[i].spent) /\ Pending(i)
          /\ asks' = asks /\ tick' = tick
      BY <1>n, <2>1 DEF Respond
    <3> HIDE DEF note
    <3>2. sent' = sent /\ saying' = IF note # None THEN [about |-> i, text |-> note] ELSE saying
      BY <3>1 DEF Decide
    <3>3. \A n \in DOMAIN sent : sent[n].about # saying'.about
      BY <1>o, <3>1, <3>2, PendingUnsaid
    <3> QED BY <1>o, <3>1, <3>2, <3>3 DEF SentOnce
  <2>2. ASSUME NEW text \in Text, AddNote(i, text) PROVE SentOnce'
    BY <1>s, <2>2 DEF AddNote
  <2>3. ASSUME NEW d \in Decision, Settle(i, d) PROVE SentOnce'
    BY <1>o, <2>3 DEF Settle
  <2>4. CASE Elapse(i)
    BY <1>s, <2>4 DEF Elapse
  <2> QED BY <1>2, <2>1, <2>2, <2>3, <2>4 DEF GateStep
<1>3. ASSUME NEW t \in Tick, TickStep(t) PROVE SentOnce'
  BY <1>o, <1>3 DEF TickStep, StartTick, DecideTick, FailTick
<1>4. CASE Deliver
  <2>1. sent' = Append(sent, saying) /\ saying' = Silence /\ asks' = asks /\ tick' = tick
        /\ saying # Silence /\ saying \in Message
    BY <1>4 DEF Deliver, Inv, TypeOK
  <2>2. /\ \A n \in DOMAIN sent' : n \in DOMAIN sent \/ n = Len(sent) + 1
        /\ \A n \in DOMAIN sent : sent'[n] = sent[n]
        /\ sent'[Len(sent) + 1] = saying
    BY <1>t, <2>1
  <2>3. saying.about # 0
    BY <2>1, GateNat DEF Message
  <2>4. \A n, m \in DOMAIN sent' : sent'[m].about = sent'[n].about => m = n
    BY <1>o, <2>2
  <2>5. \A n \in DOMAIN sent' : sent'[n].about # saying'.about
    BY <1>m, <2>1, <2>2, <2>3 DEF Silence
  <2> QED BY <1>o, <2>1, <2>4, <2>5 DEF SentOnce
<1>5. CASE FailAnnounce \/ Restart
  <2>1. sent' = sent /\ saying' = Silence
    BY <1>5 DEF FailAnnounce, Restart, CutOff
  <2>2. (\A i \in Gate : asks'[i] = 0) /\ (\A t \in Tick : tick'[t].todo = {})
    BY <1>o, <1>5 DEF FailAnnounce, Restart, Done
  <2> QED BY <1>m, <1>o, <2>1, <2>2 DEF SentOnce, Silence
<1>6. CASE UNCHANGED vars
  BY <1>s, <1>6 DEF vars
<1> QED BY <1>1, <1>2, <1>3, <1>4, <1>5, <1>6 DEF Next, Step

\* As many messages wait as gates have notes, which is no more than fit.
LEMMA EveryNoteFits ==
  ASSUME Inv, Noted, SentOnce, ~delegate, MaxNoted <= ContextCap
  PROVE  NotesFit
<1> SUFFICES ASSUME NEW s \in Session PROVE OneFits(Inbox(s))
  BY DEF NotesFit
<1>1. PICK msgs : msgs = Inbox(s)
  OBVIOUS
<1>2. msgs \subseteq DOMAIN sent
  BY <1>1 DEF Inv, TypeOK, Inbox
<1>3. IsFiniteSet(Written) /\ Cardinality(Written) \in Nat /\ Cardinality(Written) <= MaxNoted
      /\ MaxNoted \in Nat /\ ContextCap \in Nat
  BY WrittenFinite, FS_CardinalityType, GatesAssumption DEF Noted
<1> DEFINE about == [n \in msgs |-> sent[n].about]
<1>4. about \in Injection(msgs, Written)
  <2>1. about \in [msgs -> Written]
    BY <1>2, SentAbout
  <2>2. \A n, m \in msgs : about[n] = about[m] => n = m
    BY <1>2 DEF SentOnce
  <2> QED BY <2>1, <2>2 DEF Injection, IsInjective
<1> HIDE DEF about
<1>5. IsFiniteSet(msgs) /\ Cardinality(msgs) <= Cardinality(Written)
  BY <1>3, <1>4, FS_Injection
<1>6. Cardinality(msgs) \in Nat /\ Cardinality(msgs) <= ContextCap
  BY <1>3, <1>5, FS_CardinalityType
<1>7. ASSUME NEW m \in msgs PROVE m \in Fitting(msgs)
  <2> DEFINE older == {k \in msgs : k <= m}
  <2>1. older \subseteq msgs
    OBVIOUS
  <2>2. Cardinality(older) \in Nat /\ Cardinality(older) <= Cardinality(msgs)
    BY <1>5, <2>1, FS_Subset, FS_CardinalityType
  <2>3. Cardinality(older) <= ContextCap
    BY <1>3, <1>6, <2>2
  <2> QED BY <2>3 DEF Fitting
<1>8. OneFits(msgs)
  BY <1>7 DEF OneFits
<1> QED BY <1>1, <1>8

\* As the daemon is shipped, without a delegate, each note is sent once: then it is enough
\* that a call's context has room for all the notes there are.
THEOREM WithoutDelegateNotesAreHeard ==
  ASSUME Delegates = {FALSE}, MaxNoted <= ContextCap
  PROVE  Spec => []NoteIsHeard
<1> DEFINE Whole == Inv /\ Noted /\ OnTheWay /\ SentOnce /\ ~delegate
<1>1. Init => Whole
  <2> SUFFICES ASSUME Init PROVE Whole
    OBVIOUS
  <2>1. SentOnce /\ ~delegate
    BY DEF Init, SentOnce, Done
  <2> QED BY <2>1, InvInit, NotedInit, OnTheWayInit
<1>2. Whole /\ [Next]_vars => Whole'
  <2> SUFFICES ASSUME Whole, [Next]_vars PROVE Whole'
    OBVIOUS
  <2>1. NotesFit
    BY EveryNoteFits
  <2>2. delegate' = delegate
    BY FrameStep
  <2> QED BY <2>1, <2>2, InvStep, NotedStep, OnTheWayStep, SentOnceStep
<1>3. Whole => NotesFit
  BY EveryNoteFits
<1> HIDE DEF Whole
<1> QED BY <1>1, <1>2, <1>3, NotesThatFitAreHeard, PTL DEF Spec

-------------------------------------------------------------------------------
(* Gates implement Permits *)

\* A hook at rest has no call, any other has one; a gate that was raised waits or is answered;
\* without a delegate the approval that is about to be spent is still one.
InFlight ==
  \A h \in Hook : IF hook[h].pc = "idle" THEN hook[h].who = None /\ hook[h].what = None
                                         ELSE hook[h].who \in Session /\ hook[h].what \in Call
RaisedStand == \A i \in 1..raised : Pending(i) \/ Resolved(i)
YesStands == ~delegate => \A h \in Hook : hook[h].pc = "spend" => gate[hook[h].yes].answer = "approve"

Permitting == InFlight /\ RaisedStand /\ YesStands

\* What a step does to one gate of those there are.
Writes(i, answer, spent) ==
  /\ \A j \in Gate : j # i => gate'[j] = gate[j]
  /\ gate'[i].answer = answer /\ gate'[i].spent = spent
Owned(i) == gate'[i].who = gate[i].who /\ gate'[i].what = gate[i].what

LEMMA DecideWrites ==
  ASSUME Inv, NEW i \in Gate, NEW d \in Decision, NEW by \in {"human", "delegate"},
         NEW note \in Text \cup {None}, NEW spent \in BOOLEAN, Decide(i, d, by, note, spent)
  PROVE  Writes(i, d, spent) /\ Owned(i)
<1>1. gate \in [Gate -> Record] /\ gate[i] \in Record
  BY DEF Inv, TypeOK
<1>2. gate' = [gate EXCEPT ![i] = [gate[i] EXCEPT !.answer = d, !.by = by, !.note = note, !.spent = spent]]
  BY DEF Decide, Put
<1>3. gate'[i] = [gate[i] EXCEPT !.answer = d, !.by = by, !.note = note, !.spent = spent]
  BY <1>1, <1>2, Zenon
<1>4. gate'[i].answer = d /\ gate'[i].spent = spent /\ Owned(i)
  BY <1>1, <1>3 DEF Record, Owned
<1> QED BY <1>1, <1>2, <1>4 DEF Writes

\* What a hook's step does to its locals.
Begins(h) ==
  /\ hook[h].pc = "idle" /\ gate' = gate /\ raised' = raised
  /\ hook'[h].who \in Session /\ hook'[h].what \in Call /\ hook'[h].used = 0
  /\ hook'[h].pc \notin {"idle", "spend"}
Ends(h) == gate' = gate /\ raised' = raised /\ hook'[h] = Idle
GoesOn(h) ==
  /\ hook[h].pc # "idle" /\ hook'[h].pc # "idle"
  /\ hook'[h].who = hook[h].who /\ hook'[h].what = hook[h].what
Looks(h) ==
  /\ GoesOn(h) /\ hook'[h].used = hook[h].used /\ gate' = gate /\ raised' = raised
  /\ hook'[h].pc = "spend" => gate[hook'[h].yes].answer = "approve"
Asks(h) ==
  /\ GoesOn(h) /\ hook'[h].used = hook[h].used /\ hook'[h].pc # "spend"
  /\ raised' = raised + 1 /\ raised' \in Gate /\ Writes(raised', "pending", FALSE)
  /\ gate'[raised'].who = hook[h].who /\ gate'[raised'].what = hook[h].what
Uses(h) ==
  /\ GoesOn(h) /\ hook[h].pc = "spend" /\ hook'[h].pc # "spend" /\ raised' = raised
  /\ hook'[h].used = hook[h].yes /\ hook[h].yes \in Gate /\ ~gate[hook[h].yes].spent
  /\ Writes(hook[h].yes, gate[hook[h].yes].answer, TRUE) /\ Owned(hook[h].yes)

LEMMA HookGoes ==
  ASSUME Inv, NEW h \in Hook, HookStep(h)
  PROVE  /\ \A k \in Hook : k # h => hook'[k] = hook[k]
         /\ Begins(h) \/ Ends(h) \/ Looks(h) \/ Asks(h) \/ Uses(h)
<1>t. hook \in [Hook -> Attempt] /\ hook[h] \in Attempt /\ gate \in [Gate -> Record] /\ raised \in 0..MaxGates
  BY DEF Inv, TypeOK
<1>g. ASSUME NEW r, Go(h, r) PROVE hook'[h] = r /\ \A k \in Hook : k # h => hook'[k] = hook[k]
  BY <1>g, <1>t DEF Go
<1>1. ASSUME NEW s \in Session, NEW c \in Call, NEW v \in Verdict, NEW channel \in BOOLEAN,
             Begin(h, s, c, v, channel)
      PROVE  Begins(h) /\ \A k \in Hook : k # h => hook'[k] = hook[k]
  <2> DEFINE polled == IF channel THEN Inbox(s) ELSE {}
             where == CASE v = "ask" -> "match" [] v = "allow" -> "classify" [] v = "deny" -> "finish"
             locals == [Idle EXCEPT !.who = s, !.what = c, !.verdict = v, !.ack = polled, !.pc = where]
  <2>1. Go(h, locals)
    BY <1>1 DEF Begin
  <2>2. locals.who = s /\ locals.what = c /\ locals.used = 0 /\ locals.pc \notin {"idle", "spend"}
    BY DEF Idle, Verdict
  <2>3. hook[h].pc = "idle" /\ gate' = gate /\ raised' = raised
    BY <1>1 DEF Begin, records
  <2> HIDE DEF locals
  <2> QED BY <1>g, <2>1, <2>2, <2>3 DEF Begins
<1>2. ASSUME NEW band \in {"allow", "deny", "route"}, Classify(h, band)
      PROVE  Looks(h) /\ \A k \in Hook : k # h => hook'[k] = hook[k]
  <2> DEFINE locals == [hook[h] EXCEPT !.tier = "classifier",
                          !.pc = IF band = "route" THEN "match" ELSE "finish",
                          !.verdict = IF band = "deny" THEN "deny" ELSE @]
  <2>1. Go(h, locals) /\ hook[h].pc = "classify" /\ gate' = gate /\ raised' = raised
    BY <1>2 DEF Classify, records
  <2>2. /\ locals.who = hook[h].who /\ locals.what = hook[h].what /\ locals.used = hook[h].used
        /\ locals.pc \notin {"idle", "spend"}
    BY <1>t DEF Attempt
  <2> HIDE DEF locals
  <2> QED BY <1>g, <2>1, <2>2 DEF Looks, GoesOn
<1>3. ASSUME NEW i \in Gate, Match(h, i) PROVE Looks(h) /\ \A k \in Hook : k # h => hook'[k] = hook[k]
  <2> DEFINE locals == [hook[h] EXCEPT !.pc = "spend", !.yes = i, !.otherwise = Reading(h)]
  <2>1. Go(h, locals) /\ hook[h].pc = "match" /\ gate' = gate /\ raised' = raised /\ gate[i].answer = "approve"
    BY <1>3 DEF Match, records, Approvals
  <2>2. /\ locals.who = hook[h].who /\ locals.what = hook[h].what /\ locals.used = hook[h].used
        /\ locals.pc = "spend" /\ locals.yes = i
    BY <1>t DEF Attempt
  <2> HIDE DEF locals
  <2> QED BY <1>g, <2>1, <2>2 DEF Looks, GoesOn
<1>4. CASE Spend(h)
  <2> DEFINE i == hook[h].yes
             locals == [hook[h] EXCEPT !.used = i, !.verdict = "allow", !.yes = 0, !.otherwise = "raise",
                                       !.pc = IF hook[h].tier = "policy" THEN "classify" ELSE "finish"]
  <2>1. /\ Go(h, locals) /\ hook[h].pc = "spend" /\ ~gate[i].spent /\ Put(i, [gate[i] EXCEPT !.spent = TRUE])
        /\ raised' = raised
    BY <1>4 DEF Spend
  <2>2. /\ locals.who = hook[h].who /\ locals.what = hook[h].what /\ locals.used = i
        /\ locals.pc \notin {"idle", "spend"}
    BY <1>t DEF Attempt
  <2>3. i \in Gate
    BY <2>1, <1>t, GateNat DEF Inv, Chosen, ChosenBy
  <2> HIDE DEF locals, i
  <2>4. [gate[i] EXCEPT !.spent = TRUE] \in Record
    <3>1. gate[i] \in Record
      BY <1>t, <2>3
    <3> QED BY <3>1, Zenon DEF Record
  <2>5. gate'[i] = [gate[i] EXCEPT !.spent = TRUE] /\ \A j \in Gate : j # i => gate'[j] = gate[j]
    BY <2>1, <2>3, <2>4, PutType DEF Inv
  <2>6. /\ gate'[i].who = gate[i].who /\ gate'[i].what = gate[i].what
        /\ gate'[i].answer = gate[i].answer /\ gate'[i].spent = TRUE
    BY <1>t, <2>3, <2>5 DEF Record
  <2>7. GoesOn(h) /\ hook'[h].used = i /\ hook'[h].pc # "spend" /\ \A k \in Hook : k # h => hook'[k] = hook[k]
    BY <1>g, <2>1, <2>2 DEF GoesOn
  <2>8. Writes(i, gate[i].answer, TRUE) /\ Owned(i)
    BY <2>5, <2>6 DEF Writes, Owned
  <2> QED BY <2>1, <2>3, <2>7, <2>8 DEF Uses, i
<1>5. CASE SpentAlready(h)
  <2> DEFINE locals == [hook[h] EXCEPT !.pc = "place", !.yes = 0]
  <2>1. Go(h, locals) /\ hook[h].pc = "spend" /\ gate' = gate /\ raised' = raised
    BY <1>5 DEF SpentAlready, records
  <2>2. /\ locals.who = hook[h].who /\ locals.what = hook[h].what /\ locals.used = hook[h].used
        /\ locals.pc \notin {"idle", "spend"}
    BY <1>t DEF Attempt
  <2> HIDE DEF locals
  <2> QED BY <1>g, <2>1, <2>2 DEF Looks, GoesOn
<1>6. ASSUME Reuse(h) \/ \E p \in {"human", "human_timeout"}, q \in BOOLEAN : Raise(h, p, q)
      PROVE  /\ GoesOn(h) /\ hook'[h].used = hook[h].used /\ hook'[h].pc # "spend"
             /\ \A k \in Hook : k # h => hook'[k] = hook[k]
  <2> DEFINE locals == [hook[h] EXCEPT !.verdict = "deny", !.pc = "finish", !.otherwise = "raise"]
  <2>1. Go(h, locals) /\ hook[h].pc # "idle"
    BY <1>6 DEF Reuse, Raise, WithoutApproval
  <2>2. /\ locals.who = hook[h].who /\ locals.what = hook[h].what /\ locals.used = hook[h].used
        /\ locals.pc \notin {"idle", "spend"}
    BY <1>t DEF Attempt
  <2> HIDE DEF locals
  <2> QED BY <1>g, <2>1, <2>2 DEF GoesOn
<1>7. ASSUME NEW p \in {"human", "human_timeout"}, NEW q \in BOOLEAN, Raise(h, p, q) PROVE Asks(h)
  <2> DEFINE record == [Unraised EXCEPT !.who = hook[h].who, !.what = hook[h].what,
                          !.answer = "pending", !.owner = IF q THEN "human" ELSE p]
  <2>1. record.who = hook[h].who /\ record.what = hook[h].what /\ record.answer = "pending" /\ record.spent = FALSE
    BY DEF Unraised
  <2>2. gate' = [gate EXCEPT ![raised + 1] = record] /\ raised' = raised + 1 /\ raised + 1 \in Gate
    BY <1>7, <1>t, GateNat DEF Raise, Put
  <2> HIDE DEF record
  <2>3. gate'[raised'] = record /\ \A j \in Gate : j # raised' => gate'[j] = gate[j]
    BY <1>t, <2>2
  <2> QED BY <1>6, <1>7, <2>1, <2>2, <2>3 DEF Asks, Writes
<1>8. CASE Reuse(h)
  <2>1. gate' = gate /\ raised' = raised
    BY <1>8 DEF Reuse, records
  <2> QED BY <1>6, <1>8, <2>1 DEF Looks
<1>9. CASE Finish(h)
  <2>1. Go(h, Idle) /\ gate' = gate /\ raised' = raised
    BY <1>9 DEF Finish, records
  <2> QED BY <1>g, <2>1 DEF Ends
<1> QED BY <1>1, <1>2, <1>3, <1>4, <1>5, <1>6, <1>7, <1>8, <1>9 DEF HookStep

\* What the other steps do: they leave the hooks, or end them all, and answer one gate at most.
Stays == \A i \in Gate : Owned(i) /\ gate'[i].answer = gate[i].answer /\ gate'[i].spent = gate[i].spent
Answers(i, d) == i \in 1..raised /\ Pending(i) /\ Writes(i, d, gate[i].spent) /\ Owned(i)
Overrules(i, d) == i \in 1..raised /\ delegate /\ Writes(i, d, FALSE) /\ Owned(i)

LEMMA GateGoes ==
  ASSUME Inv, [Next]_vars, \A h \in Hook : ~HookStep(h)
  PROVE  /\ raised' = raised
         /\ \/ Stays
            \/ hook' = hook /\ \E i \in Gate, d \in Decision : Answers(i, d) \/ Overrules(i, d)
<1>t. gate \in [Gate -> Record] /\ raised \in 0..MaxGates /\ late \subseteq 1..raised
  BY DEF Inv, TypeOK
<1>n. \A i \in Gate : gate[i].note \in Text \cup {None} /\ gate[i].spent \in BOOLEAN
  BY <1>t DEF Record
<1>p. \A i \in Gate : Pending(i) => i \in 1..raised
  BY <1>t, GateNat DEF Inv, Fresh, Unraised, Pending
<1>r. raised' = raised
  BY DEF Next, Step, GateStep, Respond, AddNote, Settle, Elapse, TickStep, StartTick, DecideTick, FailTick,
         Deliver, FailAnnounce, CutOff, Restart, vars, records
<1>s. gate' = gate => Stays
  BY DEF Stays, Owned
<1>1. ASSUME NEW i \in Gate, NEW d \in Decision, NEW text \in Text \cup {None}, Respond(i, d, text)
      PROVE  hook' = hook /\ Answers(i, d)
  <2>1. (IF text # None THEN text ELSE gate[i].note) \in Text \cup {None}
    BY <1>n
  <2>2. Writes(i, d, gate[i].spent) /\ Owned(i)
    BY <1>1, <1>n, <2>1, DecideWrites DEF Respond
  <2> QED BY <1>1, <1>p, <2>2 DEF Respond, Answers
<1>2. ASSUME NEW i \in Gate, NEW text \in Text, AddNote(i, text) PROVE Stays
  <2>1. gate' = [gate EXCEPT ![i] = [gate[i] EXCEPT !.note = text]]
    BY <1>2 DEF AddNote, Put
  <2> SUFFICES ASSUME NEW j \in Gate
               PROVE  Owned(j) /\ gate'[j].answer = gate[j].answer /\ gate'[j].spent = gate[j].spent
    BY DEF Stays
  <2>2. CASE j = i
    <3>1. gate'[j] = [gate[j] EXCEPT !.note = text]
      BY <1>t, <2>1, <2>2, Zenon
    <3> QED BY <1>t, <3>1 DEF Record, Owned
  <2>3. CASE j # i
    BY <1>t, <2>1, <2>3 DEF Owned
  <2> QED BY <2>2, <2>3
<1>3. ASSUME NEW i \in Gate, NEW d \in Decision, Settle(i, d) PROVE Stays \/ (hook' = hook /\ Answers(i, d))
  <2>1. CASE Pending(i)
    <3>1. Writes(i, d, gate[i].spent) /\ Owned(i)
      BY <1>3, <1>n, <2>1, DecideWrites DEF Settle
    <3> QED BY <1>3, <1>p, <2>1, <3>1 DEF Settle, Answers
  <2>2. CASE ~Pending(i)
    BY <1>3, <1>s, <2>2 DEF Settle
  <2> QED BY <2>1, <2>2
<1>4. ASSUME NEW t \in Tick, NEW i \in Gate, NEW d \in Decision, DecideTick(t, i, d)
      PROVE  hook' = hook /\ Overrules(i, d)
  <2>1. tick[t].noted[i] \in Text \cup {None}
    BY NotedType DEF Inv
  <2>2. Writes(i, d, FALSE) /\ Owned(i)
    BY <1>4, <2>1, DecideWrites DEF DecideTick
  <2>3. delegate /\ i \in 1..raised
    BY <1>4, <1>t DEF Inv, Awaited, DecideTick
  <2> QED BY <1>4, <2>2, <2>3 DEF DecideTick, Overrules
<1>5. ASSUME NEW i \in Gate, GateStep(i)
      PROVE  Stays \/ (hook' = hook /\ \E d \in Decision : Answers(i, d))
  <2>1. CASE Elapse(i)
    BY <1>s, <2>1 DEF Elapse
  <2> QED BY <1>1, <1>2, <1>3, <1>5, <2>1 DEF GateStep
<1>6. ASSUME NEW t \in Tick, TickStep(t)
      PROVE  Stays \/ (hook' = hook /\ \E i \in Gate, d \in Decision : Overrules(i, d))
  <2>1. CASE StartTick(t) \/ FailTick(t)
    BY <1>s, <2>1 DEF StartTick, FailTick, records
  <2> QED BY <1>4, <1>6, <2>1 DEF TickStep
<1>7. CASE Deliver \/ FailAnnounce \/ Restart \/ UNCHANGED vars
  BY <1>s, <1>7 DEF Deliver, FailAnnounce, CutOff, Restart, vars, records
<1> QED BY <1>r, <1>5, <1>6, <1>7 DEF Next, Step

LEMMA PermittingStep == Inv /\ Permitting /\ [Next]_vars => Permitting'
<1> SUFFICES ASSUME Inv, Permitting, [Next]_vars PROVE Permitting'
  OBVIOUS
<1>t. raised \in 0..MaxGates /\ hook \in [Hook -> Attempt]
  BY DEF Inv, TypeOK
<1>d. delegate' = delegate
  BY FrameStep
\* Without a delegate an answered gate keeps its answer.
<1>a. ASSUME NEW i \in Gate, ~delegate, gate[i].answer = "approve" PROVE gate'[i].answer = "approve"
  <2>1. \A t \in Tick : i \notin tick[t].todo
    BY <1>a DEF Inv, Awaited
  <2>2. Resolved(i)
    BY <1>a DEF Resolved, Decision
  <2> QED BY <1>a, <2>1, <2>2, StandsStep
<1>y. ASSUME NEW h \in Hook, hook[h].pc = "spend" PROVE hook[h].yes \in Gate
  BY <1>y, <1>t, GateNat DEF Inv, Chosen, ChosenBy
<1>1. ASSUME NEW h \in Hook, HookStep(h) PROVE Permitting'
  <2>1. \A k \in Hook : k # h => hook'[k] = hook[k]
    BY <1>1, HookGoes
  <2>2. Begins(h) \/ Ends(h) \/ Looks(h) \/ Asks(h) \/ Uses(h)
    BY <1>1, HookGoes
  <2>i. Idle.pc = "idle" /\ Idle.who = None /\ Idle.what = None
    BY DEF Idle
  <2>3. InFlight'
    <3> SUFFICES ASSUME NEW k \in Hook
                 PROVE  IF hook'[k].pc = "idle" THEN hook'[k].who = None /\ hook'[k].what = None
                                                ELSE hook'[k].who \in Session /\ hook'[k].what \in Call
      BY DEF InFlight
    <3>1. CASE k # h
      BY <2>1, <3>1 DEF Permitting, InFlight
    <3>2. CASE k = h /\ Begins(h)
      BY <3>2 DEF Begins
    <3>3. CASE k = h /\ Ends(h)
      BY <2>i, <3>3 DEF Ends
    <3>4. CASE k = h /\ GoesOn(h)
      BY <3>4 DEF Permitting, InFlight, GoesOn
    <3> QED BY <2>2, <3>1, <3>2, <3>3, <3>4 DEF Looks, Asks, Uses
  <2>4. RaisedStand'
    <3>1. CASE Asks(h)
      BY <1>t, <3>1, GateNat DEF Permitting, RaisedStand, Asks, Writes, Pending, Resolved
    <3>2. CASE Uses(h)
      BY <1>t, <3>2, GateNat DEF Permitting, RaisedStand, Uses, Writes, Pending, Resolved
    <3>3. CASE Begins(h) \/ Ends(h) \/ Looks(h)
      BY <3>3 DEF Permitting, RaisedStand, Begins, Ends, Looks, Pending, Resolved
    <3> QED BY <2>2, <3>1, <3>2, <3>3
  <2>5. YesStands'
    <3> SUFFICES ASSUME ~delegate, NEW k \in Hook, hook'[k].pc = "spend"
                 PROVE  gate'[hook'[k].yes].answer = "approve"
      BY <1>d DEF YesStands
    <3>1. CASE k = h
      <4>1. Looks(h)
        BY <2>2, <2>i, <3>1 DEF Begins, Ends, Asks, Uses
      <4> QED BY <3>1, <4>1 DEF Looks
    <3>2. CASE k # h
      BY <1>a, <1>y, <2>1, <3>2 DEF Permitting, YesStands
    <3> QED BY <3>1, <3>2
  <2> QED BY <2>3, <2>4, <2>5 DEF Permitting
<1>2. ASSUME \A h \in Hook : ~HookStep(h) PROVE Permitting'
  <2>1. hook' = hook \/ hook' = [h \in Hook |-> Idle]
    BY <1>2, OtherHooks
  <2>2. InFlight'
    BY <2>1 DEF Permitting, InFlight, Idle
  <2>3. /\ raised' = raised
        /\ Stays \/ \E i \in Gate, d \in Decision : Answers(i, d) \/ Overrules(i, d)
    BY <1>2, GateGoes
  <2>4. RaisedStand'
    BY <1>t, <2>3, GateNat
    DEF Permitting, RaisedStand, Stays, Answers, Overrules, Writes, Pending, Resolved
  <2>5. YesStands'
    <3> SUFFICES ASSUME ~delegate, NEW k \in Hook, hook'[k].pc = "spend"
                 PROVE  gate'[hook'[k].yes].answer = "approve"
      BY <1>d DEF YesStands
    <3>1. hook'[k] = hook[k]
      BY <2>1 DEF Idle
    <3> QED BY <1>a, <1>y, <3>1 DEF Permitting, YesStands
  <2> QED BY <2>2, <2>4, <2>5 DEF Permitting
<1> QED BY <1>1, <1>2

\* The same, of what Permits sees of gates and hooks.
LEMMA GatesSeen ==
  /\ Stays => AskedOf' = AskedOf /\ AnswerOf' = AnswerOf /\ UsedUp' = UsedUp
  /\ \A i \in Gate : \A a, spent : Writes(i, a, spent) =>
       /\ AnswerOf' = [AnswerOf EXCEPT ![i] = a]
       /\ UsedUp' = [UsedUp EXCEPT ![i] = spent]
       /\ AskedOf' = [AskedOf EXCEPT ![i] = <<gate'[i].who, gate'[i].what>>]
       /\ Owned(i) => AskedOf' = AskedOf
       /\ a = gate[i].answer => AnswerOf' = AnswerOf
       /\ spent = gate[i].spent => UsedUp' = UsedUp
<1>1. Stays => AskedOf' = AskedOf /\ AnswerOf' = AnswerOf /\ UsedUp' = UsedUp
  BY DEF Stays, Owned, AskedOf, AnswerOf, UsedUp
<1>2. ASSUME NEW i \in Gate, NEW a, NEW spent, Writes(i, a, spent)
      PROVE  /\ AnswerOf' = [AnswerOf EXCEPT ![i] = a]
             /\ a = gate[i].answer => AnswerOf' = AnswerOf
  BY <1>2 DEF Writes, AnswerOf
<1>3. ASSUME NEW i \in Gate, NEW a, NEW spent, Writes(i, a, spent)
      PROVE  /\ UsedUp' = [UsedUp EXCEPT ![i] = spent]
             /\ spent = gate[i].spent => UsedUp' = UsedUp
  BY <1>3 DEF Writes, UsedUp
<1>4. ASSUME NEW i \in Gate, NEW a, NEW spent, Writes(i, a, spent)
      PROVE  /\ AskedOf' = [AskedOf EXCEPT ![i] = <<gate'[i].who, gate'[i].what>>]
             /\ Owned(i) => AskedOf' = AskedOf
  BY <1>4 DEF Writes, Owned, AskedOf
<1> QED BY <1>1, <1>2, <1>3, <1>4

LEMMA HooksSeen ==
  ASSUME NEW h \in Hook, \A k \in Hook : k # h => hook'[k] = hook[k]
  PROVE  /\ Doing' = [Doing EXCEPT ![h] = <<hook'[h].who, hook'[h].what>>]
         /\ PassOf' = [PassOf EXCEPT ![h] = hook'[h].used]
         /\ GoesOn(h) => Doing' = Doing
         /\ hook'[h].used = hook[h].used => PassOf' = PassOf
<1>1. /\ Doing' = [Doing EXCEPT ![h] = <<hook'[h].who, hook'[h].what>>]
      /\ GoesOn(h) => Doing' = Doing
  BY DEF Doing, GoesOn
<1>2. /\ PassOf' = [PassOf EXCEPT ![h] = hook'[h].used]
      /\ hook'[h].used = hook[h].used => PassOf' = PassOf
  BY DEF PassOf
<1> QED BY <1>1, <1>2

seen == <<AskedOf, AnswerOf, UsedUp, Doing, PassOf, delegate>>

LEMMA PermitStep ==
  ASSUME Inv, Permitting, [Next]_vars
  PROVE  [Promise!Next]_seen
<1>t. raised \in 0..MaxGates /\ raised \in Nat /\ delegate' = delegate
  BY FrameStep DEF Inv, TypeOK
<1>i. Idle.who = None /\ Idle.what = None /\ Idle.used = 0
  BY DEF Idle
<1>g. \A i \in 1..raised : i \in Gate
  BY <1>t, GateNat
<1>1. ASSUME NEW h \in Hook, HookStep(h) PROVE [Promise!Next]_seen
  <2>1. \A k \in Hook : k # h => hook'[k] = hook[k]
    BY <1>1, HookGoes
  <2>2. /\ Doing' = [Doing EXCEPT ![h] = <<hook'[h].who, hook'[h].what>>]
        /\ PassOf' = [PassOf EXCEPT ![h] = hook'[h].used]
        /\ GoesOn(h) => Doing' = Doing
        /\ hook'[h].used = hook[h].used => PassOf' = PassOf
    BY <2>1, HooksSeen
  <2>3. gate' = gate => AskedOf' = AskedOf /\ AnswerOf' = AnswerOf /\ UsedUp' = UsedUp
    BY DEF AskedOf, AnswerOf, UsedUp
  <2>4. CASE Begins(h)
    <3>1. Doing[h] = <<None, None>>
      BY <2>4 DEF Begins, Permitting, InFlight, Doing
    <3>2. <<hook'[h].who, hook'[h].what>> \in Session \X Call /\ hook'[h].used = 0
      BY <2>4 DEF Begins
    <3>3. Promise!Try(h, <<hook'[h].who, hook'[h].what>>)
      BY <2>2, <3>1, <3>2 DEF Promise!Try
    <3>4. Promise!Next
      BY <1>t, <2>3, <2>4, <3>2, <3>3 DEF Promise!Next, Promise!gates, Begins
    <3> QED BY <3>4
  <2>5. CASE Ends(h)
    <3>1. Promise!End({h})
      BY <1>i, <2>2, <2>5 DEF Promise!End, Ends, Doing, PassOf
    <3>2. Promise!Next
      BY <1>t, <2>3, <2>5, <3>1 DEF Promise!Next, Promise!gates, Ends
    <3> QED BY <3>2
  <2>6. CASE Looks(h)
    BY <1>t, <2>2, <2>3, <2>6 DEF Looks, seen
  <2>7. CASE Asks(h)
    <3> DEFINE i == raised'
    <3>1. i \in Gate /\ i > raised
      BY <1>t, <2>7 DEF Asks
    <3>2. gate[i] = Unraised
      BY <3>1 DEF Inv, Fresh
    <3>3. AnswerOf[i] = "none" /\ gate[i].spent = FALSE
      BY <3>1, <3>2 DEF AnswerOf, Unraised
    <3>4. Doing[h] = <<hook[h].who, hook[h].what>> /\ Doing[h] # <<None, None>>
      BY <2>7, GatesAssumption DEF Asks, GoesOn, Permitting, InFlight, Doing
    <3>5. /\ AskedOf' = [AskedOf EXCEPT ![i] = Doing[h]] /\ AnswerOf' = [AnswerOf EXCEPT ![i] = "pending"]
          /\ UsedUp' = UsedUp
      <4>1. Writes(i, "pending", FALSE) /\ <<gate'[i].who, gate'[i].what>> = <<hook[h].who, hook[h].what>>
        BY <2>7 DEF Asks
      <4> HIDE DEF i
      <4>2. AnswerOf' = [AnswerOf EXCEPT ![i] = "pending"]
        BY <3>1, <4>1, GatesSeen
      <4>3. AskedOf' = [AskedOf EXCEPT ![i] = <<gate'[i].who, gate'[i].what>>]
        BY <3>1, <4>1, GatesSeen
      <4>4. UsedUp' = UsedUp
        <5>1. gate'[i].spent = gate[i].spent /\ \A j \in Gate : j # i => gate'[j] = gate[j]
          BY <3>3, <4>1 DEF Writes
        <5> QED BY <5>1 DEF UsedUp
      <4> QED BY <3>4, <4>1, <4>2, <4>3, <4>4
    <3>6. Promise!Ask(i, h)
      BY <3>3, <3>4, <3>5 DEF Promise!Ask
    <3>7. UNCHANGED <<Doing, PassOf>>
      BY <2>2, <2>7 DEF Asks
    <3> HIDE DEF i
    <3>8. Promise!Next
      BY <1>t, <3>1, <3>6, <3>7 DEF Promise!Next, Promise!attempts
    <3> QED BY <3>8
  <2>8. CASE Uses(h)
    <3> DEFINE i == hook[h].yes
    <3>1. i \in Gate /\ hook[h].pc = "spend" /\ ~gate[i].spent
      BY <2>8 DEF Uses
    <3>2. Resolved(i) /\ gate[i].who = hook[h].who /\ gate[i].what = hook[h].what
      BY <3>1 DEF Inv, Chosen, ChosenBy
    <3>3. AnswerOf[i] = "approve" \/ (delegate /\ AnswerOf[i] = "deny")
      <4>1. gate[i].answer \in Decision /\ (delegate \/ gate[i].answer = "approve")
        BY <3>1, <3>2 DEF Resolved, Permitting, YesStands
      <4> QED BY <3>1, <4>1 DEF AnswerOf, Decision
    <3>4. ~UsedUp[i] /\ AskedOf[i] = Doing[h]
      BY <3>1, <3>2 DEF UsedUp, AskedOf, Doing
    <3>5. /\ UsedUp' = [UsedUp EXCEPT ![i] = TRUE] /\ AskedOf' = AskedOf /\ AnswerOf' = AnswerOf
      BY <2>8, <3>1, GatesSeen DEF Uses
    <3>6. PassOf' = [PassOf EXCEPT ![h] = i] /\ Doing' = Doing
      BY <2>2, <2>8 DEF Uses
    <3>7. Promise!Let(h, i)
      BY <3>3, <3>4, <3>5, <3>6 DEF Promise!Let
    <3> HIDE DEF i
    <3>8. Promise!Next
      BY <1>t, <3>1, <3>7 DEF Promise!Next
    <3> QED BY <3>8
  <2> QED BY <1>1, <2>4, <2>5, <2>6, <2>7, <2>8, HookGoes
<1>2. ASSUME \A h \in Hook : ~HookStep(h) PROVE [Promise!Next]_seen
  <2>1. CASE hook' = hook /\ \E i \in Gate, d \in Decision : Answers(i, d) \/ Overrules(i, d)
    <3>1. PICK i \in Gate, d \in Decision : Answers(i, d) \/ Overrules(i, d)
      BY <2>1
    <3>2. UNCHANGED <<Doing, PassOf>>
      BY <2>1 DEF Doing, PassOf
    <3>3. CASE Answers(i, d)
      <4>1. AnswerOf[i] = "pending"
        BY <3>3 DEF Answers, Pending, AnswerOf
      <4>2. AnswerOf' = [AnswerOf EXCEPT ![i] = d] /\ AskedOf' = AskedOf /\ UsedUp' = UsedUp
        BY <3>3, GatesSeen DEF Answers
      <4>3. Promise!Answer(i, d)
        BY <4>1, <4>2 DEF Promise!Answer
      <4> QED BY <1>t, <3>2, <4>3 DEF Promise!Next, Promise!attempts, Decision
    <3>4. CASE Overrules(i, d)
      <4>1. AnswerOf[i] # "none" /\ delegate
        BY <3>4 DEF Overrules, Permitting, RaisedStand, Pending, Resolved, Decision, AnswerOf
      <4>2. /\ AnswerOf' = [AnswerOf EXCEPT ![i] = d] /\ AskedOf' = AskedOf
            /\ UsedUp' = [UsedUp EXCEPT ![i] = FALSE]
        BY <3>4, GatesSeen DEF Overrules
      <4>3. Promise!AnswerAgain(i, d)
        BY <4>1, <4>2 DEF Promise!AnswerAgain
      <4> QED BY <1>t, <3>2, <4>3 DEF Promise!Next, Promise!attempts, Decision
    <3> QED BY <3>1, <3>3, <3>4
  <2>2. CASE Stays
    <3>1. UNCHANGED <<AskedOf, AnswerOf, UsedUp>>
      BY <2>2, GatesSeen
    <3>2. CASE hook' = hook
      BY <1>t, <3>1, <3>2 DEF seen, Doing, PassOf
    <3>3. CASE hook' = [h \in Hook |-> Idle]
      <4>1. Promise!End(Hook)
        BY <1>i, <3>3 DEF Promise!End, Doing, PassOf
      <4> QED BY <1>t, <3>1, <4>1 DEF Promise!Next, Promise!gates
    <3> QED BY <1>2, <3>2, <3>3, OtherHooks
  <2> QED BY <1>2, <2>1, <2>2, GateGoes
<1> QED BY <1>1, <1>2

\* GateService and the route band implement Permits: whatever hooks, ticks, people, breakers
\* and restarts do and in whatever order, a call is let through on an unused yes to that
\* call of that agent, and an answer that was given changes by a delegate's only.
THEOREM Refinement == Spec => ImplementsPermits
<1>1. Init => Promise!Init /\ Permitting
  <2> SUFFICES ASSUME Init PROVE Promise!Init /\ Permitting
    OBVIOUS
  <2>1. Promise!Init
    BY GatesAssumption DEF Init, Promise!Init, AskedOf, AnswerOf, UsedUp, Doing, PassOf, Unraised, Idle
  <2>2. Permitting
    BY DEF Init, Permitting, InFlight, RaisedStand, YesStands, Idle
  <2> QED BY <2>1, <2>2
<1>2. Inv /\ Permitting /\ [Next]_vars => Permitting' /\ [Promise!Next]_seen
  BY PermittingStep, PermitStep
<1> QED BY <1>1, <1>2, Invariant, PTL DEF Spec, ImplementsPermits, Promise!Spec, seen
===============================================================================
