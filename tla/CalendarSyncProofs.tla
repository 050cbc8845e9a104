------------------------- MODULE CalendarSyncProofs -------------------------
(***************************************************************************)
(* The sync token never runs ahead of the rows, for any number of events,  *)
(* changes and overlapping syncs, pages of any size and any failures.      *)
(*                                                                         *)
(* NothingMissed says it of the token in the database.  The same must be   *)
(* known of the token a sync has loaded, because what it fetches starts    *)
(* there, and of the token it is about to store, where the rows it still   *)
(* has to write may be missing.                                            *)
(***************************************************************************)
EXTENDS CalendarSync, TLAPS

Sound(t, pending) == \A i \in Live : i <= t => i \in pending \/ Imported(i)

RunsAreSound ==
  \A r \in Runs :
    /\ run[r].base <= Len(log) /\ run[r].next <= Len(log)
    /\ run[r].items \subseteq DOMAIN log
    /\ run[r].phase = "loaded" => Sound(run[r].base, {})
    /\ run[r].phase = "applying" => Sound(run[r].next, run[r].items)

IInv == TypeOK /\ Sound(token, {}) /\ RunsAreSound

RunStates == [phase: {"idle", "loaded", "applying"}, base: Tokens,
              items: SUBSET Places, next: Tokens]

USE SyncAssumption DEF NoToken, Several

-----------------------------------------------------------------------------
(* Lemmas *)

\* The places of the log are those up to its length.
LEMMA LogPlaces ==
  ASSUME TypeOK
  PROVE  /\ Len(log) \in Nat /\ DOMAIN log = 1..Len(log) /\ DOMAIN log \subseteq Places
         /\ \A i \in DOMAIN log : log[i].kind \in {"put", "cancelled"}
         /\ token \in Int
         /\ \A r \in Runs : run[r] \in RunStates /\ run[r].next \in Int /\ run[r].base \in Int
<1>1. log \in Seq(Changes) /\ Len(log) <= MaxChanges
  BY DEF TypeOK
<1>2. Len(log) \in Nat /\ DOMAIN log = 1..Len(log) /\ \A i \in DOMAIN log : log[i] \in Changes
  BY <1>1
<1>3. \A i \in DOMAIN log : log[i].kind \in {"put", "cancelled"}
  BY <1>2 DEF Changes
<1>4. DOMAIN log \subseteq Places
  BY <1>1, <1>2 DEF Places
<1>5. \A r \in Runs : run[r] \in RunStates
  BY DEF TypeOK, RunStates
<1>6. \A r \in Runs : run[r].next \in Int /\ run[r].base \in Int
  BY <1>5 DEF RunStates, Tokens
<1>7. token \in Int
  BY <1>2 DEF TypeOK
<1> QED
  BY <1>2, <1>3, <1>4, <1>5, <1>6, <1>7

\* What is live is at a place of the log, is a put, and follows every other change
\* of its event.
LEMMA LiveIsLast ==
  ASSUME NEW i \in Live
  PROVE  /\ i \in DOMAIN log /\ log[i].kind = "put"
         /\ \A j \in DOMAIN log : log[j].event = log[i].event => ~(j > i)
BY DEF Live, Latest

\* A change leaves of the live places before it only those that were live.
LEMMA ChangeAddsLast ==
  ASSUME TypeOK, NEW change \in Changes, Change(change),
         NEW i \in Live', i <= Len(log)
  PROVE  i \in Live
<1>1. /\ log \in Seq(Changes) /\ log' = Append(log, change)
  BY DEF TypeOK, Change
<1>2. /\ Len(log') = Len(log) + 1 /\ DOMAIN log = 1..Len(log) /\ DOMAIN log' = 1..(Len(log) + 1)
      /\ \A j \in DOMAIN log : log'[j] = log[j]
      /\ Len(log) \in Nat
  BY <1>1
<1>3. i \in DOMAIN log'
  BY DEF Live, Latest
<1>4. i \in DOMAIN log
  BY <1>2, <1>3
<1>5. \A j \in DOMAIN log : j > i => log[j].event # log[i].event
  BY <1>2, <1>4 DEF Live, Latest
<1> QED
  BY <1>2, <1>4, <1>5 DEF Live, Latest

\* Steps that keep the log keep what is live.
LEMMA SameLog ==
  ASSUME UNCHANGED log
  PROVE  Live' = Live
BY DEF Live, Latest

\* A token stays sound as long as no live change loses the row it has.
LEMMA SoundStays ==
  ASSUME NEW t, NEW pending, Sound(t, pending), UNCHANGED log,
         \A i \in Live : Imported(i) => Imported(i)'
  PROVE  Sound(t, pending)'
BY SameLog DEF Sound

-----------------------------------------------------------------------------
(* One lemma for each kind of step *)

LEMMA InitHolds == Init => IInv
<1> SUFFICES ASSUME Init PROVE IInv
  OBVIOUS
<1>1. /\ Len(log) = 0 /\ DOMAIN log = {} /\ log \in Seq(Changes)
  BY DEF Init
<1>2. \A r \in Runs : run[r] = Idle
  BY DEF Init
<1>3. TypeOK
  BY <1>1, <1>2 DEF TypeOK, Init, Idle, Tokens, Places
<1>4. Live = {}
  BY <1>1 DEF Live, Latest
<1>5. Sound(token, {}) /\ RunsAreSound
  BY <1>1, <1>2, <1>4 DEF Sound, RunsAreSound, Init, Idle
<1> QED
  BY <1>3, <1>5 DEF IInv

LEMMA ChangeStep ==
  ASSUME IInv, NEW change \in Changes, Change(change)
  PROVE  IInv'
<1> USE DEF IInv
<1>1. /\ log \in Seq(Changes) /\ Len(log) < MaxChanges /\ log' = Append(log, change)
      /\ UNCHANGED <<provider, horizon, token, rows, run, faults, undone>>
  BY DEF TypeOK, Change
<1>2. /\ log' \in Seq(Changes) /\ Len(log') = Len(log) + 1 /\ Len(log) \in Nat
      /\ DOMAIN log = 1..Len(log) /\ DOMAIN log' = 1..(Len(log) + 1)
  BY <1>1
<1>3. TypeOK'
  BY <1>1, <1>2 DEF TypeOK
<1>4. \A i \in Live' : i \in Int /\ (i <= Len(log) => i \in Live) /\ Imported(i)' = Imported(i)
  <2> SUFFICES ASSUME NEW i \in Live'
               PROVE  i \in Int /\ (i <= Len(log) => i \in Live) /\ Imported(i)' = Imported(i)
    OBVIOUS
  <2>1. i \in Int
    BY <1>2 DEF Live, Latest
  <2>2. i <= Len(log) => i \in Live
    BY ChangeAddsLast
  <2>3. Imported(i)' = Imported(i)
    BY <1>1 DEF Imported
  <2> QED
    BY <2>1, <2>2, <2>3
<1>5. Sound(token, {})'
  <2>1. token \in Int /\ token <= Len(log) /\ token' = token
    BY <1>1, <1>2 DEF TypeOK
  <2>2. \A i \in Live : i <= token => Imported(i)
    BY DEF Sound
  <2> QED
    BY <1>2, <1>4, <2>1, <2>2 DEF Sound
<1>6. RunsAreSound'
  <2> SUFFICES ASSUME NEW r \in Runs
               PROVE  (/\ run[r].base <= Len(log) /\ run[r].next <= Len(log)
                       /\ run[r].items \subseteq DOMAIN log
                       /\ run[r].phase = "loaded" => Sound(run[r].base, {})
                       /\ run[r].phase = "applying" => Sound(run[r].next, run[r].items))'
    BY DEF RunsAreSound
  <2>1. run[r].base \in Int /\ run[r].next \in Int /\ run' = run
    BY <1>1, LogPlaces
  <2>2. /\ run[r].base <= Len(log) /\ run[r].next <= Len(log)
        /\ run[r].items \subseteq DOMAIN log
        /\ run[r].phase = "loaded" => \A i \in Live : i <= run[r].base => Imported(i)
        /\ run[r].phase = "applying" =>
             \A i \in Live : i <= run[r].next => i \in run[r].items \/ Imported(i)
    BY DEF RunsAreSound, Sound
  <2>3. run[r].phase = "loaded" => Sound(run[r].base, {})'
    BY <1>2, <1>4, <2>1, <2>2 DEF Sound
  <2>4. run[r].phase = "applying" => Sound(run[r].next, run[r].items)'
    BY <1>2, <1>4, <2>1, <2>2 DEF Sound
  <2> QED
    BY <1>2, <2>1, <2>2, <2>3, <2>4
<1> QED
  BY <1>3, <1>5, <1>6

\* A step of one sync that keeps the log and the rows of what is live disturbs
\* neither the other syncs nor the types of theirs.
LEMMA OthersStaySound ==
  ASSUME IInv, UNCHANGED log, NEW r \in Runs, NEW record \in RunStates, Step(r, record),
         \A i \in Live : Imported(i) => Imported(i)',
         record.base <= Len(log), record.next <= Len(log), record.items \subseteq DOMAIN log,
         record.phase = "loaded" => Sound(record.base, {})',
         record.phase = "applying" => Sound(record.next, record.items)'
  PROVE  RunsAreSound' /\ run' \in [Runs -> RunStates]
<1> USE DEF IInv
<1>1. run \in [Runs -> RunStates]
  BY DEF TypeOK, RunStates
<1>2. run' \in [Runs -> RunStates]
  BY <1>1 DEF Step
<1>3. run'[r] = record /\ \A q \in Runs \ {r} : run'[q] = run[q]
  BY <1>1 DEF Step
<1>4. SUFFICES ASSUME NEW q \in Runs
               PROVE  (/\ run[q].base <= Len(log) /\ run[q].next <= Len(log)
                       /\ run[q].items \subseteq DOMAIN log
                       /\ run[q].phase = "loaded" => Sound(run[q].base, {})
                       /\ run[q].phase = "applying" => Sound(run[q].next, run[q].items))'
  BY <1>2 DEF RunsAreSound
<1>5. CASE q = r
  BY <1>3, <1>5 DEF Sound
<1>6. CASE q # r
  <2>1. /\ run[q].base <= Len(log) /\ run[q].next <= Len(log)
        /\ run[q].items \subseteq DOMAIN log
        /\ run[q].phase = "loaded" => Sound(run[q].base, {})
        /\ run[q].phase = "applying" => Sound(run[q].next, run[q].items)
    BY DEF RunsAreSound
  <2>2. run'[q] = run[q]
    BY <1>3, <1>6
  <2> QED
    BY <2>1, <2>2, SoundStays, SameLog DEF Sound
<1> QED
  BY <1>5, <1>6

LEMMA LoadStep ==
  ASSUME IInv, NEW r \in Runs, Load(r)
  PROVE  IInv'
<1>1. PICK t : t = token
  OBVIOUS
<1> DEFINE loaded == [Idle EXCEPT !.phase = "loaded", !.base = t]
<1>2. /\ Step(r, loaded)
      /\ UNCHANGED <<provider, log, horizon, token, rows, faults, undone>>
  BY <1>1 DEF Load
<1>3. (\A i : Imported(i)' = Imported(i)) /\ Live' = Live
  BY <1>2, SameLog DEF Imported
<1>4. loaded.phase = "loaded" /\ loaded.base = t /\ loaded.items = {} /\ loaded.next = -1
  BY DEF Idle
<1>5. t \in Tokens /\ -1 \in Tokens /\ t <= Len(log) /\ Len(log) \in Nat
  BY <1>1 DEF IInv, TypeOK, Tokens
<1>6. loaded \in RunStates
  BY <1>5 DEF RunStates, Idle
<1>7. Sound(token, {})' /\ Sound(t, {})'
  BY <1>1, <1>2, <1>3 DEF IInv, Sound
<1> HIDE DEF loaded
<1>8. RunsAreSound' /\ run' \in [Runs -> RunStates]
  BY <1>2, <1>3, <1>4, <1>5, <1>6, <1>7, OthersStaySound
<1>9. TypeOK'
  BY <1>2, <1>8 DEF IInv, TypeOK, RunStates
<1> QED
  BY <1>7, <1>8, <1>9 DEF IInv

\* What a listing leaves out, up to its token, the token it was asked with covers.
LEMMA ListingsAreWhole ==
  ASSUME TypeOK, NEW t \in Tokens, t <= Len(log), NEW reply \in Replies(t)
  PROVE  /\ reply.items \subseteq DOMAIN log
         /\ reply.next \in Tokens /\ reply.next <= Len(log)
         /\ \A i \in Live : i <= reply.next => i \in reply.items \/ i <= t
<1>1. /\ Len(log) \in Tokens /\ Len(log) \in Nat /\ DOMAIN log = 1..Len(log)
      /\ Live \subseteq Latest /\ Latest \subseteq DOMAIN log /\ -1 \in Tokens
  BY DEF TypeOK, Live, Latest, Tokens
<1>2. CASE reply \in WholeCalendar
  BY <1>1, <1>2 DEF WholeCalendar, Reply
<1>3. CASE reply \in ChangesSince(t)
  BY <1>1, <1>3 DEF ChangesSince, Reply, Tokens
<1>4. CASE reply \in FirstPage
  <2>1. CASE reply \in WholeCalendar
    BY <1>2, <2>1
  <2>2. CASE reply \in {Reply(page, NoToken) : page \in {p \in SUBSET Live : Cardinality(p) = PageSize}}
    BY <1>1, <2>2 DEF Reply
  <2> QED
    BY <1>4, <2>1, <2>2 DEF FirstPage
<1>5. reply \in WholeCalendar \cup ChangesSince(t) \cup FirstPage
  <2>1. t \in Int /\ horizon \in Int
    BY <1>1 DEF TypeOK, Tokens
  <2>2. CASE t = -1
    BY <2>2 DEF Replies
  <2>3. CASE t # -1 /\ t >= horizon
    BY <2>1, <2>3 DEF Replies
  <2>4. CASE t # -1 /\ t < horizon
    BY <2>1, <2>4 DEF Replies, Again
  <2> QED
    BY <2>1, <2>2, <2>3, <2>4
<1> QED
  BY <1>2, <1>3, <1>4, <1>5

LEMMA FetchStep ==
  ASSUME IInv, NEW r \in Runs, Fetch(r)
  PROVE  IInv'
<1>1. PICK reply \in Replies(run[r].base) :
        Step(r, [run[r] EXCEPT !.phase = "applying", !.items = reply.items, !.next = reply.next])
  BY DEF Fetch
<1> DEFINE record == [run[r] EXCEPT !.phase = "applying", !.items = reply.items, !.next = reply.next]
<1>2. run[r].phase = "loaded" /\ UNCHANGED <<provider, log, horizon, token, rows, faults, undone>>
  BY DEF Fetch
<1>3. \A i : Imported(i)' = Imported(i)
  BY <1>2 DEF Imported
<1>4. run[r] \in RunStates /\ DOMAIN log \subseteq Places
  BY LogPlaces DEF IInv
<1>5. /\ record.phase = "applying" /\ record.base = run[r].base
      /\ record.items = reply.items /\ record.next = reply.next
  BY <1>4 DEF RunStates
<1>6. /\ run[r].base \in Tokens /\ run[r].base <= Len(log)
      /\ \A i \in Live : i <= run[r].base => Imported(i)
  BY <1>2, <1>4 DEF IInv, RunsAreSound, RunStates, Sound
<1>7. /\ reply.items \subseteq DOMAIN log /\ reply.next \in Tokens /\ reply.next <= Len(log)
      /\ \A i \in Live : i <= reply.next => i \in reply.items \/ i <= run[r].base
  BY <1>6, ListingsAreWhole DEF IInv
<1>8. Live' = Live /\ token' = token
  BY <1>2, SameLog
<1>9. record \in RunStates
  BY <1>4, <1>7 DEF RunStates
<1>10. Sound(reply.next, reply.items)'
  BY <1>3, <1>6, <1>7, <1>8 DEF Sound
<1>11. Sound(token, {})'
  BY <1>3, <1>8 DEF IInv, Sound
<1>12. RunsAreSound' /\ run' \in [Runs -> RunStates]
  <2>1. /\ record.base <= Len(log) /\ record.next <= Len(log) /\ record.items \subseteq DOMAIN log
        /\ record.phase # "loaded" /\ record.next = reply.next /\ record.items = reply.items
    BY <1>5, <1>6, <1>7
  <2> HIDE DEF record
  <2>2. Step(r, record)
    BY <1>1 DEF record
  <2> QED
    BY <1>2, <1>3, <1>9, <1>10, <2>1, <2>2, OthersStaySound
<1>13. TypeOK'
  BY <1>2, <1>12 DEF IInv, TypeOK, RunStates
<1> QED
  BY <1>11, <1>12, <1>13 DEF IInv

\* Upserting brings rows and takes none.
LEMMA UpsertedHasAll ==
  ASSUME TypeOK, NEW items \in SUBSET (DOMAIN log)
  PROVE  /\ Upserted(items) \in [Places -> 0..Several]
         /\ \A i \in Places : rows[i] > 0 => Upserted(items)[i] > 0
         /\ \A i \in items : log[i].kind = "put" => Upserted(items)[i] > 0
<1>1. rows \in [Places -> 0..2] /\ DOMAIN log \subseteq Places
  BY LogPlaces DEF TypeOK
<1> QED
  BY <1>1 DEF Upserted, OneMore

LEMMA CommitStep ==
  ASSUME IInv, NEW r \in Runs, Commit(r)
  PROVE  IInv'
<1>1. /\ run[r].phase = "applying" /\ Step(r, Idle) /\ rows' = Upserted(run[r].items)
      /\ \A i \in run[r].items : log[i].kind = "put"
      /\ token' = IF run[r].next \in {-1, run[r].base} THEN token ELSE run[r].next
      /\ UNCHANGED <<provider, log, horizon, faults, undone>>
  BY DEF Commit
<1>2. /\ run[r] \in RunStates /\ run[r].items \subseteq DOMAIN log /\ run[r].next <= Len(log)
      /\ DOMAIN log \subseteq Places /\ Len(log) \in Nat
  BY LogPlaces DEF IInv, RunsAreSound
<1>3. /\ rows' \in [Places -> 0..2]
      /\ \A i \in Places : rows[i] > 0 => rows'[i] > 0
      /\ \A i \in run[r].items : rows'[i] > 0
  BY <1>1, <1>2, UpsertedHasAll DEF IInv
<1>4. /\ \A i \in Live : Imported(i) => Imported(i)'
      /\ \A i \in run[r].items : Imported(i)'
  BY <1>1, <1>2, <1>3, LiveIsLast DEF Imported
<1>5. Live' = Live
  BY <1>1, SameLog
<1>6. Sound(token, {})'
  BY <1>1, <1>4, <1>5 DEF IInv, RunsAreSound, Sound
<1>7. Idle \in RunStates /\ Idle.base = -1 /\ Idle.next = -1 /\ Idle.items = {} /\ Idle.phase = "idle"
  BY DEF Idle, RunStates, Tokens
<1>8. RunsAreSound' /\ run' \in [Runs -> RunStates]
  BY <1>1, <1>2, <1>4, <1>7, OthersStaySound
<1>9. token' \in -1..Len(log)
  BY <1>1, <1>2 DEF IInv, TypeOK, RunStates, Tokens
<1>10. TypeOK'
  BY <1>1, <1>3, <1>8, <1>9 DEF IInv, TypeOK, RunStates
<1> QED
  BY <1>6, <1>8, <1>10 DEF IInv

\* A cancellation takes the row of a live change only after excusing it: the
\* cancelled change came first, or the event would not be live.
LEMMA CancelStep ==
  ASSUME IInv, NEW r \in Runs, Cancel(r)
  PROVE  IInv'
<1>1. PICK i \in run[r].items, before \in SUBSET run[r].items :
        /\ log[i].kind = "cancelled"
        /\ \A k \in before : log[k].kind = "put"
        /\ \/ /\ before = {}
              /\ UNCHANGED <<rows, undone>>
           \/ \E j \in Copies(log[i].event) :
                /\ \E n \in OneLess(rows[j]) : rows' = [Upserted(before) EXCEPT ![j] = n]
                /\ undone' = IF j > i THEN undone \cup {j} ELSE undone
        /\ Step(r, [run[r] EXCEPT !.items = @ \ (before \cup {i})])
  BY DEF Cancel
<1>2. /\ run[r].phase = "applying"
      /\ UNCHANGED <<provider, log, horizon, token, faults>>
  BY DEF Cancel
<1>3. /\ run[r] \in RunStates /\ run[r].items \subseteq DOMAIN log /\ run[r].next <= Len(log)
      /\ run[r].base <= Len(log) /\ Sound(run[r].next, run[r].items)
      /\ DOMAIN log \subseteq Places /\ DOMAIN log = 1..Len(log) /\ Len(log) \in Nat
      /\ rows \in [Places -> 0..2] /\ undone \subseteq Places
  BY <1>2, LogPlaces DEF IInv, RunsAreSound, TypeOK
<1>4. /\ rows' \in [Places -> 0..2] /\ undone' \subseteq Places
      /\ \A k \in Live : Imported(k) \/ k \in before => Imported(k)'
  <2>1. CASE before = {} /\ UNCHANGED <<rows, undone>>
    BY <1>3, <2>1 DEF Imported
  <2>2. CASE \E j \in Copies(log[i].event) :
               /\ \E n \in OneLess(rows[j]) : rows' = [Upserted(before) EXCEPT ![j] = n]
               /\ undone' = IF j > i THEN undone \cup {j} ELSE undone
    <3>1. PICK j \in Copies(log[i].event) :
               /\ \E n \in OneLess(rows[j]) : rows' = [Upserted(before) EXCEPT ![j] = n]
               /\ undone' = IF j > i THEN undone \cup {j} ELSE undone
      BY <2>2
    <3>2. /\ j \in DOMAIN log /\ log[j].event = log[i].event /\ rows[j] > 0 /\ rows[j] \in 0..2
      BY <1>3 DEF Copies
    <3>3. PICK n \in OneLess(rows[j]) : rows' = [Upserted(before) EXCEPT ![j] = n]
      BY <3>1
    <3>4. n \in 0..2
      BY <3>2 DEF OneLess
    <3>5. /\ Upserted(before) \in [Places -> 0..2]
          /\ \A k \in Places : rows[k] > 0 => Upserted(before)[k] > 0
          /\ \A k \in before : Upserted(before)[k] > 0
      BY <1>1, <1>3, UpsertedHasAll DEF IInv
    <3>6. rows' \in [Places -> 0..2] /\ \A k \in Places \ {j} : rows'[k] = Upserted(before)[k]
      BY <1>3, <3>2, <3>3, <3>4, <3>5
    <3>7. j \in Live => j \in undone'
      <4> SUFFICES ASSUME j \in Live PROVE j \in undone'
        OBVIOUS
      <4>1. log[j].kind = "put" /\ ~(i > j)
        BY <1>1, <1>3, <3>2, LiveIsLast
      <4>2. j > i
        BY <1>1, <1>3, <3>2, <4>1
      <4> QED
        BY <3>1, <4>2
    <3>8. undone \subseteq undone' /\ undone' \subseteq Places
      BY <1>3, <3>1, <3>2
    <3>9. ASSUME NEW k \in Live, Imported(k) \/ k \in before
          PROVE  Imported(k)'
      <4>1. k \in Places
        BY <1>3, LiveIsLast
      <4>2. CASE k = j
        BY <3>7, <4>2 DEF Imported
      <4>3. CASE k # j
        BY <3>5, <3>6, <3>8, <3>9, <4>1, <4>3 DEF Imported
      <4> QED
        BY <4>2, <4>3
    <3> QED
      BY <3>6, <3>8, <3>9
  <2> QED
    BY <1>1, <2>1, <2>2
<1>5. PICK record : record = [run[r] EXCEPT !.items = @ \ (before \cup {i})]
  OBVIOUS
<1>6. /\ record.phase = "applying" /\ record.base = run[r].base /\ record.next = run[r].next
      /\ record.items = run[r].items \ (before \cup {i}) /\ record \in RunStates
  BY <1>2, <1>3, <1>5 DEF RunStates
<1>7. Live' = Live /\ \A k \in Live : Imported(k) => Imported(k)'
  BY <1>2, <1>4, SameLog
<1>8. i \notin Live
  BY <1>1, LiveIsLast
<1>9. Sound(record.next, record.items)'
  <2>1. \A k \in Live : k <= record.next => k \in run[r].items \/ Imported(k)
    BY <1>3, <1>6 DEF Sound
  <2>2. \A k \in Live : k <= record.next => k \in record.items \/ Imported(k)'
    BY <1>4, <1>6, <1>8, <2>1
  <2> QED
    BY <1>7, <2>2 DEF Sound
<1>10. Step(r, record)
  BY <1>1, <1>5
<1>11. RunsAreSound' /\ run' \in [Runs -> RunStates]
  BY <1>2, <1>3, <1>6, <1>7, <1>9, <1>10, OthersStaySound
<1>12. Sound(token, {})'
  BY <1>2, <1>7 DEF IInv, Sound
<1>13. TypeOK'
  BY <1>2, <1>4, <1>11 DEF IInv, TypeOK, RunStates
<1> QED
  BY <1>11, <1>12, <1>13 DEF IInv

\* A sync that ends with nothing stored, and an expiry at the provider.
LEMMA FailStep ==
  ASSUME IInv, NEW r \in Runs, Fail(r)
  PROVE  IInv'
<1>1. /\ Step(r, Idle) /\ faults < MaxFaults /\ faults' = faults + 1
      /\ UNCHANGED <<provider, log, horizon, token, rows, undone>>
  BY DEF Fail
<1>2. (\A i : Imported(i)' = Imported(i)) /\ Live' = Live
  BY <1>1, SameLog DEF Imported
<1>3. Idle \in RunStates /\ Idle.base = -1 /\ Idle.next = -1 /\ Idle.items = {} /\ Idle.phase = "idle"
  BY DEF Idle, RunStates, Tokens
<1>4. Len(log) \in Nat
  BY LogPlaces DEF IInv
<1>5. RunsAreSound' /\ run' \in [Runs -> RunStates]
  BY <1>1, <1>2, <1>3, <1>4, OthersStaySound
<1>6. Sound(token, {})'
  BY <1>1, <1>2 DEF IInv, Sound
<1>7. TypeOK'
  BY <1>1, <1>5 DEF IInv, TypeOK, RunStates
<1> QED
  BY <1>5, <1>6, <1>7 DEF IInv

LEMMA NothingMoves ==
  ASSUME IInv, UNCHANGED <<log, token, rows, run, undone>>
  PROVE  Sound(token, {})' /\ RunsAreSound'
<1>1. (\A i : Imported(i)' = Imported(i)) /\ Live' = Live
  BY SameLog DEF Imported
<1> QED
  BY <1>1 DEF IInv, RunsAreSound, Sound

LEMMA ExpireStep ==
  ASSUME IInv, Expire
  PROVE  IInv'
<1>1. /\ horizon' \in (horizon + 1)..Len(log) /\ horizon \in 0..Len(log) /\ Len(log) \in Nat
      /\ UNCHANGED <<provider, log, token, rows, run, faults, undone>>
  BY LogPlaces DEF IInv, TypeOK, Expire
<1>2. horizon' \in 0..Len(log)
  BY <1>1
<1>3. TypeOK'
  BY <1>1, <1>2 DEF IInv, TypeOK
<1> QED
  BY <1>1, <1>3, NothingMoves DEF IInv

LEMMA StutterStep == IInv /\ UNCHANGED vars => IInv'
<1> SUFFICES ASSUME IInv, UNCHANGED vars PROVE IInv'
  OBVIOUS
<1>1. TypeOK'
  BY DEF IInv, TypeOK, vars
<1> QED
  BY <1>1, NothingMoves DEF IInv, vars

LEMMA NextHolds == IInv /\ [Next]_vars => IInv'
<1> SUFFICES ASSUME IInv, [Next]_vars PROVE IInv'
  OBVIOUS
<1>1. CASE \E change \in Changes : Change(change)
  BY <1>1, ChangeStep
<1>2. CASE Expire
  BY <1>2, ExpireStep
<1>3. CASE \E r \in Runs : Load(r) \/ Sync(r) \/ Fail(r)
  BY <1>3, LoadStep, FetchStep, CancelStep, CommitStep, FailStep DEF Sync
<1>4. CASE UNCHANGED vars
  BY <1>4, StutterStep
<1> QED
  BY <1>1, <1>2, <1>3, <1>4 DEF Next

LEMMA Invariance == Spec => []IInv
BY InitHolds, NextHolds, PTL DEF Spec

-----------------------------------------------------------------------------
(* Theorems *)

\* Every variable keeps its type: tokens never exceed the changes made, and no
\* row is counted below zero, whatever is cancelled in whatever order.
THEOREM TypeCorrect == Spec => []TypeOK
<1>1. IInv => TypeOK
  BY DEF IInv
<1> QED
  BY <1>1, Invariance, PTL

\* The sync token never runs ahead of the rows (CalendarSyncProvider.sync commits
\* them together): what was changed last at or before the token has its row, for
\* any number of overlapping syncs that fail and overwrite each other's token.
THEOREM TokenNeverAhead == Spec => []NothingMissed
<1>1. IInv => NothingMissed
  BY DEF IInv, Sound, NothingMissed
<1> QED
  BY <1>1, Invariance, PTL
=============================================================================
