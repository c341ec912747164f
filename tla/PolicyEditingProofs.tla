------------------------ MODULE PolicyEditingProofs ------------------------
(***************************************************************************)
(* Proofs about PolicyEditing for any services, tabs, thresholds and       *)
(* number of attempts, and for histories of any length.                    *)
(***************************************************************************)
EXTENDS PolicyEditing, FiniteSetTheorems, TLAPS

-----------------------------------------------------------------------------
(* The inductive invariant.                                                *)

\* A row as a screen has it is a version the row has had.
WasStored(k, row) ==
  /\ row.basis \in 1..Len(history[k])
  /\ row.threshold = history[k][row.basis].threshold
  /\ row.enabled = history[k][row.basis].enabled

ListStored(rows) == \A k \in DOMAIN rows : WasStored(k, rows[k])

ShownWasStored ==
  /\ \A t \in Tabs : ListStored(list[t]) /\ \A rows \in answers[t] : ListStored(rows)
  /\ \A t \in Tabs : \A d \in dialog[t] : WasStored(d.service, d.row)
  /\ \A u \in updates : WasStored(u.service, u.shown)

\* Between two versions with different flags the flag was flipped.
FlagTrail ==
  \A k \in Services : \A n \in 1..Len(history[k]) : \A b \in 1..n :
    history[k][b].enabled # history[k][n].enabled =>
      \E m \in (b + 1)..n : history[k][m].enabled # history[k][m - 1].enabled

IInv ==
  /\ TypeOK
  /\ OnlyConfiguredRows
  /\ ShownWasStored
  /\ FlagTrail
  /\ EditsReplaceWhatWasShown
  /\ ConflictMeansChanged
  /\ OkMeansWritten

\* What may be appended to the history of a row: a version of an existing
\* row that, when a screen wrote it, replaces what the screen has shown.
LegalWrite(k, v) ==
  /\ Exists(k)
  /\ Write(k, v)
  /\ v.author \in Tabs =>
       /\ v.basis \in 1..Len(history[k])
       /\ Current(k).threshold = history[k][v.basis].threshold
       /\ v.enabled = history[k][v.basis].enabled

-----------------------------------------------------------------------------
(* The history of a row only grows.                                        *)

\* Appending leaves the earlier versions where they are.
LEMMA WriteAppends ==
  ASSUME TypeOK, NEW k \in Services, NEW v \in Version, Write(k, v)
  PROVE  /\ history' \in [Services -> Seq(Version)]
         /\ Len(history'[k]) = Len(history[k]) + 1
         /\ history'[k][Len(history[k]) + 1] = v
         /\ \A n \in 1..Len(history[k]) : history'[k][n] = history[k][n]
         /\ \A j \in Services : j # k => history'[j] = history[j]
<1>1. history[k] \in Seq(Version)
  BY DEF TypeOK
<1>2. history'[k] = Append(history[k], v)
  BY DEF TypeOK, Write
<1>3. Append(history[k], v) \in Seq(Version)
  BY <1>1
<1>. QED
  BY <1>1, <1>2, <1>3 DEF TypeOK, Write

\* What WriteAppends says, for a step that need not write.
Grows ==
  \A k \in Services :
    /\ Len(history'[k]) \in Nat /\ Len(history[k]) \in Nat
    /\ Len(history'[k]) >= Len(history[k])
    /\ \A n \in 1..Len(history[k]) : history'[k][n] = history[k][n]

LEMMA LegalGrows ==
  ASSUME TypeOK,
         \/ UNCHANGED history
         \/ \E k \in Services, v \in Version : LegalWrite(k, v)
  PROVE  Grows
<1>0. \A k \in Services : history[k] \in Seq(Version)
  BY DEF TypeOK
<1>1. CASE UNCHANGED history
  BY <1>0, <1>1 DEF Grows
<1>2. ASSUME NEW k \in Services, NEW v \in Version, LegalWrite(k, v)
      PROVE  Grows
  <2>1. Write(k, v)
    BY <1>2 DEF LegalWrite
  <2>. QED
    BY <1>0, <2>1, WriteAppends DEF Grows
<1>. QED
  BY <1>1, <1>2

LEMMA StoredStays ==
  ASSUME Grows, NEW k \in Services, NEW row, WasStored(k, row)
  PROVE  WasStored(k, row)'
  BY DEF Grows, WasStored

-----------------------------------------------------------------------------
(* What a step writes.                                                     *)

LEMMA CurrentType ==
  ASSUME TypeOK, NEW k \in Services, Exists(k)
  PROVE  /\ Len(history[k]) \in Nat \ {0}
         /\ Current(k) \in Version
<1>1. history[k] \in Seq(Version) /\ history[k] # <<>>
  BY DEF TypeOK, Exists
<1>. QED
  BY <1>1 DEF Current

\* A caller of the API writes a legal version, and touches nothing else.
LEMMA CallerWrites ==
  ASSUME TypeOK, NEW k \in Services, CallerPuts(k)
  PROVE  /\ \E v \in Version : LegalWrite(k, v) /\ v.author = Nobody
         /\ UNCHANGED <<screenVars, updates, confirms>>
<1>1. PICK v \in Entered \cap Valid, flag \in BOOLEAN,
           expected \in {{}} \cup {{e} : e \in Entered} :
        /\ ConditionHolds(k, expected)
        /\ Write(k, [threshold |-> v, enabled |-> flag,
                     author |-> Nobody, confirm |-> 0, basis |-> 0])
  BY DEF CallerPuts
<1>2. Exists(k)
  BY <1>1 DEF ConditionHolds
<1>4. [threshold |-> v, enabled |-> flag,
       author |-> Nobody, confirm |-> 0, basis |-> 0] \in Version
  BY DEF Version
<1>5. Nobody \notin Tabs
  BY PolicyAssumption
<1>. QED
  BY <1>1, <1>2, <1>4, <1>5 DEF LegalWrite, CallerPuts

\* So does an attempt of an update.
LEMMA ApplyWrites ==
  ASSUME TypeOK, ShownWasStored, NEW u \in updates, Apply(u)
  PROVE  /\ Written(u) \in Version
         /\ LegalWrite(u.service, Written(u))
<1>1. u \in Update
  BY DEF TypeOK
<1>2. u.threshold \in Valid /\ ConditionHolds(u.service, {u.shown.threshold})
  BY DEF Apply, MayApply, InRange
<1>3. WasStored(u.service, u.shown)
  BY DEF ShownWasStored
<1>4. Written(u) \in Version
  BY <1>1, <1>2 DEF Written, Version, Update, Shown
<1>. QED
  BY <1>1, <1>2, <1>3, <1>4
     DEF Apply, LegalWrite, ConditionHolds, WasStored, Written, Update, Shown

\* Nothing but these two writes.
LEMMA StepWrites ==
  ASSUME TypeOK, ShownWasStored, [Next]_vars
  PROVE  \/ UNCHANGED history
         \/ \E k \in Services, v \in Version : LegalWrite(k, v)
<1>1. ASSUME NEW k \in Services, CallerPuts(k)
      PROVE  \E v \in Version : LegalWrite(k, v)
  BY <1>1, CallerWrites
<1>2. ASSUME NEW t \in Tabs, Screen(t) PROVE UNCHANGED history
  BY <1>2 DEF Screen, Open, ReadList, FailList, ShowList, Edit, Cancel, Confirm, Leave
<1>3. ASSUME NEW u \in updates, Serve(u)
      PROVE  UNCHANGED history \/ \E k \in Services, v \in Version : LegalWrite(k, v)
  <2>1. CASE Apply(u)
    <3>1. u.service \in Services
      BY DEF TypeOK, Update
    <3>. QED
      BY <2>1, <3>1, ApplyWrites
  <2>2. CASE Reject(u) \/ Refuse(u) \/ Fail(u) \/ Hear(u)
    BY <2>2 DEF Reject, Refuse, Fail, Hear
  <2>. QED
    BY <1>3, <2>1, <2>2 DEF Serve
<1>4. CASE UNCHANGED vars
  BY <1>4 DEF vars
<1>. QED
  BY <1>1, <1>2, <1>3, <1>4 DEF Next

LEMMA StepGrows ==
  ASSUME TypeOK, ShownWasStored, [Next]_vars
  PROVE  Grows
  BY StepWrites, LegalGrows

-----------------------------------------------------------------------------
(* Type correctness of a step.                                             *)

LEMMA InitType == Init => TypeOK
<1>1. FirstVersion \in Version
  BY DEF FirstVersion, Version, Valid
<1>2. IsList(NoRows)
  BY DEF IsList, NoRows
<1>. QED
  BY <1>1, <1>2 DEF Init, TypeOK

\* What a scan returns are versions of its rows.
LEMMA ScanVersions ==
  ASSUME TypeOK, NEW at \in Scans, NEW k \in Rows
  PROVE  /\ k \in Services
         /\ at[k] \in 1..Len(history[k])
         /\ history[k][at[k]] \in Version
<1>1. k \in Services /\ history[k] \in Seq(Version)
  BY DEF Rows, TypeOK
<1>2. at[k] \in DOMAIN history[k]
  BY DEF Scans
<1>. QED
  BY <1>1, <1>2

LEMMA ListedIsList == ASSUME TypeOK, NEW at \in Scans PROVE IsList(Listed(at))
<1>1. ASSUME NEW k \in Rows
      PROVE  [threshold |-> history[k][at[k]].threshold,
              enabled |-> history[k][at[k]].enabled, basis |-> at[k]] \in Shown
  BY ScanVersions DEF Shown, Version
<1>2. Rows \subseteq Services
  BY DEF Rows
<1>. QED
  BY <1>1, <1>2 DEF IsList, Listed

LEMMA HistoryType ==
  ASSUME TypeOK, ShownWasStored, [Next]_vars
  PROVE  history' \in [Services -> Seq(Version)]
<1>1. CASE UNCHANGED history
  BY <1>1 DEF TypeOK
<1>2. ASSUME NEW k \in Services, NEW v \in Version, LegalWrite(k, v)
      PROVE  history' \in [Services -> Seq(Version)]
  BY <1>2, WriteAppends DEF LegalWrite
<1>. QED
  BY <1>1, <1>2, StepWrites

\* An update stays one, whatever an attempt makes of it.
LEMMA UpdateType ==
  ASSUME TypeOK, NEW u \in updates, NEW a \in {"ok", "conflict", "error"}
  PROVE  /\ Answer(u, a) => updates' \subseteq Update
         /\ Repeat(u) => updates' \subseteq Update
         /\ Replace(u, {}) => updates' \subseteq Update
<1>1. u \in Update /\ updates \subseteq Update
  BY DEF TypeOK
<1>2. [u EXCEPT !.answer = a] \in Update /\ [u EXCEPT !.tries = @ + 1] \in Update
  BY <1>1 DEF Update
<1>. QED
  BY <1>1, <1>2 DEF Answer, Repeat, Replace

LEMMA ScreenType ==
  ASSUME TypeOK, NEW t \in Tabs, Screen(t)
  PROVE  /\ open' \subseteq Tabs /\ asked' \in [Tabs -> Nat]
         /\ DOMAIN answers' = Tabs /\ \A s \in Tabs : \A rows \in answers'[s] : IsList(rows)
         /\ DOMAIN list' = Tabs /\ \A s \in Tabs : IsList(list'[s])
         /\ dialog' \in [Tabs -> SUBSET [service : Services, row : Shown]]
         /\ updates' \subseteq Update /\ confirms' \in Nat
<1>0. IsList(NoRows)
  BY DEF IsList, NoRows
<1>1. CASE Open(t)
  BY <1>1 DEF TypeOK, Open
<1>2. CASE ReadList(t)
  BY <1>2, ListedIsList DEF TypeOK, ReadList
<1>3. CASE FailList(t)
  BY <1>3, <1>0 DEF TypeOK, FailList
<1>4. CASE ShowList(t)
  BY <1>4 DEF TypeOK, ShowList
<1>5. ASSUME NEW k \in Services, Edit(t, k)
      PROVE  /\ dialog' \in [Tabs -> SUBSET [service : Services, row : Shown]]
             /\ UNCHANGED <<open, asked, answers, list, updates, confirms>>
  BY <1>5 DEF TypeOK, Edit, IsList
<1>6. CASE Cancel(t)
  BY <1>6 DEF TypeOK, Cancel
<1>7. ASSUME NEW v \in Entered, Confirm(t, v)
      PROVE  updates' \subseteq Update /\ confirms' \in Nat /\ UNCHANGED screenVars
  <2>1. PICK d \in dialog[t] :
          updates' = updates \cup
            {[confirm |-> confirms + 1, tab |-> t, heard |-> TRUE,
              service |-> d.service, threshold |-> v, shown |-> d.row,
              tries |-> 0, answer |-> "none"]}
    BY <1>7 DEF Confirm
  <2>2. v \in Int
    BY PolicyAssumption
  <2>3. d \in [service : Services, row : Shown]
    BY DEF TypeOK
  <2>4. [confirm |-> confirms + 1, tab |-> t, heard |-> TRUE,
         service |-> d.service, threshold |-> v, shown |-> d.row,
         tries |-> 0, answer |-> "none"] \in Update
    BY <2>2, <2>3 DEF TypeOK, Update
  <2>5. updates' \subseteq Update
    BY <2>1, <2>4 DEF TypeOK
  <2>6. confirms' \in Nat /\ UNCHANGED screenVars
    BY <1>7 DEF TypeOK, Confirm
  <2>. QED
    BY <2>5, <2>6
<1>8. CASE Leave(t)
  <2>1. \A u \in updates : [u EXCEPT !.heard = FALSE] \in Update
    BY DEF TypeOK, Update
  <2>2. updates' \subseteq Update
    BY <1>8, <2>1 DEF TypeOK, Leave, Unanswered
  <2>. QED
    BY <1>8, <1>0, <2>2 DEF TypeOK, Leave
<1>. QED
  BY <1>1, <1>2, <1>3, <1>4, <1>5, <1>6, <1>7, <1>8 DEF TypeOK, Screen, screenVars

LEMMA ServeType ==
  ASSUME TypeOK, NEW u \in updates, Serve(u)
  PROVE  /\ UNCHANGED <<open, answers, list, confirms>>
         /\ updates' \subseteq Update /\ asked' \in [Tabs -> Nat]
         /\ dialog' \in [Tabs -> SUBSET [service : Services, row : Shown]]
<1>1. CASE Reject(u)
  BY <1>1, UpdateType DEF TypeOK, Reject, screenVars
<1>2. CASE Apply(u)
  BY <1>2, UpdateType DEF TypeOK, Apply, screenVars
<1>3. CASE Refuse(u)
  BY <1>3, UpdateType DEF TypeOK, Refuse, screenVars
<1>4. CASE Fail(u)
  BY <1>4, UpdateType DEF TypeOK, Fail, screenVars
<1>5. CASE Hear(u)
  <2>1. u.tab \in Tabs
    BY DEF TypeOK, Update
  <2>2. updates' \subseteq Update
    BY <1>5, UpdateType DEF Hear
  <2>3. /\ asked' \in [Tabs -> Nat]
        /\ dialog' \in [Tabs -> SUBSET [service : Services, row : Shown]]
    BY <1>5, <2>1 DEF TypeOK, Hear
  <2>. QED
    BY <1>5, <2>2, <2>3 DEF Hear
<1>. QED
  BY <1>1, <1>2, <1>3, <1>4, <1>5 DEF Serve

LEMMA TypeStep ==
  ASSUME TypeOK, ShownWasStored, [Next]_vars
  PROVE  TypeOK'
<1>1. ASSUME NEW k \in Services, CallerPuts(k) PROVE TypeOK'
  BY <1>1, HistoryType, CallerWrites DEF TypeOK, screenVars
<1>2. ASSUME NEW t \in Tabs, Screen(t) PROVE TypeOK'
  BY <1>2, HistoryType, ScreenType DEF TypeOK
<1>3. ASSUME NEW u \in updates, Serve(u) PROVE TypeOK'
  BY <1>3, HistoryType, ServeType DEF TypeOK
<1>4. CASE UNCHANGED vars
  BY <1>4 DEF TypeOK, vars, screenVars, IsList
<1>. QED
  BY <1>1, <1>2, <1>3, <1>4 DEF Next

-----------------------------------------------------------------------------
(* Screens show versions the rows have had.                                *)

LEMMA ListedStored ==
  ASSUME TypeOK, NEW at \in Scans
  PROVE  ListStored(Listed(at))
<1>1. ASSUME NEW k \in DOMAIN Listed(at) PROVE WasStored(k, Listed(at)[k])
  <2>1. k \in Rows
    BY <1>1 DEF Listed
  <2>2. Listed(at)[k] = [threshold |-> history[k][at[k]].threshold,
                         enabled |-> history[k][at[k]].enabled, basis |-> at[k]]
    BY <1>1 DEF Listed
  <2>. QED
    BY <2>1, <2>2, ScanVersions DEF WasStored
<1>. QED
  BY <1>1 DEF ListStored

\* The screen's own steps: the rows it gets come from the table, from its
\* list or from its dialog.
LEMMA ScreenStored ==
  ASSUME TypeOK, ShownWasStored, NEW t \in Tabs, Screen(t)
  PROVE  ShownWasStored'
<1>h. UNCHANGED history
  BY DEF Screen, Open, ReadList, FailList, ShowList, Edit, Cancel, Confirm, Leave
<1>w. \A k, row : WasStored(k, row)' <=> WasStored(k, row)
  BY <1>h DEF WasStored
<1>l. \A rows : ListStored(rows)' <=> ListStored(rows)
  BY <1>w DEF ListStored
<1>n. ListStored(NoRows)
  BY DEF ListStored, NoRows
<1>1. CASE Open(t) \/ Cancel(t)
  BY <1>1, <1>w, <1>l DEF TypeOK, Open, Cancel, ShownWasStored
<1>2. CASE ReadList(t)
  BY <1>2, <1>w, <1>l, ListedStored DEF TypeOK, ReadList, ShownWasStored
<1>3. CASE FailList(t)
  BY <1>3, <1>w, <1>l, <1>n DEF TypeOK, FailList, ShownWasStored
<1>4. CASE ShowList(t)
  BY <1>4, <1>w, <1>l DEF TypeOK, ShowList, ShownWasStored
<1>5. ASSUME NEW k \in Services, Edit(t, k) PROVE ShownWasStored'
  <2>1. WasStored(k, list[t][k])
    BY <1>5 DEF Edit, ShownWasStored, ListStored
  <2>. QED
    BY <1>5, <1>w, <1>l, <2>1 DEF TypeOK, Edit, ShownWasStored
<1>6. ASSUME NEW v \in Entered, Confirm(t, v) PROVE ShownWasStored'
  <2>1. PICK d \in dialog[t] :
          updates' = updates \cup
            {[confirm |-> confirms + 1, tab |-> t, heard |-> TRUE,
              service |-> d.service, threshold |-> v, shown |-> d.row,
              tries |-> 0, answer |-> "none"]}
    BY <1>6 DEF Confirm
  <2>2. WasStored(d.service, d.row)
    BY DEF ShownWasStored
  <2>3. \A u \in updates' : WasStored(u.service, u.shown)
    BY <2>1, <2>2 DEF ShownWasStored
  <2>. QED
    BY <1>6, <1>w, <1>l, <2>3 DEF Confirm, screenVars, ShownWasStored
<1>7. CASE Leave(t)
  <2>1. \A u \in updates : LET v == [u EXCEPT !.heard = FALSE] IN
          v.service = u.service /\ v.shown = u.shown
    BY DEF TypeOK, Update
  <2>2. \A u \in updates' : WasStored(u.service, u.shown)
    BY <1>7, <2>1 DEF Leave, Unanswered, ShownWasStored
  <2>. QED
    BY <1>7, <1>w, <1>l, <1>n, <2>2 DEF TypeOK, Leave, ShownWasStored
<1>. QED
  BY <1>1, <1>2, <1>3, <1>4, <1>5, <1>6, <1>7 DEF Screen

\* An answer or a further attempt leaves an update what it was.
SameUpdate(v, u) ==
  /\ v.confirm = u.confirm /\ v.tab = u.tab /\ v.service = u.service
  /\ v.threshold = u.threshold /\ v.shown = u.shown

LEMMA ServeKeeps ==
  ASSUME TypeOK, NEW u \in updates, Serve(u)
  PROVE  /\ \A v \in updates' : v \in updates \/ SameUpdate(v, u)
         /\ UNCHANGED <<answers, list>>
         /\ \A t \in Tabs : dialog'[t] \subseteq dialog[t]
<1>1. u \in Update
  BY DEF TypeOK
<1>2. /\ \A a : SameUpdate([u EXCEPT !.answer = a], u)
      /\ SameUpdate([u EXCEPT !.tries = @ + 1], u)
  BY <1>1 DEF Update, SameUpdate
<1>3. CASE Reject(u) \/ Apply(u) \/ Refuse(u) \/ Fail(u)
  <2>1. Repeat(u) \/ \E a \in {"ok", "conflict", "error"} : Answer(u, a)
    BY <1>3 DEF Reject, Apply, Refuse, Fail
  <2>2. UNCHANGED screenVars
    BY <1>3 DEF Reject, Apply, Refuse, Fail
  <2>. QED
    BY <1>2, <2>1, <2>2 DEF Repeat, Answer, Replace, screenVars
<1>4. CASE Hear(u)
  BY <1>4 DEF TypeOK, Hear, Replace
<1>. QED
  BY <1>3, <1>4 DEF Serve

LEMMA StoredStep ==
  ASSUME TypeOK, ShownWasStored, [Next]_vars
  PROVE  ShownWasStored'
<1>g. Grows
  BY StepGrows
<1>1. ASSUME NEW k \in Services, CallerPuts(k) PROVE ShownWasStored'
  <2>1. UNCHANGED <<screenVars, updates>>
    BY <1>1, CallerWrites
  <2>2. \A rows : IsList(rows) /\ ListStored(rows) => ListStored(rows)'
    BY <1>g, StoredStays DEF ListStored, IsList
  <2>. QED
    BY <1>g, <2>1, <2>2, StoredStays DEF TypeOK, Update, screenVars, ShownWasStored
<1>2. ASSUME NEW t \in Tabs, Screen(t) PROVE ShownWasStored'
  BY <1>2, ScreenStored
<1>3. ASSUME NEW u \in updates, Serve(u) PROVE ShownWasStored'
  <2>1. \A rows : IsList(rows) /\ ListStored(rows) => ListStored(rows)'
    BY <1>g, StoredStays DEF ListStored, IsList
  <2>2. \A v \in updates' : WasStored(v.service, v.shown)
    BY <1>3, ServeKeeps DEF ShownWasStored, SameUpdate
  <2>3. \A v \in updates' : v.service \in Services
    BY <1>3, ServeKeeps DEF TypeOK, Update, SameUpdate
  <2>4. \A v \in updates' : WasStored(v.service, v.shown)'
    BY <1>g, <2>2, <2>3, StoredStays
  <2>5. \A t \in Tabs : \A d \in dialog'[t] : WasStored(d.service, d.row)'
    BY <1>3, <1>g, ServeKeeps, StoredStays DEF TypeOK, ShownWasStored
  <2>. QED
    BY <1>3, <2>1, <2>4, <2>5, ServeKeeps DEF TypeOK, ShownWasStored
<1>4. CASE UNCHANGED vars
  BY <1>4 DEF vars, screenVars, ShownWasStored, ListStored, WasStored
<1>. QED
  BY <1>1, <1>2, <1>3, <1>4 DEF Next

-----------------------------------------------------------------------------
(* The histories.                                                          *)

\* A new version is the last one; the other histories stay.
LEMMA LegalAppends ==
  ASSUME TypeOK, NEW k \in Services, NEW v \in Version, LegalWrite(k, v)
  PROVE  /\ Len(history[k]) \in Nat \ {0}
         /\ Len(history'[k]) = Len(history[k]) + 1
         /\ history'[k][Len(history[k]) + 1] = v
         /\ \A n \in 1..Len(history[k]) : history'[k][n] = history[k][n]
         /\ \A j \in Services : j # k => history'[j] = history[j]
         /\ history'[k] # <<>>
<1>1. Write(k, v) /\ Exists(k)
  BY DEF LegalWrite
<1>2. Len(history[k]) \in Nat \ {0}
  BY <1>1, CurrentType
<1>3. history' \in [Services -> Seq(Version)]
  BY <1>1, WriteAppends
<1>. QED
  BY <1>1, <1>2, <1>3, WriteAppends

LEMMA EditsStep ==
  ASSUME TypeOK, ShownWasStored, EditsReplaceWhatWasShown, [Next]_vars
  PROVE  EditsReplaceWhatWasShown'
<1>1. CASE UNCHANGED history
  BY <1>1 DEF EditsReplaceWhatWasShown, Edits
<1>2. ASSUME NEW k \in Services, NEW v \in Version, LegalWrite(k, v),
             NEW j \in Services, NEW n \in Edits(j)'
      PROVE  LET basis == history'[j][n].basis IN
             /\ basis \in 1..(n - 1)
             /\ history'[j][n - 1].threshold = history'[j][basis].threshold
             /\ history'[j][n].enabled = history'[j][basis].enabled
  <2>0. n \in 1..Len(history'[j]) /\ history'[j][n].author \in Tabs
    BY DEF Edits
  <2>1. CASE j # k \/ n <= Len(history[k])
    <3>0. Len(history[j]) \in Nat
      BY DEF TypeOK
    <3>1. n \in Edits(j) /\ history'[j][n] = history[j][n]
      BY <1>2, <2>0, <2>1, <3>0, LegalAppends DEF Edits
    <3>2. /\ history[j][n].basis \in 1..(n - 1)
          /\ history[j][n - 1].threshold = history[j][history[j][n].basis].threshold
          /\ history[j][n].enabled = history[j][history[j][n].basis].enabled
      BY <3>1 DEF EditsReplaceWhatWasShown
    <3>3. n \in 1..Len(history[j])
      BY <3>1 DEF Edits
    <3>4. \A m \in 1..Len(history[j]) : history'[j][m] = history[j][m]
      BY <1>2, LegalAppends
    <3>5. /\ n - 1 \in 1..Len(history[j])
          /\ history[j][n].basis \in 1..Len(history[j])
      BY <3>0, <3>2, <3>3
    <3>. QED
      BY <3>1, <3>2, <3>4, <3>5
  <2>2. CASE j = k /\ n = Len(history[k]) + 1
    <3>1. history'[k][n] = v /\ history'[k][n - 1] = history[k][n - 1]
      BY <1>2, <2>2, LegalAppends
    <3>2. v.author \in Tabs
      BY <2>0, <2>2, <3>1
    <3>3. /\ v.basis \in 1..Len(history[k])
          /\ history[k][n - 1].threshold = history[k][v.basis].threshold
          /\ v.enabled = history[k][v.basis].enabled
      BY <1>2, <2>2, <3>2, LegalAppends DEF LegalWrite, Current
    <3>4. history'[k][v.basis] = history[k][v.basis]
      BY <1>2, <3>3, LegalAppends
    <3>. QED
      BY <1>2, <2>2, <3>1, <3>3, <3>4, LegalAppends
  <2>. QED
    BY <1>2, <2>0, <2>1, <2>2, LegalAppends
<1>. QED
  BY <1>1, <1>2, StepWrites DEF EditsReplaceWhatWasShown

LEMMA FlagTrailStep ==
  ASSUME TypeOK, ShownWasStored, FlagTrail, [Next]_vars
  PROVE  FlagTrail'
<1>1. CASE UNCHANGED history
  BY <1>1 DEF FlagTrail
<1>2. ASSUME NEW k \in Services, NEW v \in Version, LegalWrite(k, v),
             NEW j \in Services, NEW n \in 1..Len(history'[j]), NEW b \in 1..n,
             history'[j][b].enabled # history'[j][n].enabled
      PROVE  \E m \in (b + 1)..n :
               history'[j][m].enabled # history'[j][m - 1].enabled
  <2>0. Len(history[j]) \in Nat /\ Len(history[k]) \in Nat
    BY DEF TypeOK
  <2>1. ASSUME n <= Len(history[j]) \/ j # k
        PROVE  \E m \in (b + 1)..n :
                 history'[j][m].enabled # history'[j][m - 1].enabled
    <3>1. n \in 1..Len(history[j])
      BY <1>2, <2>0, <2>1, LegalAppends
    <3>2. \A m \in 1..Len(history[j]) : history'[j][m] = history[j][m]
      BY <1>2, LegalAppends
    <3>3. history[j][b].enabled # history[j][n].enabled
      BY <1>2, <3>1, <3>2
    <3>4. PICK m \in (b + 1)..n : history[j][m].enabled # history[j][m - 1].enabled
      BY <3>1, <3>3 DEF FlagTrail
    <3>5. m \in 1..Len(history[j]) /\ m - 1 \in 1..Len(history[j])
      BY <2>0, <3>1, <3>4
    <3>. QED
      BY <3>2, <3>4, <3>5
  <2>2. CASE j = k /\ n = Len(history[k]) + 1
    <3>1. b \in 1..Len(history[k])
      BY <1>2, <2>0, <2>2
    <3>2. \A m \in 1..Len(history[k]) : history'[k][m] = history[k][m]
      BY <1>2, LegalAppends
    <3>3. CASE history'[k][n].enabled # history'[k][n - 1].enabled
      BY <2>0, <2>2, <3>1, <3>3
    <3>4. CASE history'[k][n].enabled = history'[k][n - 1].enabled
      <4>1. n - 1 \in 1..Len(history[k]) /\ b \in 1..(n - 1)
        BY <2>0, <2>2, <3>1
      <4>2. history[k][b].enabled # history[k][n - 1].enabled
        BY <1>2, <2>2, <3>1, <3>2, <3>4, <4>1
      <4>3. PICK m \in (b + 1)..(n - 1) :
              history[k][m].enabled # history[k][m - 1].enabled
        BY <4>1, <4>2 DEF FlagTrail
      <4>4. m \in 1..Len(history[k]) /\ m - 1 \in 1..Len(history[k]) /\ m \in (b + 1)..n
        BY <2>0, <2>2, <3>1, <4>3
      <4>. QED
        BY <2>2, <3>2, <4>3, <4>4
    <3>. QED
      BY <3>3, <3>4
  <2>3. (n <= Len(history[j]) \/ j # k) \/ (j = k /\ n = Len(history[k]) + 1)
    <3>1. j = k => n \in 1..(Len(history[k]) + 1)
      BY <1>2, LegalAppends
    <3>. QED
      BY <2>0, <3>1
  <2>. QED
    BY <2>1, <2>2, <2>3
<1>. QED
  BY <1>1, <1>2, StepWrites DEF FlagTrail

LEMMA ConfiguredStep ==
  ASSUME TypeOK, ShownWasStored, OnlyConfiguredRows, [Next]_vars
  PROVE  OnlyConfiguredRows'
<1>1. CASE UNCHANGED history
  BY <1>1 DEF OnlyConfiguredRows, Exists
<1>2. ASSUME NEW k \in Services, NEW v \in Version, LegalWrite(k, v)
      PROVE  OnlyConfiguredRows'
  BY <1>2, LegalAppends DEF OnlyConfiguredRows, Exists, LegalWrite
<1>. QED
  BY <1>1, <1>2, StepWrites

-----------------------------------------------------------------------------
(* The answers.                                                            *)

LEMMA ScreenUpdates ==
  ASSUME TypeOK, NEW t \in Tabs, Screen(t), NEW v \in updates', v.answer # "none"
  PROVE  v \in updates
<1>1. CASE Leave(t)
  <2>1. \A u \in updates : u.answer = "none" => [u EXCEPT !.heard = FALSE].answer = "none"
    BY DEF TypeOK, Update
  <2>. QED
    BY <1>1, <2>1 DEF Leave, Unanswered
<1>2. ASSUME NEW x \in Entered, Confirm(t, x) PROVE v \in updates
  BY <1>2 DEF Confirm
<1>3. CASE \/ Open(t) \/ ReadList(t) \/ FailList(t) \/ ShowList(t) \/ Cancel(t)
           \/ \E k \in Services : Edit(t, k)
  BY <1>3 DEF Open, ReadList, FailList, ShowList, Cancel, Edit
<1>. QED
  BY <1>1, <1>2, <1>3 DEF Screen

\* An answered update was answered before, or by this very step.
LEMMA NewAnswers ==
  ASSUME TypeOK, [Next]_vars, NEW v \in updates', v.answer # "none"
  PROVE  \/ v \in updates
         \/ \E u \in updates :
              /\ SameUpdate(v, u)
              /\ v.answer = "conflict" => Refuse(u)
              /\ v.answer = "ok" => Apply(u)
<1>1. ASSUME NEW k \in Services, CallerPuts(k) PROVE v \in updates
  BY <1>1 DEF CallerPuts
<1>2. ASSUME NEW t \in Tabs, Screen(t) PROVE v \in updates
  BY <1>2, ScreenUpdates
<1>3. ASSUME NEW u \in updates, Serve(u), v \notin updates
      PROVE  /\ SameUpdate(v, u)
             /\ v.answer = "conflict" => Refuse(u)
             /\ v.answer = "ok" => Apply(u)
  <2>1. SameUpdate(v, u)
    BY <1>3, ServeKeeps
  <2>2. u \in Update
    BY DEF TypeOK
  <2>3. \A a : [u EXCEPT !.answer = a].answer = a
    BY <2>2 DEF Update
  <2>4. CASE Reject(u)
    BY <1>3, <2>1, <2>3, <2>4 DEF Reject, Answer, Replace
  <2>5. Repeat(u) => v.answer = "none"
    <3>1. [u EXCEPT !.tries = @ + 1].answer = u.answer
      BY <2>2 DEF Update
    <3>2. ASSUME Repeat(u), u.answer = "none" PROVE v.answer = "none"
      BY <1>3, <3>1, <3>2 DEF Repeat, Replace
    <3>3. u.answer = "none"
      BY <1>3 DEF Serve, Reject, Apply, MayApply, Refuse, Fail, Hear, Replace
    <3>. QED
      BY <3>2, <3>3
  <2>6. CASE Apply(u)
    BY <1>3, <2>1, <2>3, <2>5, <2>6 DEF Apply, Answer, Replace
  <2>7. CASE Refuse(u)
    BY <1>3, <2>1, <2>3, <2>7 DEF Refuse, Answer, Replace
  <2>8. CASE Fail(u)
    BY <1>3, <2>1, <2>3, <2>5, <2>8 DEF Fail, Answer, Replace
  <2>9. CASE Hear(u)
    BY <1>3, <2>9 DEF Hear, Replace
  <2>. QED
    BY <1>3, <2>4, <2>6, <2>7, <2>8, <2>9 DEF Serve
<1>4. CASE UNCHANGED vars
  BY <1>4 DEF vars
<1>. QED
  BY <1>1, <1>2, <1>3, <1>4 DEF Next

LEMMA ConflictStep ==
  ASSUME TypeOK, ShownWasStored, ConflictMeansChanged, [Next]_vars
  PROVE  ConflictMeansChanged'
<1> SUFFICES ASSUME NEW v \in updates', v.answer = "conflict"
             PROVE  \E n \in (v.shown.basis + 1)..Len(history'[v.service]) :
                      history'[v.service][n].threshold # v.shown.threshold
  BY DEF ConflictMeansChanged
<1>g. Grows
  BY StepGrows
<1>1. CASE v \in updates
  <2>1. v.service \in Services /\ v.shown.basis \in Nat
    BY <1>1 DEF TypeOK, Update, Shown
  <2>2. PICK n \in (v.shown.basis + 1)..Len(history[v.service]) :
          history[v.service][n].threshold # v.shown.threshold
    BY <1>1 DEF ConflictMeansChanged
  <2>. QED
    BY <1>g, <2>1, <2>2 DEF Grows
<1>2. ASSUME NEW u \in updates, SameUpdate(v, u), Refuse(u)
      PROVE  \E n \in (v.shown.basis + 1)..Len(history'[v.service]) :
               history'[v.service][n].threshold # v.shown.threshold
  <2>1. u.service \in Services /\ WasStored(u.service, u.shown)
    BY DEF TypeOK, Update, ShownWasStored
  <2>2. Len(history[u.service]) \in Nat
    BY <2>1 DEF TypeOK
  <2>3. Exists(u.service)
    <3>1. Len(history[u.service]) # 0
      BY <2>1, <2>2 DEF WasStored
    <3>. QED
      BY <3>1 DEF Exists
  <2>4. Current(u.service).threshold # u.shown.threshold
    BY <1>2, <2>3 DEF Refuse, ConditionHolds
  <2>5. u.shown.basis # Len(history[u.service])
    BY <2>1, <2>4 DEF WasStored, Current
  <2>6. Len(history[u.service]) \in (u.shown.basis + 1)..Len(history[u.service])
    BY <2>1, <2>2, <2>5 DEF WasStored
  <2>7. UNCHANGED history
    BY <1>2 DEF Refuse
  <2>. QED
    BY <1>2, <2>4, <2>6, <2>7 DEF SameUpdate, Current
<1>. QED
  BY <1>1, <1>2, NewAnswers

LEMMA OkStep ==
  ASSUME TypeOK, ShownWasStored, OkMeansWritten, [Next]_vars
  PROVE  OkMeansWritten'
<1> SUFFICES ASSUME NEW v \in updates', v.answer = "ok"
             PROVE  \E n \in (v.shown.basis + 1)..Len(history'[v.service]) :
                      history'[v.service][n] = Written(v)
  BY DEF OkMeansWritten, Written
<1>g. Grows
  BY StepGrows
<1>1. CASE v \in updates
  <2>1. v.service \in Services /\ v.shown.basis \in Nat
    BY <1>1 DEF TypeOK, Update, Shown
  <2>2. PICK n \in (v.shown.basis + 1)..Len(history[v.service]) :
          history[v.service][n] = Written(v)
    BY <1>1 DEF OkMeansWritten
  <2>. QED
    BY <1>g, <2>1, <2>2 DEF Grows
<1>2. ASSUME NEW u \in updates, SameUpdate(v, u), Apply(u)
      PROVE  \E n \in (v.shown.basis + 1)..Len(history'[v.service]) :
               history'[v.service][n] = Written(v)
  <2>1. u.service \in Services /\ WasStored(u.service, u.shown)
    BY DEF TypeOK, Update, ShownWasStored
  <2>2. Written(u) \in Version /\ LegalWrite(u.service, Written(u))
    BY <1>2, ApplyWrites
  <2>3. /\ Len(history'[u.service]) = Len(history[u.service]) + 1
        /\ history'[u.service][Len(history[u.service]) + 1] = Written(u)
        /\ Len(history[u.service]) \in Nat
    BY <2>1, <2>2, LegalAppends
  <2>4. Len(history[u.service]) + 1
          \in (u.shown.basis + 1)..Len(history'[u.service])
    BY <2>1, <2>3 DEF WasStored
  <2>5. Written(v) = Written(u)
    BY <1>2 DEF SameUpdate, Written
  <2>. QED
    BY <1>2, <2>3, <2>4, <2>5 DEF SameUpdate
<1>. QED
  BY <1>1, <1>2, NewAnswers

-----------------------------------------------------------------------------
(* Repeated updates.  The versions an update has written so far are no     *)
(* more than its tries.                                                    *)

ByConfirm(k, c) == {n \in Edits(k) : history[k][n].confirm = c}

ConfirmsUnique == \A u, v \in updates : u.confirm = v.confirm => u = v

ConfirmsPast ==
  /\ \A u \in updates : u.confirm <= confirms
  /\ \A k \in Services : \A n \in Edits(k) : history[k][n].confirm <= confirms

\* The versions of one update have all the basis of its dialog's row.
BasisTraced ==
  \A k \in Services : \A n \in Edits(k) :
    /\ \A m \in Edits(k) : history[k][m].confirm = history[k][n].confirm =>
                             history[k][m].basis = history[k][n].basis
    /\ \A u \in updates : history[k][n].confirm = u.confirm =>
                            history[k][n].basis = u.shown.basis

TriesCounted ==
  /\ \A u \in updates : u.answer = "none" =>
       /\ u.tries < MaxTries
       /\ \A k \in Services : Cardinality(ByConfirm(k, u.confirm)) <= u.tries
  /\ \A k \in Services : \A c \in Nat : Cardinality(ByConfirm(k, c)) <= MaxTries

RepeatInv == ConfirmsUnique /\ ConfirmsPast /\ BasisTraced /\ TriesCounted

\* What becomes of an update that writes nothing.
Kept(v, u) ==
  /\ SameUpdate(v, u)
  /\ u.tries <= v.tries
  /\ v.answer = "none" =>
       u.answer = "none" /\ (v.tries = u.tries \/ v.tries < MaxTries)

Fresh(v) ==
  /\ confirms' = confirms + 1
  /\ v.confirm = confirms + 1 /\ v.tries = 0 /\ v.answer = "none"

\* The versions of an update are finitely many.
LEMMA ByFinite ==
  ASSUME TypeOK, NEW k \in Services, NEW c
  PROVE  IsFiniteSet(ByConfirm(k, c)) /\ Cardinality(ByConfirm(k, c)) \in Nat
<1>1. Len(history[k]) \in Nat
  BY DEF TypeOK
<1>2. IsFiniteSet(1..Len(history[k]))
  BY <1>1, FS_Interval
<1>3. ByConfirm(k, c) \in SUBSET (1..Len(history[k]))
  BY DEF ByConfirm, Edits
<1>4. IsFiniteSet(ByConfirm(k, c))
  BY <1>2, <1>3, FS_Subset
<1>. QED
  BY <1>4, FS_CardinalityType

\* The fields of an update under way.
LEMMA UpdateFields ==
  ASSUME TypeOK, NEW u \in updates
  PROVE  /\ u \in Update /\ u.confirm \in Nat /\ u.tries \in Nat
         /\ u.tab \in Tabs /\ u.service \in Services
  BY DEF TypeOK, Update

\* The confirmation of an edit is a number.
LEMMA EditConfirm ==
  ASSUME TypeOK, NEW k \in Services, NEW n \in Edits(k)
  PROVE  /\ n \in 1..Len(history[k]) /\ history[k][n].confirm \in Nat
<1>1. history[k] \in Seq(Version) /\ n \in 1..Len(history[k])
  BY DEF TypeOK, Edits
<1>2. history[k][n] \in Version
  BY <1>1
<1>. QED
  BY <1>1, <1>2 DEF Version

\* A step in which no screen's update is written leaves the edits.
EditsStay ==
  \A k \in Services :
    /\ Edits(k)' = Edits(k)
    /\ \A n \in Edits(k) : history'[k][n] = history[k][n]

\* Such are the steps that write nothing, and the writes of API callers.
LEMMA QuietEdits ==
  ASSUME TypeOK,
         \/ UNCHANGED history
         \/ \E k \in Services, v \in Version : LegalWrite(k, v) /\ v.author = Nobody
  PROVE  EditsStay
<1>1. CASE UNCHANGED history
  BY <1>1 DEF EditsStay, Edits
<1>2. ASSUME NEW k \in Services, NEW v \in Version, LegalWrite(k, v), v.author = Nobody
      PROVE  EditsStay
  <2>1. /\ Len(history[k]) \in Nat
        /\ Len(history'[k]) = Len(history[k]) + 1
        /\ history'[k][Len(history[k]) + 1] = v
        /\ \A n \in 1..Len(history[k]) : history'[k][n] = history[k][n]
        /\ \A j \in Services : j # k => history'[j] = history[j]
    BY <1>2, LegalAppends
  <2>2. v.author \notin Tabs
    BY <1>2, PolicyAssumption
  <2>3. 1..Len(history'[k]) = (1..Len(history[k])) \cup {Len(history[k]) + 1}
    BY <2>1
  <2>4. /\ Edits(k)' = Edits(k)
        /\ \A n \in Edits(k) : history'[k][n] = history[k][n]
    BY <2>1, <2>2, <2>3 DEF Edits
  <2>5. \A j \in Services : j # k => Edits(j)' = Edits(j)
    BY <2>1 DEF Edits
  <2>. QED
    BY <2>1, <2>4, <2>5 DEF EditsStay
<1>. QED
  BY <1>1, <1>2

\* Such a step, when it keeps updates apart, keeps the invariant.
LEMMA QuietRepeats ==
  ASSUME TypeOK, TypeOK', RepeatInv, EditsStay, ConfirmsUnique',
         confirms <= confirms',
         \A v \in updates' : Fresh(v) \/ \E u \in updates : Kept(v, u)
  PROVE  RepeatInv'
<1>0. /\ confirms \in Nat /\ confirms' \in Nat /\ MaxTries \in Nat \ {0}
      /\ ConfirmsPast /\ BasisTraced /\ TriesCounted
  BY PolicyBounds DEF TypeOK, RepeatInv
<1>1. \A k \in Services : \A c : ByConfirm(k, c)' = ByConfirm(k, c)
  BY DEF EditsStay, ByConfirm
<1>2. \A k \in Services : ByConfirm(k, confirms + 1) = {}
  BY <1>0, EditConfirm DEF ByConfirm, ConfirmsPast
<1>3. ConfirmsPast'
  <2>1. ASSUME NEW v \in updates' PROVE v.confirm <= confirms'
    <3>1. CASE Fresh(v)
      BY <1>0, <3>1 DEF Fresh
    <3>2. ASSUME NEW u \in updates, Kept(v, u) PROVE v.confirm <= confirms'
      BY <1>0, <3>2, UpdateFields DEF Kept, SameUpdate, ConfirmsPast
    <3>. QED
      BY <3>1, <3>2
  <2>2. ASSUME NEW k \in Services, NEW n \in Edits(k)'
        PROVE  history'[k][n].confirm <= confirms'
    BY <1>0, EditConfirm DEF EditsStay, ConfirmsPast
  <2>. QED
    BY <2>1, <2>2 DEF ConfirmsPast
<1>4. BasisTraced'
  <2>1. ASSUME NEW k \in Services, NEW n \in Edits(k), NEW v \in updates',
               history[k][n].confirm = v.confirm
        PROVE  history[k][n].basis = v.shown.basis
    <3>1. CASE Fresh(v)
      BY <1>0, <2>1, <3>1, EditConfirm DEF Fresh, ConfirmsPast
    <3>2. ASSUME NEW u \in updates, Kept(v, u)
          PROVE  history[k][n].basis = v.shown.basis
      BY <1>0, <2>1, <3>2 DEF Kept, SameUpdate, BasisTraced
    <3>. QED
      BY <3>1, <3>2
  <2>. QED
    BY <1>0, <2>1 DEF BasisTraced, EditsStay
<1>5. TriesCounted'
  <2>1. ASSUME NEW v \in updates', v.answer = "none"
        PROVE  /\ v.tries < MaxTries
               /\ \A k \in Services : Cardinality(ByConfirm(k, v.confirm)) <= v.tries
    <3>1. CASE Fresh(v)
      <4>1. v.tries = 0 /\ v.confirm = confirms + 1
        BY <3>1 DEF Fresh
      <4>2. \A k \in Services : Cardinality(ByConfirm(k, v.confirm)) = 0
        BY <1>2, <4>1, FS_EmptySet, Zenon
      <4>. QED
        BY <1>0, <4>1, <4>2
    <3>2. ASSUME NEW u \in updates, Kept(v, u)
          PROVE  /\ v.tries < MaxTries
                 /\ \A k \in Services : Cardinality(ByConfirm(k, v.confirm)) <= v.tries
      <4>1. /\ u.answer = "none" /\ v.confirm = u.confirm
            /\ u.tries <= v.tries /\ (v.tries = u.tries \/ v.tries < MaxTries)
        BY <2>1, <3>2 DEF Kept, SameUpdate
      <4>2. /\ u.tries < MaxTries
            /\ \A k \in Services : Cardinality(ByConfirm(k, u.confirm)) <= u.tries
        BY <1>0, <4>1 DEF TriesCounted
      <4>3. \A k \in Services : Cardinality(ByConfirm(k, u.confirm)) \in Nat
        BY ByFinite
      <4>4. v.tries < MaxTries
        BY <4>1, <4>2
      <4>5. u.tries \in Nat /\ v.tries \in Nat
        BY UpdateFields DEF TypeOK, Update
      <4>. QED
        BY <4>1, <4>2, <4>3, <4>4, <4>5
    <3>. QED
      BY <2>1, <3>1, <3>2
  <2>2. \A k \in Services : \A c \in Nat : Cardinality(ByConfirm(k, c)) <= MaxTries
    BY <1>0 DEF TriesCounted
  <2>. QED
    BY <1>1, <2>1, <2>2 DEF TriesCounted
<1>. QED
  BY <1>3, <1>4, <1>5 DEF RepeatInv

\* A screen adds a fresh update or keeps the updates there are.
LEMMA ScreenRepeats ==
  ASSUME TypeOK, RepeatInv, NEW t \in Tabs, Screen(t)
  PROVE  /\ ConfirmsUnique' /\ confirms <= confirms'
         /\ \A v \in updates' : Fresh(v) \/ \E u \in updates : Kept(v, u)
<1>0. confirms \in Nat /\ ConfirmsUnique /\ ConfirmsPast
  BY DEF TypeOK, RepeatInv
<1>k. \A u \in updates : Kept(u, u)
  BY UpdateFields DEF Kept, SameUpdate
<1>1. CASE Leave(t)
  <2>1. \A u \in updates : /\ [u EXCEPT !.heard = FALSE].confirm = u.confirm
                           /\ Kept([u EXCEPT !.heard = FALSE], u)
    BY UpdateFields DEF Kept, SameUpdate, Update
  <2>2. \A v \in updates' : v \in {u \in updates : u.tab # t}
          \/ \E u \in updates : u.tab = t /\ v = [u EXCEPT !.heard = FALSE]
    BY <1>1 DEF Leave, Unanswered
  <2>3. ASSUME NEW v \in updates', NEW w \in updates', v.confirm = w.confirm
        PROVE  v = w
    <3>1. PICK p \in updates : /\ v.confirm = p.confirm
                               /\ v = IF p.tab = t THEN [p EXCEPT !.heard = FALSE]
                                                   ELSE p
      BY <2>1, <2>2
    <3>2. PICK q \in updates : /\ w.confirm = q.confirm
                               /\ w = IF q.tab = t THEN [q EXCEPT !.heard = FALSE]
                                                   ELSE q
      BY <2>1, <2>2
    <3>3. p = q
      BY <1>0, <2>3, <3>1, <3>2 DEF ConfirmsUnique
    <3>. QED
      BY <3>1, <3>2, <3>3
  <2>4. confirms <= confirms'
    BY <1>0, <1>1 DEF Leave
  <2>5. ConfirmsUnique'
    BY <2>3 DEF ConfirmsUnique
  <2>. QED
    BY <1>k, <2>1, <2>2, <2>4, <2>5
<1>2. ASSUME NEW x \in Entered, Confirm(t, x)
      PROVE  /\ ConfirmsUnique' /\ confirms <= confirms'
             /\ \A v \in updates' : Fresh(v) \/ \E u \in updates : Kept(v, u)
  <2>a. PICK d \in dialog[t] :
          updates' = updates \cup
            {[confirm |-> confirms + 1, tab |-> t, heard |-> TRUE,
              service |-> d.service, threshold |-> x, shown |-> d.row,
              tries |-> 0, answer |-> "none"]}
    BY <1>2 DEF Confirm
  <2> DEFINE w == [confirm |-> confirms + 1, tab |-> t, heard |-> TRUE,
                   service |-> d.service, threshold |-> x, shown |-> d.row,
                   tries |-> 0, answer |-> "none"]
  <2>1. /\ updates' = updates \cup {w}
        /\ w.confirm = confirms + 1 /\ w.tries = 0 /\ w.answer = "none"
    BY <2>a
  <2>. HIDE DEF w
  <2>2. confirms' = confirms + 1
    BY <1>2 DEF Confirm
  <2>3. ConfirmsUnique'
    BY <1>0, <2>1, UpdateFields DEF ConfirmsUnique, ConfirmsPast
  <2>. QED
    BY <1>0, <1>k, <2>1, <2>2, <2>3 DEF Fresh
<1>3. CASE \/ Open(t) \/ ReadList(t) \/ FailList(t) \/ ShowList(t) \/ Cancel(t)
           \/ \E k \in Services : Edit(t, k)
  <2>1. UNCHANGED <<updates, confirms>>
    BY <1>3 DEF Open, ReadList, FailList, ShowList, Cancel, Edit
  <2>. QED
    BY <1>0, <1>k, <2>1 DEF ConfirmsUnique
<1>. QED
  BY <1>1, <1>2, <1>3 DEF Screen

\* Replacing an update by one of its confirmation keeps updates apart.
LEMMA OneReplaced ==
  ASSUME ConfirmsUnique, NEW u \in updates, NEW next, updates' = (updates \ {u}) \cup next,
         \A v \in next : v.confirm = u.confirm, \A v, w \in next : v = w
  PROVE  ConfirmsUnique'
  BY DEF ConfirmsUnique

\* What an attempt makes of its update.
LEMMA ServeRepeats ==
  ASSUME TypeOK, RepeatInv, NEW u \in updates, Serve(u)
  PROVE  /\ ConfirmsUnique' /\ confirms' = confirms
         /\ \A v \in updates' : (v \in updates /\ v # u) \/ Kept(v, u)
         /\ Apply(u) => \A v \in updates' :
              (v \in updates /\ v # u) \/ (v.answer = "none" => v.tries = u.tries + 1)
<1>0. ConfirmsUnique /\ u \in Update /\ u.tries \in Nat
  BY UpdateFields DEF RepeatInv
<1>a. \A a : /\ [u EXCEPT !.answer = a].confirm = u.confirm
             /\ [u EXCEPT !.answer = a].answer = a
             /\ [u EXCEPT !.answer = a].tries = u.tries
             /\ SameUpdate([u EXCEPT !.answer = a], u)
  BY <1>0 DEF Update, SameUpdate
<1>r. LET w == [u EXCEPT !.tries = @ + 1] IN
      w.confirm = u.confirm /\ w.answer = u.answer /\ w.tries = u.tries + 1
      /\ SameUpdate(w, u)
  BY <1>0 DEF Update, SameUpdate
<1>1. ASSUME NEW a \in {"ok", "conflict", "error"}, Answer(u, a)
      PROVE  /\ ConfirmsUnique'
             /\ \A v \in updates' : (v \in updates /\ v # u)
                                      \/ (v.answer # "none" /\ Kept(v, u))
  <2> DEFINE next == IF u.heard THEN {[u EXCEPT !.answer = a]} ELSE {}
  <2>1. updates' = (updates \ {u}) \cup next
    BY <1>1 DEF Answer, Replace
  <2> DEFINE w == [u EXCEPT !.answer = a]
  <2>a. /\ w.confirm = u.confirm /\ w.answer # "none"
        /\ w.tries = u.tries /\ SameUpdate(w, u)
    BY <1>1, <1>a
  <2>b. next \subseteq {w}
    OBVIOUS
  <2>. HIDE DEF w, next
  <2>c. Kept(w, u)
    BY <1>0, <2>a DEF Kept
  <2>2. \A v \in next : /\ v.confirm = u.confirm /\ v.answer # "none" /\ Kept(v, u)
                        /\ \A x \in next : v = x
    BY <2>a, <2>b, <2>c
  <2>d. /\ \A v \in next : v.confirm = u.confirm
        /\ \A v, x \in next : v = x
    BY <2>2
  <2>3. ConfirmsUnique'
    BY <1>0, <2>1, <2>d, OneReplaced
  <2>. QED
    BY <2>1, <2>2, <2>3
<1>2. ASSUME Repeat(u), u.answer = "none"
      PROVE  /\ ConfirmsUnique'
             /\ \A v \in updates' : (v \in updates /\ v # u)
                                      \/ (v.tries = u.tries + 1 /\ Kept(v, u))
  <2> DEFINE w == [u EXCEPT !.tries = @ + 1]
  <2>1. updates' = (updates \ {u}) \cup {w} /\ u.tries + 1 < MaxTries
    BY <1>2 DEF Repeat, Replace
  <2>2. w.confirm = u.confirm /\ w.tries = u.tries + 1 /\ Kept(w, u)
    BY <1>0, <1>r, <1>2, <2>1 DEF Kept
  <2>. HIDE DEF w
  <2> DEFINE next == {w}
  <2>a. /\ updates' = (updates \ {u}) \cup next
        /\ \A v \in next : v.confirm = u.confirm
        /\ \A v, x \in next : v = x
    BY <2>1, <2>2
  <2>. HIDE DEF next
  <2>3. ConfirmsUnique'
    BY <1>0, <2>a, OneReplaced
  <2>. QED
    BY <2>1, <2>2, <2>3
<1>3. CASE Reject(u) \/ Apply(u) \/ Refuse(u) \/ Fail(u)
  <2>1. /\ u.answer = "none" /\ confirms' = confirms
        /\ Repeat(u) \/ \E a \in {"ok", "conflict", "error"} : Answer(u, a)
    BY <1>3 DEF Reject, Apply, MayApply, Refuse, Fail
  <2>. QED
    BY <1>1, <1>2, <2>1
<1>4. CASE Hear(u)
  <2>1. updates' = updates \ {u} /\ confirms' = confirms
    BY <1>4 DEF Hear, Replace
  <2>. QED
    BY <1>0, <2>1 DEF ConfirmsUnique
<1>. QED
  BY <1>3, <1>4 DEF Serve

\* The edit an attempt adds.
LEMMA ApplyEdits ==
  ASSUME TypeOK, ShownWasStored, NEW u \in updates, Apply(u)
  PROVE  LET last == Len(history[u.service]) + 1 IN
         /\ last \notin Edits(u.service)
         /\ Edits(u.service)' = Edits(u.service) \cup {last}
         /\ \A k \in Services : k # u.service => Edits(k)' = Edits(k)
         /\ \A k \in Services : \A n \in Edits(k) : history'[k][n] = history[k][n]
         /\ history'[u.service][last].confirm = u.confirm
         /\ history'[u.service][last].basis = u.shown.basis
<1> DEFINE k == u.service
           last == Len(history[k]) + 1
<1>1. k \in Services /\ u.tab \in Tabs
  BY UpdateFields
<1>2. Written(u) \in Version /\ LegalWrite(k, Written(u))
  BY ApplyWrites
<1>3. /\ Len(history[k]) \in Nat /\ Len(history'[k]) = last
      /\ history'[k][last] = Written(u)
      /\ \A n \in 1..Len(history[k]) : history'[k][n] = history[k][n]
      /\ \A j \in Services : j # k => history'[j] = history[j]
  BY <1>1, <1>2, LegalAppends
<1>4. 1..Len(history'[k]) = (1..Len(history[k])) \cup {last}
  BY <1>3
<1>5. /\ Written(u).author = u.tab /\ Written(u).confirm = u.confirm
      /\ Written(u).basis = u.shown.basis
  BY DEF Written
<1>a. last \notin 1..Len(history[k])
  BY <1>3
<1>b. history'[k][last].author \in Tabs
  BY <1>1, <1>3, <1>5
<1>. HIDE DEF last, k
<1>6. last \notin Edits(k) /\ Edits(k)' = Edits(k) \cup {last}
  BY <1>a, <1>b, <1>3, <1>4 DEF Edits
<1>7. \A j \in Services : j # k => Edits(j)' = Edits(j)
  BY <1>3 DEF Edits
<1>8. \A j \in Services : \A n \in Edits(j) : history'[j][n] = history[j][n]
  BY <1>3 DEF Edits
<1>. QED
  BY <1>3, <1>5, <1>6, <1>7, <1>8 DEF last, k

\* An attempt that writes adds one version, and one try unless it ends the update.
LEMMA ApplyRepeats ==
  ASSUME TypeOK, TypeOK', ShownWasStored, RepeatInv, NEW u \in updates, Apply(u)
  PROVE  RepeatInv'
<1> DEFINE s == u.service
           last == Len(history[s]) + 1
<1>0. /\ confirms \in Nat /\ MaxTries \in Nat \ {0} /\ u.tries \in Nat
      /\ u.confirm \in Nat /\ s \in Services /\ u.answer = "none"
      /\ ConfirmsUnique /\ ConfirmsPast /\ BasisTraced /\ TriesCounted
  BY PolicyBounds, UpdateFields DEF TypeOK, RepeatInv, Apply, MayApply
<1>1. /\ last \notin Edits(s) /\ Edits(s)' = Edits(s) \cup {last}
      /\ \A k \in Services : k # s => Edits(k)' = Edits(k)
      /\ \A k \in Services : \A n \in Edits(k) : history'[k][n] = history[k][n]
      /\ history'[s][last].confirm = u.confirm
      /\ history'[s][last].basis = u.shown.basis
  BY ApplyEdits
<1>2. /\ ConfirmsUnique' /\ confirms' = confirms
      /\ \A v \in updates' : (v \in updates /\ v # u)
           \/ (Kept(v, u) /\ (v.answer = "none" => v.tries = u.tries + 1))
  BY ServeRepeats DEF Serve
<1>. HIDE DEF last
<1>3. \A k \in Services : \A n \in Edits(k)' :
        n \in Edits(k) \/ (k = s /\ n = last)
  BY <1>1
<1>4. \A v \in updates' : v \in updates /\ v # u => v.confirm # u.confirm
  BY <1>0 DEF ConfirmsUnique
<1>5. ConfirmsPast'
  <2>1. \A v \in updates' : v.confirm <= confirms
    BY <1>0, <1>2 DEF Kept, SameUpdate, ConfirmsPast
  <2>2. \A k \in Services : \A n \in Edits(k)' : history'[k][n].confirm <= confirms
    BY <1>0, <1>1, <1>3 DEF ConfirmsPast
  <2>. QED
    BY <1>2, <2>1, <2>2 DEF ConfirmsPast
<1>6. BasisTraced'
  <2>1. ASSUME NEW k \in Services, NEW n \in Edits(k)', NEW m \in Edits(k)',
               history'[k][m].confirm = history'[k][n].confirm
        PROVE  history'[k][m].basis = history'[k][n].basis
    BY <1>0, <1>1, <1>3, <2>1 DEF BasisTraced
  <2>2. ASSUME NEW k \in Services, NEW n \in Edits(k)', NEW v \in updates',
               history'[k][n].confirm = v.confirm
        PROVE  history'[k][n].basis = v.shown.basis
    <3>1. CASE v \in updates /\ v # u
      BY <1>0, <1>1, <1>3, <1>4, <2>2, <3>1 DEF BasisTraced
    <3>2. CASE Kept(v, u)
      BY <1>0, <1>1, <1>3, <2>2, <3>2 DEF BasisTraced, Kept, SameUpdate
    <3>. QED
      BY <1>2, <3>1, <3>2
  <2>. QED
    BY <2>1, <2>2 DEF BasisTraced
<1>7. /\ \A k \in Services : \A c : c # u.confirm => ByConfirm(k, c)' = ByConfirm(k, c)
      /\ \A k \in Services : k # s => ByConfirm(k, u.confirm)' = ByConfirm(k, u.confirm)
      /\ ByConfirm(s, u.confirm)' = ByConfirm(s, u.confirm) \cup {last}
  BY <1>0, <1>1, <1>3 DEF ByConfirm
<1>8. ASSUME NEW k \in Services
      PROVE  /\ Cardinality(ByConfirm(k, u.confirm)') <= u.tries + 1
             /\ u.tries < MaxTries
  <2>1. /\ Cardinality(ByConfirm(k, u.confirm)) <= u.tries /\ u.tries < MaxTries
        /\ Cardinality(ByConfirm(k, u.confirm)) \in Nat
        /\ IsFiniteSet(ByConfirm(k, u.confirm))
    BY <1>0, ByFinite DEF TriesCounted
  <2>2. CASE k # s
    <3>1. Cardinality(ByConfirm(k, u.confirm)') = Cardinality(ByConfirm(k, u.confirm))
      BY <1>7, <2>2, Zenon
    <3>. QED
      BY <1>0, <2>1, <3>1
  <2>3. CASE k = s
    <3>1. Cardinality(ByConfirm(k, u.confirm) \cup {last})
            = IF last \in ByConfirm(k, u.confirm)
              THEN Cardinality(ByConfirm(k, u.confirm))
              ELSE Cardinality(ByConfirm(k, u.confirm)) + 1
      BY <2>1, FS_AddElement
    <3>2. ByConfirm(k, u.confirm)' = ByConfirm(k, u.confirm) \cup {last}
      BY <1>7, <2>3
    <3>3. Cardinality(ByConfirm(k, u.confirm)')
            = Cardinality(ByConfirm(k, u.confirm) \cup {last})
      BY <3>2, Zenon
    <3>. QED
      BY <1>0, <2>1, <3>1, <3>3
  <2>. QED
    BY <2>2, <2>3
<1>9. TriesCounted'
  <2>1. ASSUME NEW v \in updates', v.answer = "none"
        PROVE  /\ v.tries < MaxTries
               /\ \A k \in Services : Cardinality(ByConfirm(k, v.confirm)') <= v.tries
    <3>1. CASE v \in updates /\ v # u
      <4>1. \A k \in Services : ByConfirm(k, v.confirm)' = ByConfirm(k, v.confirm)
        BY <1>4, <1>7, <3>1
      <4>. QED
        BY <1>0, <2>1, <3>1, <4>1 DEF TriesCounted
    <3>2. CASE Kept(v, u) /\ v.tries = u.tries + 1
      <4>1. v.confirm = u.confirm /\ v.tries < MaxTries
        BY <1>0, <2>1, <3>2 DEF Kept, SameUpdate
      <4>. QED
        BY <1>8, <3>2, <4>1
    <3>. QED
      BY <1>2, <2>1, <3>1, <3>2
  <2>2. ASSUME NEW k \in Services, NEW c \in Nat
        PROVE  Cardinality(ByConfirm(k, c)') <= MaxTries
    <3>1. CASE c = u.confirm
      <4>1. IsFiniteSet(ByConfirm(k, u.confirm)) /\ IsFiniteSet({last})
        BY ByFinite, FS_Singleton
      <4>2. Cardinality(ByConfirm(k, u.confirm)') \in Nat
        <5>1. IsFiniteSet(ByConfirm(k, u.confirm) \cup {last})
          BY <4>1, FS_AddElement
        <5>. QED
          BY <1>7, <4>1, <5>1, FS_CardinalityType
      <4>. QED
        BY <1>0, <1>8, <3>1, <4>2
    <3>2. CASE c # u.confirm
      <4>1. Cardinality(ByConfirm(k, c)') = Cardinality(ByConfirm(k, c))
        BY <1>7, <3>2, Zenon
      <4>. QED
        BY <1>0, <4>1 DEF TriesCounted
    <3>. QED
      BY <3>1, <3>2
  <2>. QED
    BY <2>1, <2>2 DEF TriesCounted
<1>. QED
  BY <1>2, <1>5, <1>6, <1>9 DEF RepeatInv

\* Every step keeps the invariant of the repetitions.
LEMMA RepeatStep ==
  ASSUME TypeOK, TypeOK', ShownWasStored, RepeatInv, [Next]_vars
  PROVE  RepeatInv'
<1>0. ConfirmsUnique /\ confirms \in Nat
  BY DEF RepeatInv, TypeOK
<1>k. \A u \in updates : Kept(u, u)
  BY UpdateFields DEF Kept, SameUpdate
<1>1. ASSUME NEW k \in Services, CallerPuts(k) PROVE RepeatInv'
  <2>1. UNCHANGED <<updates, confirms>> /\ EditsStay
    BY <1>1, CallerWrites, QuietEdits
  <2>. QED
    BY <1>0, <1>k, <2>1, QuietRepeats DEF ConfirmsUnique
<1>2. ASSUME NEW t \in Tabs, Screen(t) PROVE RepeatInv'
  <2>1. UNCHANGED history
    BY <1>2 DEF Screen, Open, ReadList, FailList, ShowList, Edit, Cancel, Confirm, Leave
  <2>. QED
    BY <1>2, <2>1, ScreenRepeats, QuietEdits, QuietRepeats
<1>3. ASSUME NEW u \in updates, Serve(u) PROVE RepeatInv'
  <2>1. CASE Apply(u)
    BY <2>1, ApplyRepeats
  <2>2. CASE ~ Apply(u)
    <3>1. UNCHANGED history
      BY <1>3, <2>2 DEF Serve, Reject, Refuse, Fail, Hear
    <3>2. EditsStay
      BY <3>1, QuietEdits
    <3>3. /\ ConfirmsUnique' /\ confirms <= confirms'
          /\ \A v \in updates' : \E w \in updates : Kept(v, w)
      BY <1>0, <1>k, <1>3, ServeRepeats
    <3>. QED
      BY <3>2, <3>3, QuietRepeats
  <2>. QED
    BY <2>1, <2>2
<1>4. CASE UNCHANGED vars
  <2>1. UNCHANGED <<history, updates, confirms>>
    BY <1>4 DEF vars
  <2>2. EditsStay
    BY <2>1, QuietEdits
  <2>. QED
    BY <1>0, <1>k, <2>1, <2>2, QuietRepeats DEF ConfirmsUnique
<1>. QED
  BY <1>1, <1>2, <1>3, <1>4 DEF Next

-----------------------------------------------------------------------------
(* The theorems.                                                           *)

LEMMA InitIInv == Init => IInv
<1> SUFFICES ASSUME Init PROVE IInv
  OBVIOUS
<1>1. TypeOK
  BY InitType
<1>2. \A k \in Services : /\ Exists(k) <=> k \in Configured
                          /\ Len(history[k]) \in {0, 1}
                          /\ Len(history[k]) = 1 => history[k][1] = FirstVersion
  BY DEF Init, Exists
<1>3. OnlyConfiguredRows
  BY <1>2 DEF OnlyConfiguredRows
<1>4. ShownWasStored
  BY DEF Init, ShownWasStored, ListStored, NoRows
<1>5. FlagTrail
  <2>1. ASSUME NEW k \in Services, NEW n \in 1..Len(history[k]), NEW b \in 1..n
        PROVE  b = n
    <3>1. CASE Len(history[k]) = 0
      BY <2>1, <3>1
    <3>2. CASE Len(history[k]) = 1
      BY <2>1, <3>2
    <3>. QED
      BY <1>2, <3>1, <3>2
  <2>. QED
    BY <2>1 DEF FlagTrail
<1>6. EditsReplaceWhatWasShown
  <2>1. \A k \in Services : \A n \in 1..Len(history[k]) : history[k][n].author = Nobody
    BY <1>2 DEF FirstVersion
  <2>. QED
    BY <2>1, PolicyAssumption DEF EditsReplaceWhatWasShown, Edits
<1>7. ConflictMeansChanged /\ OkMeansWritten
  BY DEF Init, ConflictMeansChanged, OkMeansWritten
<1>. QED
  BY <1>1, <1>3, <1>4, <1>5, <1>6, <1>7 DEF IInv

\* The invariant is inductive, whatever the screens, the callers and the
\* client's repetitions do.
THEOREM Inductive == Spec => []IInv
<1>1. IInv /\ [Next]_vars => IInv'
  BY TypeStep, ConfiguredStep, StoredStep, FlagTrailStep, EditsStep,
     ConflictStep, OkStep DEF IInv
<1>. QED
  BY InitIInv, <1>1, PTL DEF Spec

\* The variables keep their types; in particular no threshold outside 0..100
\* is ever stored (update_policy's range check).
THEOREM TypeCorrect == Spec => []TypeOK
<1>1. IInv => TypeOK
  BY DEF IInv
<1>. QED
  BY <1>1, Inductive, PTL

\* No lost update, for any number of tabs, edits and repetitions.
THEOREM NoLostUpdate == Spec => []EditsReplaceWhatWasShown
<1>1. IInv => EditsReplaceWhatWasShown
  BY DEF IInv
<1>. QED
  BY <1>1, Inductive, PTL

\* An edit of a threshold undoes no change of the flag but one made after the
\* version its list returned.
THEOREM FlagSafe == Spec => []FlagUndoneOnlyIfFlipped
<1>1. IInv => FlagUndoneOnlyIfFlipped
  <2> SUFFICES ASSUME IInv, NEW k \in Services, NEW n \in Edits(k),
                      history[k][n].enabled # history[k][n - 1].enabled
               PROVE  \E m \in (history[k][n].basis + 1)..(n - 1) :
                        history[k][m].enabled # history[k][m - 1].enabled
    BY DEF FlagUndoneOnlyIfFlipped
  <2>1. /\ history[k][n].basis \in 1..(n - 1)
        /\ history[k][n].enabled = history[k][history[k][n].basis].enabled
    BY DEF IInv, EditsReplaceWhatWasShown
  <2>2. Len(history[k]) \in Nat
    BY DEF IInv, TypeOK
  <2>3. n - 1 \in 1..Len(history[k])
    BY <2>1, <2>2 DEF Edits
  <2>. QED
    BY <2>1, <2>3 DEF IInv, FlagTrail
<1>. QED
  BY <1>1, Inductive, PTL

\* A 409 always has a change of the threshold behind it.
THEOREM ConflictsJustified == Spec => []ConflictMeansChanged
<1>1. IInv => ConflictMeansChanged
  BY DEF IInv
<1>. QED
  BY <1>1, Inductive, PTL

\* An ok always has its version behind it.
THEOREM OkTruthful == Spec => []OkMeansWritten
<1>1. IInv => OkMeansWritten
  BY DEF IInv
<1>. QED
  BY <1>1, Inductive, PTL

\* No update creates a row.
THEOREM NoRowCreated == Spec => []OnlyConfiguredRows
<1>1. IInv => OnlyConfiguredRows
  BY DEF IInv
<1>. QED
  BY <1>1, Inductive, PTL

\* A repeated update is written no more often than the client tries it, and
\* again only over a threshold somebody restored or one it leaves as it is.
THEOREM RepeatsHarmless == Spec => []RepeatsBounded
<1>1. Init => RepeatInv
  <2> SUFFICES ASSUME Init PROVE RepeatInv
    OBVIOUS
  <2>1. \A k \in Services : Edits(k) = {}
    <3>1. \A k \in Services : \A n \in 1..Len(history[k]) : history[k][n].author = Nobody
      BY DEF Init, FirstVersion
    <3>. QED
      BY <3>1, PolicyAssumption DEF Edits
  <2>2. \A k \in Services : \A c : ByConfirm(k, c) = {}
    BY <2>1 DEF ByConfirm
  <2>3. \A k \in Services : \A c : Cardinality(ByConfirm(k, c)) = 0
    BY <2>2, FS_EmptySet, Zenon
  <2>4. updates = {} /\ MaxTries \in Nat
    BY PolicyBounds DEF Init
  <2>5. TriesCounted
    BY <2>3, <2>4 DEF TriesCounted
  <2>. QED
    BY <2>1, <2>4, <2>5 DEF RepeatInv, ConfirmsUnique, ConfirmsPast, BasisTraced
<1>2. TypeOK /\ TypeOK' /\ ShownWasStored /\ RepeatInv /\ [Next]_vars => RepeatInv'
  BY RepeatStep
<1>3. IInv => TypeOK /\ ShownWasStored
  BY DEF IInv
<1>4. IInv /\ RepeatInv => RepeatsBounded
  <2> SUFFICES ASSUME IInv, RepeatInv, NEW k \in Services, NEW n \in Edits(k)
               PROVE  LET same == {m \in Edits(k) :
                                     history[k][m].confirm = history[k][n].confirm} IN
                      /\ Cardinality(same) <= MaxTries
                      /\ n + 1 \in same =>
                           history[k][n].threshold
                             = history[k][history[k][n].basis].threshold
    BY DEF RepeatsBounded
  <2> DEFINE same == {m \in Edits(k) : history[k][m].confirm = history[k][n].confirm}
  <2>1. n \in Nat /\ history[k][n].confirm \in Nat
    BY EditConfirm DEF IInv
  <2>2. Cardinality(same) <= MaxTries
    BY <2>1 DEF RepeatInv, TriesCounted, ByConfirm
  <2>3. ASSUME n + 1 \in same
        PROVE  history[k][n].threshold = history[k][history[k][n].basis].threshold
    <3>1. n + 1 \in Edits(k) /\ history[k][n + 1].basis = history[k][n].basis
      BY <2>3 DEF RepeatInv, BasisTraced
    <3>2. (n + 1) - 1 = n
      BY <2>1
    <3>. QED
      BY <3>1, <3>2 DEF IInv, EditsReplaceWhatWasShown
  <2>. QED
    BY <2>2, <2>3
<1>. QED
  BY <1>1, <1>2, <1>3, <1>4, Inductive, PTL DEF Spec

=============================================================================
