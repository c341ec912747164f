--------------------------- MODULE PolicyEditing ---------------------------
(***************************************************************************)
(* The policies of one tenant as SREs edit them: the policy table, the     *)
(* Policies screens of several browser tabs (each SRE runs a dashboard of  *)
(* her own, so tabs share nothing but the table), and callers of the API.  *)
(* A list answer and an update are under way for any time; the AWS client  *)
(* repeats an update whose answer was lost; a tab may be left or reloaded  *)
(* at any moment, and its update goes on without it.                       *)
(***************************************************************************)
EXTENDS Integers, Sequences, FiniteSets

CONSTANTS
  Services,     \* service_name of the rows, and of requests
  Configured,   \* services that have a row: only Terraform creates them
  Tabs,         \* browser tabs
  Nobody,       \* author of what Terraform and API callers write
  Entered,      \* thresholds people enter, valid or not
  MaxTries,     \* attempts the AWS client makes of one update
  MaxLoads,     \* bound: list requests of a screen under way
  MaxConfirms,  \* bound: updates the tabs send
  MaxPuts,      \* bound: writes of a row by callers of the API
  MaxVersions   \* bound: versions of a row

ASSUME PolicyAssumption ==
  /\ Configured \subseteq Services
  /\ Nobody \notin Tabs
  /\ Entered \subseteq Int

ASSUME PolicyBounds ==
  /\ MaxTries \in Nat \ {0} /\ MaxLoads \in Nat \ {0}
  /\ MaxConfirms \in Nat /\ MaxPuts \in Nat /\ MaxVersions \in Nat

VARIABLES
  history,    \* versions of each row so far; the last one is in the table
  open,       \* tabs that show the Policies screen
  asked,      \* list requests of each screen that are on their way
  answers,    \* lists read for it that have not reached it
  list,       \* the rows it shows
  dialog,     \* the row its edit dialog was opened on, as a set of at most one
  updates,    \* updates sent and not answered for good
  confirms    \* their number so far

screenVars == <<open, asked, answers, list, dialog>>
vars == <<history, screenVars, updates, confirms>>

Valid == 0..100

\* A version of a row and, as history, who wrote it with which confirmation
\* after having seen which version (0: an API caller or Terraform).
Version == [threshold : Valid, enabled : BOOLEAN,
            author : Tabs \cup {Nobody}, confirm : Nat, basis : Nat]

\* A row as a screen has it, with the version it was read from.
Shown == [threshold : Valid, enabled : BOOLEAN, basis : Nat]

IsList(rows) == DOMAIN rows \subseteq Services /\ rows \in [DOMAIN rows -> Shown]

Update == [confirm : Nat, tab : Tabs, heard : BOOLEAN, service : Services,
           threshold : Int, shown : Shown, tries : Nat,
           answer : {"none", "ok", "conflict", "error"}]

TypeOK ==
  /\ history  \in [Services -> Seq(Version)]
  /\ open     \subseteq Tabs
  /\ asked    \in [Tabs -> Nat]
  /\ DOMAIN answers = Tabs /\ \A t \in Tabs : \A rows \in answers[t] : IsList(rows)
  /\ DOMAIN list = Tabs /\ \A t \in Tabs : IsList(list[t])
  /\ dialog   \in [Tabs -> SUBSET [service : Services, row : Shown]]
  /\ updates  \subseteq Update
  /\ confirms \in Nat

NoRows == [k \in {} |-> 0]

FirstVersion == [threshold |-> 85, enabled |-> TRUE,
                 author |-> Nobody, confirm |-> 0, basis |-> 0]

Init ==
  /\ history  = [k \in Services |-> IF k \in Configured THEN <<FirstVersion>>
                                                        ELSE <<>>]
  /\ open     = {}
  /\ asked    = [t \in Tabs |-> 0]
  /\ answers  = [t \in Tabs |-> {}]
  /\ list     = [t \in Tabs |-> NoRows]
  /\ dialog   = [t \in Tabs |-> {}]
  /\ updates  = {}
  /\ confirms = 0

-----------------------------------------------------------------------------
(* The table.                                                              *)

Exists(k) == history[k] # <<>>
Current(k) == history[k][Len(history[k])]

\* Mutant: the condition leaves out that the row exists.
ConditionUpserts(k, expected) ==
  \A e \in expected : Exists(k) /\ Current(k).threshold = e

\* The condition of update_item; no expected value is the empty set.
ConditionHolds(k, expected) ==
  /\ Exists(k)
  /\ \A e \in expected : Current(k).threshold = e

Write(k, version) ==
  history' = [history EXCEPT ![k] = Append(@, version)]

Rows == {k \in Services : Exists(k)}

\* What list_policies makes of the rows a scan returns.  The scan is not a
\* consistent read: it may return any version a row has had.  (The rows of
\* the deployment, one per service, fit on its page of 100.)
Listed(at) == [k \in Rows |-> [threshold |-> history[k][at[k]].threshold,
                               enabled   |-> history[k][at[k]].enabled,
                               basis     |-> at[k]]]

Scans == {at \in [Rows -> UNION {DOMAIN history[k] : k \in Rows}] :
            \A k \in Rows : at[k] \in DOMAIN history[k]}

\* Somebody calls PUT without the screen, with or without an expected value;
\* leaving the flag out is putting the one there is.
CallerPuts(k) ==
  /\ Cardinality({n \in 2..Len(history[k]) : history[k][n].author = Nobody}) < MaxPuts
  /\ Len(history[k]) < MaxVersions
  /\ \E v \in Entered \cap Valid, flag \in BOOLEAN,
        expected \in {{}} \cup {{e} : e \in Entered} :
       /\ ConditionHolds(k, expected)
       /\ Write(k, [threshold |-> v, enabled |-> flag,
                    author |-> Nobody, confirm |-> 0, basis |-> 0])
  /\ UNCHANGED <<screenVars, updates, confirms>>

-----------------------------------------------------------------------------
(* The screen.                                                             *)

Busy(t) == \E u \in updates : u.tab = t /\ u.heard

Unanswered(t) == {u \in updates : u.tab = t /\ u.answer = "none"}

\* Mounting the screen loads the list.
Open(t) ==
  /\ t \notin open
  /\ open'  = open \cup {t}
  /\ asked' = [asked EXCEPT ![t] = 1]
  /\ UNCHANGED <<history, answers, list, dialog, updates, confirms>>

\* list_policies reads the table.
ReadList(t) ==
  /\ asked[t] > 0
  /\ asked'   = [asked EXCEPT ![t] = @ - 1]
  /\ \E at \in Scans : answers' = [answers EXCEPT ![t] = @ \cup {Listed(at)}]
  /\ UNCHANGED <<history, open, list, dialog, updates, confirms>>

\* A scan that fails is answered with an empty list, a request that fails
\* leaves the list as it is.
FailList(t) ==
  /\ asked[t] > 0
  /\ asked' = [asked EXCEPT ![t] = @ - 1]
  /\ answers' \in {answers, [answers EXCEPT ![t] = @ \cup {NoRows}]}
  /\ UNCHANGED <<history, open, list, dialog, updates, confirms>>

\* setPolicies, in the order the answers arrive; two equal answers count as
\* one.
ShowList(t) ==
  /\ \E rows \in answers[t] :
       /\ list'    = [list EXCEPT ![t] = rows]
       /\ answers' = [answers EXCEPT ![t] = @ \ {rows}]
  /\ UNCHANGED <<history, open, asked, dialog, updates, confirms>>

\* The Edit button copies the row; the dialog covers the table.
Edit(t, k) ==
  /\ dialog[t] = {} /\ k \in DOMAIN list[t]
  /\ dialog' = [dialog EXCEPT ![t] = {[service |-> k, row |-> list[t][k]]}]
  /\ UNCHANGED <<history, open, asked, answers, list, updates, confirms>>

Cancel(t) ==
  /\ dialog[t] # {} /\ ~ Busy(t)
  /\ dialog' = [dialog EXCEPT ![t] = {}]
  /\ UNCHANGED <<history, open, asked, answers, list, updates, confirms>>

\* A threshold is entered and Confirm pressed: the update carries the
\* threshold and the flag of the row the dialog was opened on.
Confirm(t, v) ==
  /\ ~ Busy(t) /\ confirms < MaxConfirms
  /\ \E d \in dialog[t] :
       updates' = updates \cup
         {[confirm |-> confirms + 1, tab |-> t, heard |-> TRUE,
           service |-> d.service, threshold |-> v, shown |-> d.row,
           tries |-> 0, answer |-> "none"]}
  /\ confirms' = confirms + 1
  /\ UNCHANGED <<history, screenVars>>

\* The page is left, reloaded or logged out of: the screen forgets all it
\* has, and nobody listens to its requests.
Leave(t) ==
  /\ t \in open
  /\ open'    = open \ {t}
  /\ asked'   = [asked EXCEPT ![t] = 0]
  /\ answers' = [answers EXCEPT ![t] = {}]
  /\ list'    = [list EXCEPT ![t] = NoRows]
  /\ dialog'  = [dialog EXCEPT ![t] = {}]
  /\ updates' = {u \in updates : u.tab # t}
                  \cup {[u EXCEPT !.heard = FALSE] : u \in Unanswered(t)}
  /\ UNCHANGED <<history, confirms>>

-----------------------------------------------------------------------------
(* PUT /api/policies/{tenant_id}/{service_name}.                           *)

Replace(u, next) == updates' = (updates \ {u}) \cup next

\* The route answers; nobody hears it when the screen is gone.
Answer(u, answer) ==
  Replace(u, IF u.heard THEN {[u EXCEPT !.answer = answer]} ELSE {})

\* Mutant: any positive number passes the check of the range.
InRangeUnbounded(v) == v >= 0

InRange(v) == v \in Valid

Reject(u) ==
  /\ u.answer = "none" /\ ~ InRange(u.threshold)
  /\ Answer(u, "error")
  /\ UNCHANGED <<history, screenVars, confirms>>

\* Mutant: the update carries no condition.
MayApplyUnconditional(u) == u.answer = "none" /\ InRange(u.threshold)

\* An attempt the table accepts.
MayApply(u) ==
  /\ u.answer = "none" /\ InRange(u.threshold)
  /\ ConditionHolds(u.service, {u.shown.threshold})

\* Mutant: the flag falls back to its default.
WrittenEnabled(u) ==
  [threshold |-> u.threshold, enabled |-> TRUE,
   author |-> u.tab, confirm |-> u.confirm, basis |-> u.shown.basis]

Written(u) == [threshold |-> u.threshold, enabled |-> u.shown.enabled,
               author |-> u.tab, confirm |-> u.confirm, basis |-> u.shown.basis]

\* Mutant: a try that was written is not counted.
RepeatUncounted(u) == UNCHANGED updates

\* The client makes another attempt, as long as it has one left.
Repeat(u) ==
  /\ u.tries + 1 < MaxTries
  /\ Replace(u, {[u EXCEPT !.tries = @ + 1]})

\* The row is written; the answer arrives, or is lost and the update is
\* made again or fails.
Apply(u) ==
  /\ MayApply(u)
  /\ Len(history[u.service]) < MaxVersions
  /\ Write(u.service, Written(u))
  /\ Answer(u, "ok") \/ Repeat(u) \/ Answer(u, "error")
  /\ UNCHANGED <<screenVars, confirms>>

\* Mutant: the refusal of the condition is passed over.
RefuseIgnored(u) ==
  /\ u.answer = "none" /\ InRange(u.threshold)
  /\ ~ ConditionHolds(u.service, {u.shown.threshold})
  /\ Answer(u, "ok")
  /\ UNCHANGED <<history, screenVars, confirms>>

\* ConditionalCheckFailedException: the route answers 409.
Refuse(u) ==
  /\ u.answer = "none" /\ InRange(u.threshold)
  /\ ~ ConditionHolds(u.service, {u.shown.threshold})
  /\ Answer(u, "conflict")
  /\ UNCHANGED <<history, screenVars, confirms>>

\* Mutant: every ClientError is taken for a conflict.
FailConflicts(u) ==
  /\ u.answer = "none" /\ InRange(u.threshold)
  /\ Answer(u, "conflict")
  /\ UNCHANGED <<history, screenVars, confirms>>

\* An attempt that does not reach the table.
Fail(u) ==
  /\ u.answer = "none" /\ InRange(u.threshold)
  /\ Repeat(u) \/ Answer(u, "error")
  /\ UNCHANGED <<history, screenVars, confirms>>

\* The answer reaches the tab: after an ok the dialog closes and the list is
\* loaded again; after anything else the dialog stays as it is.
Hear(u) ==
  /\ u.answer # "none"
  /\ Replace(u, {})
  /\ IF u.answer = "ok"
     THEN /\ asked[u.tab] < MaxLoads
          /\ dialog' = [dialog EXCEPT ![u.tab] = {}]
          /\ asked'  = [asked EXCEPT ![u.tab] = @ + 1]
     ELSE UNCHANGED <<dialog, asked>>
  /\ UNCHANGED <<history, open, answers, list, confirms>>

-----------------------------------------------------------------------------

Screen(t) ==
  \/ Open(t) \/ ReadList(t) \/ FailList(t) \/ ShowList(t)
  \/ \E k \in Services : Edit(t, k)
  \/ Cancel(t)
  \/ \E v \in Entered : Confirm(t, v)
  \/ Leave(t)

Serve(u) == Reject(u) \/ Apply(u) \/ Refuse(u) \/ Fail(u) \/ Hear(u)

Next ==
  \/ \E k \in Services : CallerPuts(k)
  \/ \E t \in Tabs : Screen(t)
  \/ \E u \in updates : Serve(u)

Spec == Init /\ [][Next]_vars

-----------------------------------------------------------------------------
(* Properties.                                                             *)

\* Versions of a row that an edit of a screen wrote.
Edits(k) == {n \in 1..Len(history[k]) : history[k][n].author \in Tabs}

\* No lost update: however late, stale or often repeated, an edit replaces
\* the very threshold its author was shown ("Change from X% to Y%?") by
\* nothing but what she entered, and writes the flag she was shown.
EditsReplaceWhatWasShown ==
  \A k \in Services : \A n \in Edits(k) :
    LET basis == history[k][n].basis IN
    /\ basis \in 1..(n - 1)
    /\ history[k][n - 1].threshold = history[k][basis].threshold
    /\ history[k][n].enabled = history[k][basis].enabled

\* The condition compares the threshold alone, so an edit may undo a change
\* of the flag, but only one made after the version its list returned: when
\* nobody else touches the flag, editing thresholds never moves it.
FlagUndoneOnlyIfFlipped ==
  \A k \in Services : \A n \in Edits(k) :
    LET basis == history[k][n].basis IN
    history[k][n].enabled # history[k][n - 1].enabled =>
      \E m \in (basis + 1)..(n - 1) :
        history[k][m].enabled # history[k][m - 1].enabled

\* A 409 is never answered out of the blue: the threshold has changed since
\* the version the dialog shows.  (Not always by another session, as the
\* screen says: the change may be the same update, repeated by the AWS
\* client, or an earlier edit of the same tab that its list, read after it,
\* does not show yet.)
ConflictMeansChanged ==
  \A u \in updates : u.answer = "conflict" =>
    \E n \in (u.shown.basis + 1)..Len(history[u.service]) :
      history[u.service][n].threshold # u.shown.threshold

\* What is answered ok is in the history of the row, after the version the
\* author was shown and with what she entered.
OkMeansWritten ==
  \A u \in updates : u.answer = "ok" =>
    \E n \in (u.shown.basis + 1)..Len(history[u.service]) :
      history[u.service][n] = Written(u)

\* An update repeated after a lost answer is written again only if someone
\* has restored the threshold it replaces, or it replaces nothing; and never
\* more often than the client tries.
RepeatsBounded ==
  \A k \in Services : \A n \in Edits(k) :
    LET same == {m \in Edits(k) : history[k][m].confirm = history[k][n].confirm} IN
    /\ Cardinality(same) <= MaxTries
    /\ n + 1 \in same =>
         history[k][n].threshold = history[k][history[k][n].basis].threshold

\* The dashboard updates policies and never creates one: a row exists for
\* the configured services alone, whatever callers ask for.
OnlyConfiguredRows ==
  \A k \in Services : Exists(k) <=> k \in Configured

=============================================================================
