------------------------------ MODULE SyncPass ------------------------------
(***************************************************************************)
(* The full sync pass, transactions.Service.SyncTransactions, up to the    *)
(* stages that read only the store: SyncAccounts, ConnectionsToSync and,   *)
(* for each connection, the pull from the stored cursor and the one        *)
(* database transaction that applies it.  The pass runs from the six-hour  *)
(* cron, from POST /transactions/sync and after a connect or reconnect,    *)
(* each on a goroutine of its own and with no lock between them: Passes is *)
(* the set of goroutines that may be in a pass at once.  Beside them run   *)
(* the bank, a user who links and disconnects banks, and process crashes.  *)
(*                                                                         *)
(* A statement outside db.WithTx, a WithTx callback and a provider call    *)
(* are one step each.                                                      *)
(***************************************************************************)
EXTENDS BankFeed, FiniteSets

CONSTANTS
  NoConn,         \* no connection is being visited
  Passes,         \* goroutines that may run a pass
  Flaky,          \* connections whose steps may fail in any pass
  Undecryptable,  \* connections whose stored token cannot be decrypted
  MaxInterruptions \* bound on crashes and abandoned requests

ASSUME SyncAssumption ==
  /\ NoConn \notin Conns
  /\ Flaky \subseteq Conns
  /\ Undecryptable \subseteq Conns
  /\ MaxInterruptions \in Nat

VARIABLES
  open,       \* accounts the bank lists
  history,    \* history[c]: the bank's changes for login c
  severed,    \* logins removed at the provider
  status,     \* status[c]: the connection row: "unlinked", "linked" or "gone"
  known,      \* stored account rows
  rows,       \* rows[t]: the stored version of transaction t, 0 when not stored
  cursor,     \* cursor[c]: the stored resume cursor, 0 when none
  deleting,   \* connections with a Disconnect request past RemoveItem
  skipped,    \* transactions whose latest applied change had no account row
  interruptions, \* crashes and abandoned requests so far
  pc,         \* pc[p]: the stage pass p is in
  todo,       \* todo[p]: connections the stage still has to visit
  targets,    \* targets[p]: what ConnectionsToSync has returned so far
  attribution,\* attribution[p]: the accounts in its targets' id maps
  current,    \* current[p]: the connection being visited, or NoConn
  seen,       \* seen[p]: the accounts the provider listed for it
  from,       \* from[p]: the cursor read for it
  upto        \* upto[p]: the position its pull reached

bankVars == <<open, history, severed>>
storeVars == <<status, known, rows, cursor, skipped>>
passVars == <<pc, todo, targets, attribution, current, seen, from, upto>>
vars == <<bankVars, storeVars, deleting, interruptions, passVars>>

Stages == {"idle", "accounts", "accountsWrite", "enumerate",
           "pulls", "pull", "apply"}

TypeOK ==
  /\ open \subseteq Accts
  /\ history \in [Conns -> Seq(Snapshot)]
  /\ \A c \in Conns : Len(history[c]) <= MaxEvents
  /\ severed \subseteq Conns
  /\ status \in [Conns -> {"unlinked", "linked", "gone"}]
  /\ known \subseteq Accts
  /\ rows \in [Txns -> 0..MaxEvents]
  /\ cursor \in [Conns -> Nat]
  /\ \A c \in Conns : cursor[c] <= Len(history[c])
  /\ deleting \subseteq Conns
  /\ skipped \subseteq Txns
  /\ interruptions \in 0..MaxInterruptions
  /\ pc \in [Passes -> Stages]
  /\ todo \in [Passes -> SUBSET Conns]
  /\ targets \in [Passes -> SUBSET Conns]
  /\ attribution \in [Passes -> SUBSET Accts]
  /\ current \in [Passes -> Conns \cup {NoConn}]
  /\ seen \in [Passes -> SUBSET Accts]
  /\ from \in [Passes -> Nat]
  /\ upto \in [Passes -> Nat]

Init ==
  /\ open \in SUBSET Accts
  /\ history = [c \in Conns |-> <<>>]
  /\ severed = {}
  /\ status = [c \in Conns |-> "unlinked"]
  /\ known = {}
  /\ rows = Nothing
  /\ cursor = [c \in Conns |-> 0]
  /\ deleting = {}
  /\ skipped = {}
  /\ interruptions = 0
  /\ pc = [p \in Passes |-> "idle"]
  /\ todo = [p \in Passes |-> {}]
  /\ targets = [p \in Passes |-> {}]
  /\ attribution = [p \in Passes |-> {}]
  /\ current = [p \in Passes |-> NoConn]
  /\ seen = [p \in Passes |-> {}]
  /\ from = [p \in Passes |-> 0]
  /\ upto = [p \in Passes |-> 0]

Linked == {c \in Conns : status[c] = "linked"}

-----------------------------------------------------------------------------
(* The bank. *)

OpenAccount(a) ==
  /\ a \notin open
  /\ open' = open \cup {a}
  /\ UNCHANGED <<history, severed, storeVars, deleting, interruptions, passVars>>

\* A transaction is posted, or one already posted is modified (pending to posted,
\* a corrected amount or date).
BankPosts(t) ==
  LET c == ConnOf[AcctOf[t]] IN
  /\ AcctOf[t] \in open
  /\ c \notin severed
  /\ Len(history[c]) < MaxEvents
  /\ ~Retired(history[c], t)
  /\ history' = [history EXCEPT ![c] = Posted(@, t)]
  /\ UNCHANGED <<open, severed, storeVars, deleting, interruptions, passVars>>

BankRemoves(t) ==
  LET c == ConnOf[AcctOf[t]] IN
  /\ c \notin severed
  /\ Len(history[c]) < MaxEvents
  /\ At(history[c], Len(history[c]))[t] # 0
  /\ history' = [history EXCEPT ![c] = Removed(@, t)]
  /\ UNCHANGED <<open, severed, storeVars, deleting, interruptions, passVars>>

-----------------------------------------------------------------------------
(* Linking and disconnecting a bank. *)

\* RegisterConnection: the login's accounts are listed and stored with the new
\* connection row in one transaction.  Nothing can name the connection before
\* that transaction commits, so listing and storing are one step.
RegisterConnection(c) ==
  /\ status[c] = "unlinked"
  /\ status' = [status EXCEPT ![c] = "linked"]
  /\ known' = known \cup (open \cap AcctsOf(c))
  /\ UNCHANGED <<bankVars, rows, cursor, skipped, deleting, interruptions, passVars>>

\* Disconnect, first half: the token is decrypted and the login is severed at the
\* provider.  A login already severed makes RemoveItem fail and the request end.
DisconnectAtProvider(c) ==
  /\ c \in Linked \ (severed \cup Undecryptable)
  /\ severed' = severed \cup {c}
  /\ deleting' = deleting \cup {c}
  /\ UNCHANGED <<open, history, storeVars, interruptions, passVars>>

\* Disconnect, second half: one transaction deletes the accounts and the
\* connection.  Transaction rows and the sync cursor are left behind.
DisconnectInStore(c) ==
  /\ c \in deleting
  /\ status' = [status EXCEPT ![c] = "gone"]
  /\ known' = known \ AcctsOf(c)
  /\ deleting' = deleting \ {c}
  /\ UNCHANGED <<bankVars, rows, cursor, skipped, interruptions, passVars>>

-----------------------------------------------------------------------------
(* One pass. *)

\* A visit to one connection ends: its local values go out of scope.
EndVisit(p) ==
  /\ current' = [current EXCEPT ![p] = NoConn]
  /\ seen' = [seen EXCEPT ![p] = {}]
  /\ from' = [from EXCEPT ![p] = 0]
  /\ upto' = [upto EXCEPT ![p] = 0]

\* The pass returns.
EndPass(p) ==
  /\ pc' = [pc EXCEPT ![p] = "idle"]
  /\ todo' = [todo EXCEPT ![p] = {}]
  /\ targets' = [targets EXCEPT ![p] = {}]
  /\ attribution' = [attribution EXCEPT ![p] = {}]
  /\ EndVisit(p)

\* SyncTransactions begins with SyncAccounts, which lists the connections once.
StartPass(p) ==
  /\ pc[p] = "idle"
  /\ pc' = [pc EXCEPT ![p] = "accounts"]
  /\ todo' = [todo EXCEPT ![p] = Linked]
  /\ UNCHANGED <<bankVars, storeVars, deleting, interruptions,
                 targets, attribution, current, seen, from, upto>>

\* A connection can serve a call: its row and token load, and the provider still
\* knows the login.
Reachable(c) == c \in Linked \ (severed \cup Undecryptable)

\* syncConnection of accounts: the provider lists the login's accounts.
FetchAccounts(p, c) ==
  /\ pc[p] = "accounts"
  /\ c \in todo[p]
  /\ Reachable(c)
  /\ pc' = [pc EXCEPT ![p] = "accountsWrite"]
  /\ current' = [current EXCEPT ![p] = c]
  /\ seen' = [seen EXCEPT ![p] = open \cap AcctsOf(c)]
  /\ UNCHANGED <<bankVars, storeVars, deleting, interruptions,
                 todo, targets, attribution, from, upto>>

\* refreshConnectionAccounts: one transaction updates the known accounts and
\* creates the new ones.  It never looks at whether the connection is still there.
WriteAccounts(p) ==
  /\ pc[p] = "accountsWrite"
  /\ known' = known \cup seen[p]
  /\ pc' = [pc EXCEPT ![p] = "accounts"]
  /\ todo' = [todo EXCEPT ![p] = @ \ {current[p]}]
  /\ EndVisit(p)
  /\ UNCHANGED <<bankVars, status, rows, cursor, skipped, deleting, interruptions,
                 targets, attribution>>

\* ConnectionsToSync lists the connections again.
StartEnumerate(p) ==
  /\ pc[p] = "accounts"
  /\ todo[p] = {}
  /\ pc' = [pc EXCEPT ![p] = "enumerate"]
  /\ todo' = [todo EXCEPT ![p] = Linked]
  /\ UNCHANGED <<bankVars, storeVars, deleting, interruptions,
                 targets, attribution, current, seen, from, upto>>

\* It loads each one's token and its provider-to-internal account id map.
EnumerateConnection(p, c) ==
  /\ pc[p] = "enumerate"
  /\ c \in todo[p]
  /\ c \in Linked \ Undecryptable
  /\ todo' = [todo EXCEPT ![p] = @ \ {c}]
  /\ targets' = [targets EXCEPT ![p] = @ \cup {c}]
  /\ attribution' = [attribution EXCEPT ![p] = @ \cup (known \cap AcctsOf(c))]
  /\ UNCHANGED <<bankVars, storeVars, deleting, interruptions,
                 pc, current, seen, from, upto>>

\* A connection row that is gone, or a token that does not decrypt, ends the pass.
EnumerateFails(p, c) ==
  /\ pc[p] = "enumerate"
  /\ c \in todo[p]
  /\ c \notin Linked \ Undecryptable
  /\ EndPass(p)
  /\ UNCHANGED <<bankVars, storeVars, deleting, interruptions>>

StartPulls(p) ==
  /\ pc[p] = "enumerate"
  /\ todo[p] = {}
  /\ pc' = [pc EXCEPT ![p] = "pulls"]
  /\ todo' = [todo EXCEPT ![p] = targets[p]]
  /\ UNCHANGED <<bankVars, storeVars, deleting, interruptions,
                 targets, attribution, current, seen, from, upto>>

\* syncConnection of transactions reads the stored cursor ...
ReadCursor(p, c) ==
  /\ pc[p] = "pulls"
  /\ c \in todo[p]
  /\ pc' = [pc EXCEPT ![p] = "pull"]
  /\ current' = [current EXCEPT ![p] = c]
  /\ from' = [from EXCEPT ![p] = cursor[c]]
  /\ UNCHANGED <<bankVars, storeVars, deleting, interruptions,
                 todo, targets, attribution, seen, upto>>

\* ... pulls from it (the page limit may stop the pull short of the end, never
\* before the first page) ...
Pull(p) ==
  LET c == current[p] IN
  /\ pc[p] = "pull"
  /\ c \notin severed
  /\ \E n \in from[p]..Len(history[c]) :
       /\ n = from[p] => n = Len(history[c])
       /\ upto' = [upto EXCEPT ![p] = n]
  /\ pc' = [pc EXCEPT ![p] = "apply"]
  /\ UNCHANGED <<bankVars, storeVars, deleting, interruptions,
                 todo, targets, attribution, current, seen, from>>

\* applyChanges: an upsert whose account is not in the id map is dropped; a removed
\* id is deleted whatever its account.
Dropped(p) ==
  {t \in Delta(history[current[p]], from[p], upto[p]) :
     At(history[current[p]], upto[p])[t] # 0 /\ AcctOf[t] \notin attribution[p]}

\* Mutant: removed ids are not deleted.
AppliedWithoutRemovals(p) ==
  LET h == history[current[p]]
      changed == {t \in Delta(h, from[p], upto[p]) \ Dropped(p) :
                    At(h, upto[p])[t] # 0}
  IN [t \in Txns |-> IF t \in changed THEN At(h, upto[p])[t] ELSE rows[t]]

Applied(p) ==
  LET h == history[current[p]]
      changed == Delta(h, from[p], upto[p]) \ Dropped(p)
  IN [t \in Txns |-> IF t \in changed THEN At(h, upto[p])[t] ELSE rows[t]]

\* Mutant: the stored cursor is one past the position the pull reached.
ApplyPullPastEnd(p) ==
  LET c == current[p] IN
  /\ pc[p] = "apply"
  /\ rows' = Applied(p)
  /\ cursor' = [cursor EXCEPT ![c] = upto[p] + 1]
  /\ skipped' = (skipped \ Delta(history[c], from[p], upto[p])) \cup Dropped(p)
  /\ pc' = [pc EXCEPT ![p] = "pulls"]
  /\ todo' = [todo EXCEPT ![p] = @ \ {c}]
  /\ EndVisit(p)
  /\ UNCHANGED <<bankVars, status, known, deleting, interruptions,
                 targets, attribution>>

\* ... and applies the changes and stores the new cursor in one transaction.
ApplyPull(p) ==
  LET c == current[p] IN
  /\ pc[p] = "apply"
  /\ rows' = Applied(p)
  /\ cursor' = [cursor EXCEPT ![c] = upto[p]]
  /\ skipped' = (skipped \ Delta(history[c], from[p], upto[p])) \cup Dropped(p)
  /\ pc' = [pc EXCEPT ![p] = "pulls"]
  /\ todo' = [todo EXCEPT ![p] = @ \ {c}]
  /\ EndVisit(p)
  /\ UNCHANGED <<bankVars, status, known, deleting, interruptions,
                 targets, attribution>>

\* Mutant: the first connection that fails ends the pass.
AccountsStepFailsFast(p, c) ==
  /\ pc[p] = "accounts" /\ c \in todo[p] /\ (c \in Flaky \/ ~Reachable(c))
  /\ EndPass(p)
  /\ UNCHANGED <<bankVars, storeVars, deleting, interruptions>>

\* Mutant: the cursor is stored before the changes, outside their transaction.
PullStepFailsAfterCursor(p) ==
  LET c == current[p] IN
  /\ pc[p] = "apply" /\ c \in Flaky
  /\ cursor' = [cursor EXCEPT ![c] = upto[p]]
  /\ pc' = [pc EXCEPT ![p] = "pulls"]
  /\ todo' = [todo EXCEPT ![p] = @ \ {c}]
  /\ EndVisit(p)
  /\ UNCHANGED <<bankVars, status, known, rows, skipped, deleting, interruptions,
                 targets, attribution>>

\* A connection's step fails: the error is collected, or swallowed when the login
\* needs re-authentication, nothing is written, and the stage moves on to the next
\* connection.  A flaky connection fails at any step, a login the pass can no
\* longer reach only when it is asked for something.
AccountsStepFails(p, c) ==
  /\ \/ pc[p] = "accounts" /\ c \in todo[p] /\ (c \in Flaky \/ ~Reachable(c))
     \/ pc[p] = "accountsWrite" /\ c = current[p] /\ c \in Flaky
  /\ pc' = [pc EXCEPT ![p] = "accounts"]
  /\ todo' = [todo EXCEPT ![p] = @ \ {c}]
  /\ EndVisit(p)
  /\ UNCHANGED <<bankVars, storeVars, deleting, interruptions, targets, attribution>>

PullStepFails(p) ==
  LET c == current[p] IN
  /\ \/ pc[p] = "pull" /\ c \in Flaky \cup severed
     \/ pc[p] = "apply" /\ c \in Flaky
  /\ pc' = [pc EXCEPT ![p] = "pulls"]
  /\ todo' = [todo EXCEPT ![p] = @ \ {c}]
  /\ EndVisit(p)
  /\ UNCHANGED <<bankVars, storeVars, deleting, interruptions, targets, attribution>>

\* Every target has been visited: the store-only stages follow and the pass ends.
FinishPass(p) ==
  /\ pc[p] = "pulls"
  /\ todo[p] = {}
  /\ EndPass(p)
  /\ UNCHANGED <<bankVars, storeVars, deleting, interruptions>>

\* The request's context is cancelled, or a read of the store fails: every later
\* statement of the pass fails too and it ends where it is.
AbandonPass(p) ==
  /\ pc[p] # "idle"
  /\ interruptions < MaxInterruptions
  /\ interruptions' = interruptions + 1
  /\ EndPass(p)
  /\ UNCHANGED <<bankVars, storeVars, deleting>>

\* The transaction of a Disconnect fails after the login was severed.
AbandonDisconnect(c) ==
  /\ c \in deleting
  /\ interruptions < MaxInterruptions
  /\ interruptions' = interruptions + 1
  /\ deleting' = deleting \ {c}
  /\ UNCHANGED <<bankVars, storeVars, passVars>>

\* The process dies and restarts: every goroutine is gone, the database stays.
Crash ==
  /\ interruptions < MaxInterruptions
  /\ interruptions' = interruptions + 1
  /\ pc' = [p \in Passes |-> "idle"]
  /\ todo' = [p \in Passes |-> {}]
  /\ targets' = [p \in Passes |-> {}]
  /\ attribution' = [p \in Passes |-> {}]
  /\ current' = [p \in Passes |-> NoConn]
  /\ seen' = [p \in Passes |-> {}]
  /\ from' = [p \in Passes |-> 0]
  /\ upto' = [p \in Passes |-> 0]
  /\ deleting' = {}
  /\ UNCHANGED <<bankVars, storeVars>>

-----------------------------------------------------------------------------

PassStep(p) ==
  \/ StartPass(p)
  \/ WriteAccounts(p)
  \/ StartEnumerate(p)
  \/ StartPulls(p)
  \/ Pull(p)
  \/ ApplyPull(p)
  \/ PullStepFails(p)
  \/ FinishPass(p)
  \/ \E c \in Conns :
       \/ FetchAccounts(p, c)
       \/ AccountsStepFails(p, c)
       \/ EnumerateConnection(p, c)
       \/ EnumerateFails(p, c)
       \/ ReadCursor(p, c)

Bank ==
  \/ \E a \in Accts : OpenAccount(a)
  \/ \E t \in Txns : BankPosts(t) \/ BankRemoves(t)

User ==
  \E c \in Conns :
    RegisterConnection(c) \/ DisconnectAtProvider(c) \/ DisconnectInStore(c)

Interruption ==
  \/ Crash
  \/ \E p \in Passes : AbandonPass(p)
  \/ \E c \in Conns : AbandonDisconnect(c)

Next == Bank \/ User \/ Interruption \/ \E p \in Passes : PassStep(p)

Spec == Init /\ [][Next]_vars

\* The cron starts a pass every six hours and a running pass is never abandoned:
\* each goroutine keeps taking steps.  Bank, user and crashes owe nothing.
Fairness == \A p \in Passes : WF_vars(PassStep(p))

FairSpec == Spec /\ Fairness
-----------------------------------------------------------------------------
(* Properties. *)

\* The bank's latest word on t is not stored, and the next pull of its login will
\* not report it again: it is behind the cursor and lost for good.
LostBehindCursor(t) ==
  LET c == ConnOf[AcctOf[t]]
      now == Len(history[c])
  IN /\ c \in Linked
     /\ t \notin Delta(history[c], cursor[c], now)
     /\ rows[t] # At(history[c], now)[t]

\* The comment on syncConnection: "a partial apply never leaves the cursor ahead of
\* the data".
CursorNeverAheadOfData == \A t \in Txns : ~LostBehindCursor(t)

\* With one pass at a time the store is exactly the bank's login at the stored
\* cursor, whatever fails and whenever the process dies, except for the changes
\* applyChanges dropped for want of an account row.
LostOnlyIfSkipped ==
  \A c \in Conns : \A t \in TxnsOf(c) \ skipped :
    rows[t] = At(history[c], cursor[c])[t]

\* A login that works is brought up to date and stays so, whatever the other logins
\* do: "one broken connection can never deprive the healthy ones of their pull"
\* (SyncTransactions).
HealthyLoginCatchesUp ==
  \A c \in Conns \ (Flaky \cup Undecryptable) :
    <>[](c \in Linked \ severed => cursor[c] = Len(history[c]))

\* With one pass at a time the pass implements the mirror: the cursor is the
\* mirror's position, and no failure, crash or disconnect ever leaves a change
\* applied in part or moves a login backwards.
Mirror == INSTANCE BankMirror WITH position <- cursor
ImplementsMirror == Mirror!Spec
=============================================================================
