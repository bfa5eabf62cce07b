------------------------------- MODULE RowLocks -------------------------------
(***************************************************************************)
(* The locks of submit, decide, update and addBankVersion: the order in    *)
(* which the statements of each reach the tables, and who waits for whom.  *)
(* The data is left out: which rows a statement finds is arbitrary, and a  *)
(* transaction may end, committed or not, after any step.                  *)
(*                                                                         *)
(* PostgreSQL locks the rows of an UPDATE one by one, in an order of its   *)
(* choice, and keeps them to the end, those included that turn out not to  *)
(* match any more once the lock is had.  An INSERT holds its entry of a    *)
(* unique index in the same way: another INSERT of that entry waits for    *)
(* the transaction to end.  Left out are the locks of foreign keys, since  *)
(* no handler changes a key they would conflict with, what update does to  *)
(* the lines of an invoice it has locked, and the queue in front of a row: *)
(* whom a transaction waits for is who has the row.                        *)
(***************************************************************************)
EXTENDS Naturals, Sequences

CONSTANTS Transactions,
          Entries,             \* entries of each unique index
          RequestRows, InvoiceRows

Kinds == {"submit", "decide", "update", "addBankVersion"}

(* The unique indexes that the handlers insert into, and the two tables    *)
(* they update: the policy of an organization, the assessment of a version *)
(* of an invoice, a request's number and its key, a member's decision on a *)
(* request and its key, and a vendor's next bank account.                  *)
Indexes == {"policy", "assessment", "number", "key", "decision", "decisionKey", "account"}
Tables == Indexes \cup {"request", "invoice"}

RowsOf(table) ==
  {table} \X CASE table = "request" -> RequestRows
               [] table = "invoice" -> InvoiceRows
               [] OTHER -> Entries

Rows == UNION {RowsOf(table) : table \in Tables}

(* Variant: update writes the invoice before it invalidates the requests.  *)
InvoiceFirst ==
  [submit         |-> <<"policy", "assessment", "number", "key", "invoice">>,
   decide         |-> <<"policy", "decision", "decisionKey", "request", "invoice">>,
   update         |-> <<"invoice", "request">>,
   addBankVersion |-> <<"account", "request", "invoice">>]

(* What each handler writes, in the order of its statements.               *)
Statements ==
  [submit         |-> <<"policy", "assessment", "number", "key", "invoice">>,
   decide         |-> <<"policy", "decision", "decisionKey", "request", "invoice">>,
   update         |-> <<"request", "invoice">>,
   addBankVersion |-> <<"account", "request", "invoice">>]

(* The statements that may find several rows: the requests of an invoice,  *)
(* and the requests and the invoices of a vendor.                          *)
FindsMany(k, table) == \/ k = "update" /\ table = "request"
                       \/ k = "addBankVersion" /\ table \in {"request", "invoice"}

Found(k, table) == IF FindsMany(k, table) THEN SUBSET RowsOf(table)
                   ELSE {{r} : r \in RowsOf(table)}

(* An UPDATE may find nothing, or be skipped; the policy mostly exists;    *)
(* and decide records no decision on a request it finds stale.             *)
MayFindNone(table) == table \in {"policy", "decision", "decisionKey", "request", "invoice"}

VARIABLES kind,      \* the handler each transaction runs, or "idle"
          at,        \* how many statements it has begun
          wanted,    \* rows its statement has found and not locked yet
          held       \* rows it has locked
locks == <<kind, at, wanted, held>>

LockInit == /\ kind = [t \in Transactions |-> "idle"]
            /\ at = [t \in Transactions |-> 0]
            /\ wanted = [t \in Transactions |-> {}]
            /\ held = [t \in Transactions |-> {}]

Begin(t, k) == /\ kind[t] = "idle"
               /\ kind' = [kind EXCEPT ![t] = k]
               /\ UNCHANGED <<at, wanted, held>>

(* The next statement finds its rows.                                      *)
Statement(t) ==
  /\ kind[t] # "idle"
  /\ wanted[t] = {}
  /\ at[t] < Len(Statements[kind[t]])
  /\ at' = [at EXCEPT ![t] = @ + 1]
  /\ LET table == Statements[kind[t]][at[t] + 1] IN
       \E S \in Found(kind[t], table) \cup (IF MayFindNone(table) THEN {{}} ELSE {}) :
         wanted' = [wanted EXCEPT ![t] = S]
  /\ UNCHANGED <<kind, held>>

Lock(t, r) ==
  /\ r \in wanted[t]
  /\ \A u \in Transactions : r \notin held[u]
  /\ wanted' = [wanted EXCEPT ![t] = @ \ {r}]
  /\ held' = [held EXCEPT ![t] = @ \cup {r}]
  /\ UNCHANGED <<kind, at>>

(* COMMIT, or ROLLBACK after an error, a timeout, a lost connection or as  *)
(* the victim of the deadlock detection.                                   *)
End(t) ==
  /\ kind[t] # "idle"
  /\ kind' = [kind EXCEPT ![t] = "idle"]
  /\ at' = [at EXCEPT ![t] = 0]
  /\ wanted' = [wanted EXCEPT ![t] = {}]
  /\ held' = [held EXCEPT ![t] = {}]

LockNext == \E t \in Transactions :
  \/ \E k \in Kinds : Begin(t, k)
  \/ Statement(t)
  \/ \E r \in Rows : Lock(t, r)
  \/ End(t)

LockSpec == LockInit /\ [][LockNext]_locks

LockTypeOK ==
  /\ kind \in [Transactions -> Kinds \cup {"idle"}]
  /\ at \in [Transactions -> 0..5]
  /\ wanted \in [Transactions -> SUBSET Rows]
  /\ held \in [Transactions -> SUBSET Rows]

-----------------------------------------------------------------------------
(* Properties                                                              *)

WaitsFor(t, u) == wanted[t] \cap held[u] # {}

(* t waits, over others, for itself: it is in every set that holds those   *)
(* it waits for, and with each transaction those that one waits for.       *)
OnCircle(t) ==
  \A S \in SUBSET Transactions :
    /\ \A u \in Transactions : WaitsFor(t, u) => u \in S
    /\ \A u \in S, w \in Transactions : WaitsFor(u, w) => w \in S
    => t \in S

(* The table that the running statement of t is about.                     *)
CurrentTable(t) == Statements[kind[t]][at[t]]

(* Deadlocks come from statements that lock several rows alone: whoever is *)
(* part of a circle has locked a row of the table where it waits for       *)
(* another, in a sweep of addBankVersion or over the requests of an edited *)
(* invoice.  The locks of a submission or a decision never close a circle, *)
(* however many sweeps and edits run against it.                           *)
OnlySweepsDeadlock ==
  \A t \in Transactions : OnCircle(t) =>
    /\ kind[t] \in {"update", "addBankVersion"}
    /\ held[t] \cap RowsOf(CurrentTable(t)) # {}
=============================================================================
