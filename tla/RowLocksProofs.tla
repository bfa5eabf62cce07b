---------------------------- MODULE RowLocksProofs ----------------------------
(* Theorems about RowLocks, for any number of transactions and rows.       *)
EXTENDS RowLocks, TLAPS

(* The order in which all handlers reach the tables.                       *)
Rank == [table \in Tables |->
  CASE table = "policy" -> 1 [] table = "assessment" -> 2 [] table = "number" -> 3
    [] table = "key" -> 4 [] table = "decision" -> 2 [] table = "decisionKey" -> 3
    [] table = "account" -> 2
    [] table = "request" -> 5 [] table = "invoice" -> 6]

(* Every handler's statements follow that order.                           *)
LEMMA StatementsInOrder ==
  ASSUME NEW k \in Kinds
  PROVE  /\ Len(Statements[k]) \in 1..5
         /\ \A n \in 1..Len(Statements[k]) :
              /\ Statements[k][n] \in Tables
              /\ \A m \in 1..n : m # n =>
                   Rank[Statements[k][m]] < Rank[Statements[k][n]]
<1>1. /\ Rank["policy"] = 1 /\ Rank["assessment"] = 2 /\ Rank["number"] = 3
      /\ Rank["key"] = 4 /\ Rank["decision"] = 2 /\ Rank["decisionKey"] = 3
      /\ Rank["account"] = 2
      /\ Rank["request"] = 5 /\ Rank["invoice"] = 6
  BY DEF Rank, Tables, Indexes
<1>2. CASE k = "submit"
  <2> DEFINE s == <<"policy", "assessment", "number", "key", "invoice">>
  <2>1. Statements[k] = s
    BY <1>2 DEF Statements
  <2>2. /\ Len(s) = 5 /\ s[1] = "policy" /\ s[2] = "assessment" /\ s[3] = "number"
        /\ s[4] = "key" /\ s[5] = "invoice"
    OBVIOUS
  <2> HIDE DEF s
  <2>3. ASSUME NEW n \in 1..5
        PROVE  /\ s[n] \in Tables
               /\ \A m \in 1..n : m # n => Rank[s[m]] < Rank[s[n]]
    <3>1. n = 1 \/ n = 2 \/ n = 3 \/ n = 4 \/ n = 5
      OBVIOUS
    <3>2. QED
      BY <1>1, <2>2, <3>1 DEF Tables, Indexes
  <2>4. QED
    BY <2>1, <2>2, <2>3
<1>3. CASE k = "decide"
  <2> DEFINE s == <<"policy", "decision", "decisionKey", "request", "invoice">>
  <2>1. Statements[k] = s
    BY <1>3 DEF Statements
  <2>2. /\ Len(s) = 5 /\ s[1] = "policy" /\ s[2] = "decision" /\ s[3] = "decisionKey"
        /\ s[4] = "request" /\ s[5] = "invoice"
    OBVIOUS
  <2> HIDE DEF s
  <2>3. ASSUME NEW n \in 1..5
        PROVE  /\ s[n] \in Tables
               /\ \A m \in 1..n : m # n => Rank[s[m]] < Rank[s[n]]
    <3>1. n = 1 \/ n = 2 \/ n = 3 \/ n = 4 \/ n = 5
      OBVIOUS
    <3>2. QED
      BY <1>1, <2>2, <3>1 DEF Tables, Indexes
  <2>4. QED
    BY <2>1, <2>2, <2>3
<1>4. CASE k = "update"
  <2> DEFINE s == <<"request", "invoice">>
  <2>1. Statements[k] = s
    BY <1>4 DEF Statements
  <2>2. Len(s) = 2 /\ s[1] = "request" /\ s[2] = "invoice"
    OBVIOUS
  <2> HIDE DEF s
  <2>3. ASSUME NEW n \in 1..2
        PROVE  /\ s[n] \in Tables
               /\ \A m \in 1..n : m # n => Rank[s[m]] < Rank[s[n]]
    <3>1. n = 1 \/ n = 2
      OBVIOUS
    <3>2. QED
      BY <1>1, <2>2, <3>1 DEF Tables, Indexes
  <2>4. QED
    BY <2>1, <2>2, <2>3
<1>5. CASE k = "addBankVersion"
  <2> DEFINE s == <<"account", "request", "invoice">>
  <2>1. Statements[k] = s
    BY <1>5 DEF Statements
  <2>2. Len(s) = 3 /\ s[1] = "account" /\ s[2] = "request" /\ s[3] = "invoice"
    OBVIOUS
  <2> HIDE DEF s
  <2>3. ASSUME NEW n \in 1..3
        PROVE  /\ s[n] \in Tables
               /\ \A m \in 1..n : m # n => Rank[s[m]] < Rank[s[n]]
    <3>1. n = 1 \/ n = 2 \/ n = 3
      OBVIOUS
    <3>2. QED
      BY <1>1, <2>2, <3>1 DEF Tables, Indexes
  <2>4. QED
    BY <2>1, <2>2, <2>3
<1>6. QED
  BY <1>2, <1>3, <1>4, <1>5 DEF Kinds

(* A row names its table.                                                  *)
LEMMA RowTable ==
  ASSUME NEW table, NEW r \in RowsOf(table)
  PROVE  r[1] = table
BY DEF RowsOf

(* What a transaction that runs a handler has locked, and wants: rows of   *)
(* tables it has reached, and of the last of them.                         *)
Reached(t) == {Statements[kind[t]][n] : n \in 1..at[t]}

LocksInOrder(t) ==
  /\ at[t] \in 0..Len(Statements[kind[t]])
  /\ wanted[t] # {} => at[t] # 0
  /\ \A r \in wanted[t] : r \in RowsOf(CurrentTable(t))
  /\ \A r \in held[t] : r[1] \in Reached(t)
  /\ \A r \in wanted[t] : ~FindsMany(kind[t], CurrentTable(t)) =>
       wanted[t] = {r} /\ held[t] \cap RowsOf(CurrentTable(t)) = {}

LockInv ==
  /\ LockTypeOK
  /\ \A t \in Transactions :
       IF kind[t] = "idle" THEN wanted[t] = {} /\ held[t] = {} /\ at[t] = 0
                         ELSE LocksInOrder(t)

(* The tables a transaction has reached rank no higher than the last.      *)
LEMMA ReachedRanks ==
  ASSUME LockInv, NEW t \in Transactions, kind[t] # "idle", at[t] # 0
  PROVE  /\ CurrentTable(t) \in Tables
         /\ CurrentTable(t) \in Reached(t)
         /\ Rank[CurrentTable(t)] \in Nat
         /\ \A table \in Reached(t) :
              /\ table \in Tables
              /\ Rank[table] \in Nat
              /\ Rank[table] <= Rank[CurrentTable(t)]
              /\ Rank[table] = Rank[CurrentTable(t)] => table = CurrentTable(t)
<1> DEFINE s == Statements[kind[t]]
<1>1. kind[t] \in Kinds /\ at[t] \in 1..Len(s) /\ Len(s) \in 1..5
  BY StatementsInOrder DEF LockInv, LockTypeOK, LocksInOrder
<1>2. \A table \in Tables : Rank[table] \in Nat
  BY DEF Rank, Tables, Indexes
<1>3. \A n \in 1..Len(s) : s[n] \in Tables
  BY <1>1, StatementsInOrder
<1>4. ASSUME NEW m \in 1..at[t]
      PROVE  s[m] \in Tables /\ (m = at[t] \/ Rank[s[m]] < Rank[s[at[t]]])
  BY <1>1, <1>3, StatementsInOrder
<1>5. CurrentTable(t) = s[at[t]] /\ at[t] \in 1..at[t]
  BY <1>1 DEF CurrentTable
<1>6. ASSUME NEW table \in Reached(t)
      PROVE  /\ table \in Tables /\ Rank[table] \in Nat
             /\ Rank[table] <= Rank[CurrentTable(t)]
             /\ Rank[table] = Rank[CurrentTable(t)] => table = CurrentTable(t)
  <2>1. PICK m \in 1..at[t] : table = s[m]
    BY DEF Reached
  <2>2. Rank[s[m]] \in Nat /\ Rank[s[at[t]]] \in Nat
    BY <1>1, <1>2, <1>4, <1>5
  <2>3. QED
    BY <1>4, <1>5, <2>1, <2>2
<1>7. QED
  BY <1>2, <1>4, <1>5, <1>6 DEF Reached

LEMMA LockInitInv == LockInit => LockInv
BY DEF LockInit, LockInv, LockTypeOK

LEMMA LockNextInv ==
  ASSUME LockInv, [LockNext]_locks
  PROVE  LockInv'
<1>1. ASSUME NEW t \in Transactions, NEW k \in Kinds, Begin(t, k) PROVE LockInv'
  <2>1. kind[t] = "idle" /\ UNCHANGED <<at, wanted, held>>
    BY <1>1 DEF Begin
  <2>2. kind' = [kind EXCEPT ![t] = k]
    BY <1>1 DEF Begin
  <2>3. LockTypeOK'
    BY <2>1, <2>2 DEF LockInv, LockTypeOK
  <2>4. ASSUME NEW u \in Transactions PROVE
             IF kind'[u] = "idle" THEN wanted'[u] = {} /\ held'[u] = {} /\ at'[u] = 0
                                ELSE LocksInOrder(u)'
    <3>1. CASE u = t
      <4>1. wanted'[t] = {} /\ held'[t] = {} /\ at'[t] = 0 /\ kind'[t] = k
        BY <2>1, <2>2 DEF LockInv, LockTypeOK
      <4>2. Len(Statements[k]) \in 1..5
        BY StatementsInOrder
      <4>3. QED
        BY <3>1, <4>1, <4>2 DEF LocksInOrder
    <3>2. CASE u # t
      <4>1. kind'[u] = kind[u]
        BY <2>2, <3>2 DEF LockInv, LockTypeOK
      <4>2. QED
        BY <2>1, <4>1 DEF LockInv, LocksInOrder, Reached, CurrentTable
    <3>3. QED
      BY <3>1, <3>2
  <2>5. QED
    BY <2>3, <2>4 DEF LockInv
<1>2. ASSUME NEW t \in Transactions, Statement(t) PROVE LockInv'
  <2> DEFINE s == Statements[kind[t]]
  <2>1. /\ kind[t] \in Kinds /\ kind[t] # "idle" /\ wanted[t] = {}
        /\ at[t] < Len(s) /\ LocksInOrder(t)
        /\ at' = [at EXCEPT ![t] = @ + 1] /\ kind' = kind /\ held' = held
    BY <1>2 DEF Statement, LockInv, LockTypeOK
  <2>2. PICK S : /\ S \in Found(kind[t], s[at[t] + 1]) \cup {{}}
                 /\ wanted' = [wanted EXCEPT ![t] = S]
    BY <1>2 DEF Statement
  <2>3. /\ at[t] + 1 \in 1..Len(s) /\ Len(s) \in 1..5 /\ at[t] \in Nat
        /\ s[at[t] + 1] \in Tables
    <3>1. Len(s) \in 1..5 /\ at[t] \in 0..5
      BY <2>1, StatementsInOrder DEF LockInv, LockTypeOK
    <3>2. at[t] + 1 \in 1..Len(s)
      BY <2>1, <3>1
    <3>3. QED
      BY <2>1, <3>1, <3>2, StatementsInOrder
  <2>4. /\ at'[t] = at[t] + 1 /\ wanted'[t] = S
        /\ \A u \in Transactions \ {t} : at'[u] = at[u] /\ wanted'[u] = wanted[u]
    BY <2>1, <2>2 DEF LockInv, LockTypeOK
  <2>5. S \subseteq RowsOf(s[at[t] + 1]) /\ S \subseteq Rows
    BY <2>2, <2>3 DEF Found, Rows
  <2>6. LockTypeOK'
    <3>1. at' \in [Transactions -> 0..5]
      BY <2>1, <2>3 DEF LockInv, LockTypeOK
    <3>2. wanted' \in [Transactions -> SUBSET Rows]
      BY <2>2, <2>5 DEF LockInv, LockTypeOK
    <3>3. QED
      BY <2>1, <3>1, <3>2 DEF LockInv, LockTypeOK
  <2>7. LocksInOrder(t)'
    <3>1. CurrentTable(t)' = s[at[t] + 1]
      BY <2>1, <2>4 DEF CurrentTable
    <3>2. Reached(t) \subseteq Reached(t)'
      <4>1. 1..at[t] \subseteq 1..at'[t]
        BY <2>3, <2>4
      <4>2. QED
        BY <2>1, <4>1 DEF Reached
    <3>3. \A r \in held'[t] : r[1] \in Reached(t) /\ r[1] \in Reached(t)'
      BY <2>1, <3>2 DEF LocksInOrder
    <3>4. s[at[t] + 1] \notin Reached(t)
      <4>1. ASSUME NEW m \in 1..at[t] PROVE s[m] # s[at[t] + 1]
        <5>1. m \in 1..(at[t] + 1) /\ m # at[t] + 1
          BY <2>3
        <5>2. Rank[s[m]] < Rank[s[at[t] + 1]]
          BY <2>1, <2>3, <5>1, StatementsInOrder
        <5>3. Rank[s[at[t] + 1]] \in Nat
          BY <2>3 DEF Rank, Tables, Indexes
        <5>4. QED
          BY <5>2, <5>3
      <4>2. QED
        BY <4>1 DEF Reached
    <3>5. held'[t] \cap RowsOf(s[at[t] + 1]) = {}
      BY <3>3, <3>4, RowTable
    <3>6. ASSUME NEW r \in S, ~FindsMany(kind[t], s[at[t] + 1]) PROVE S = {r}
      BY <2>2, <3>6 DEF Found
    <3>7. QED
      BY <2>1, <2>3, <2>4, <2>5, <3>1, <3>3, <3>5, <3>6 DEF LocksInOrder
  <2>8. \A u \in Transactions \ {t} :
          IF kind[u] = "idle" THEN wanted'[u] = {} /\ held'[u] = {} /\ at'[u] = 0
                            ELSE LocksInOrder(u)'
    BY <2>1, <2>4 DEF LockInv, LocksInOrder, Reached, CurrentTable
  <2>9. QED
    BY <2>1, <2>6, <2>7, <2>8 DEF LockInv
<1>3. ASSUME NEW t \in Transactions, NEW r \in Rows, Lock(t, r) PROVE LockInv'
  <2>1. /\ r \in wanted[t] /\ UNCHANGED <<kind, at>>
        /\ wanted' = [wanted EXCEPT ![t] = @ \ {r}]
        /\ held' = [held EXCEPT ![t] = @ \cup {r}]
    BY <1>3 DEF Lock
  <2>2. /\ wanted'[t] = wanted[t] \ {r} /\ held'[t] = held[t] \cup {r}
        /\ \A u \in Transactions \ {t} : held'[u] = held[u] /\ wanted'[u] = wanted[u]
    BY <2>1 DEF LockInv, LockTypeOK
  <2>3. LockTypeOK'
    BY <2>1 DEF LockInv, LockTypeOK
  <2>4. kind[t] # "idle" /\ LocksInOrder(t) /\ at[t] # 0
    BY <2>1 DEF LockInv, LocksInOrder
  <2>5. LocksInOrder(t)'
    <3>1. r[1] \in Reached(t)
      <4>1. r \in RowsOf(CurrentTable(t))
        BY <2>1, <2>4 DEF LocksInOrder
      <4>2. r[1] = CurrentTable(t)
        BY <4>1, RowTable
      <4>3. QED
        BY <2>4, <4>2, ReachedRanks
    <3>2. \A q \in held'[t] : q[1] \in Reached(t)
      BY <2>2, <2>4, <3>1 DEF LocksInOrder
    <3>3. ASSUME NEW q \in wanted'[t] PROVE FindsMany(kind[t], CurrentTable(t))
      BY <2>1, <2>2, <2>4 DEF LocksInOrder
    <3>4. \A q \in wanted'[t] : q \in RowsOf(CurrentTable(t)) /\ at[t] # 0
      BY <2>2, <2>4 DEF LocksInOrder
    <3>5. CurrentTable(t)' = CurrentTable(t) /\ Reached(t)' = Reached(t)
      BY <2>1 DEF CurrentTable, Reached
    <3>6. QED
      BY <2>1, <2>4, <3>2, <3>3, <3>4, <3>5 DEF LocksInOrder
  <2>6. \A u \in Transactions \ {t} :
          IF kind[u] = "idle" THEN wanted'[u] = {} /\ held'[u] = {} /\ at[u] = 0
                            ELSE LocksInOrder(u)'
    BY <2>1, <2>2 DEF LockInv, LocksInOrder, Reached, CurrentTable
  <2>7. QED
    BY <2>1, <2>3, <2>4, <2>5, <2>6 DEF LockInv
<1>4. ASSUME NEW t \in Transactions, End(t) PROVE LockInv'
  <2>1. /\ kind'[t] = "idle" /\ wanted'[t] = {} /\ held'[t] = {} /\ at'[t] = 0
        /\ \A u \in Transactions \ {t} :
             /\ kind'[u] = kind[u] /\ at'[u] = at[u]
             /\ held'[u] = held[u] /\ wanted'[u] = wanted[u]
    BY <1>4 DEF End, LockInv, LockTypeOK
  <2>2. LockTypeOK'
    BY <1>4 DEF End, LockInv, LockTypeOK
  <2>3. \A u \in Transactions \ {t} :
          IF kind'[u] = "idle" THEN wanted'[u] = {} /\ held'[u] = {} /\ at'[u] = 0
                             ELSE LocksInOrder(u)'
    BY <2>1 DEF LockInv, LocksInOrder, Reached, CurrentTable
  <2>4. QED
    BY <2>1, <2>2, <2>3 DEF LockInv
<1>5. CASE UNCHANGED locks
  BY <1>5 DEF locks, LockInv, LockTypeOK, LocksInOrder, Reached, CurrentTable
<1>6. QED
  BY <1>1, <1>2, <1>3, <1>4, <1>5 DEF LockNext

(* Who waits on a circle has locked a row of the table where it waits: the *)
(* others on the circle would else all hold rows that rank as high as the  *)
(* one it wants, and never want one of those it has.                       *)
LEMMA CircleHolds ==
  ASSUME LockInv, NEW t \in Transactions, OnCircle(t)
  PROVE  /\ kind[t] # "idle" /\ wanted[t] # {}
         /\ held[t] \cap RowsOf(CurrentTable(t)) # {}
<1>1. wanted[t] # {}
  <2>1. SUFFICES ASSUME wanted[t] = {} PROVE FALSE
    OBVIOUS
  <2>2. \A u \in Transactions : ~WaitsFor(t, u)
    BY <2>1 DEF WaitsFor
  <2>3. {} \in SUBSET Transactions
    OBVIOUS
  <2>4. t \in {}
    BY <2>2, <2>3 DEF OnCircle
  <2>5. QED
    BY <2>4
<1>2. kind[t] # "idle" /\ LocksInOrder(t) /\ at[t] # 0
  BY <1>1 DEF LockInv, LocksInOrder
<1>3. held[t] \cap RowsOf(CurrentTable(t)) # {}
  <2>1. SUFFICES ASSUME held[t] \cap RowsOf(CurrentTable(t)) = {} PROVE FALSE
    OBVIOUS
  <2> DEFINE high == Rank[CurrentTable(t)]
  <2> DEFINE S == {u \in Transactions : \E r \in held[u] : Rank[r[1]] >= high}
  <2>2. high \in Nat
    BY <1>2, ReachedRanks
  <2>3. ASSUME NEW u \in Transactions, NEW r \in wanted[u]
        PROVE  /\ kind[u] # "idle" /\ LocksInOrder(u) /\ at[u] # 0
               /\ r[1] = CurrentTable(u)
    BY RowTable DEF LockInv, LocksInOrder
  <2>4. ASSUME NEW u \in Transactions, WaitsFor(t, u) PROVE u \in S
    <3>1. PICK r \in wanted[t] : r \in held[u]
      BY <2>4 DEF WaitsFor
    <3>2. Rank[r[1]] >= high
      BY <2>2, <2>3, <3>1
    <3>3. QED
      BY <3>1, <3>2
  <2>5. ASSUME NEW u \in S, NEW w \in Transactions, WaitsFor(u, w) PROVE w \in S
    <3>1. PICK r \in wanted[u] : r \in held[w]
      BY <2>5 DEF WaitsFor
    <3>2. PICK q \in held[u] : Rank[q[1]] >= high
      BY <2>5
    <3>3. u \in Transactions
      BY <2>5
    <3>4. /\ kind[u] # "idle" /\ at[u] # 0 /\ r[1] = CurrentTable(u) /\ q[1] \in Reached(u)
      BY <2>3, <3>1, <3>2, <3>3 DEF LocksInOrder
    <3>5. Rank[q[1]] \in Nat /\ Rank[r[1]] \in Nat /\ Rank[q[1]] <= Rank[r[1]]
      BY <3>3, <3>4, ReachedRanks
    <3>6. Rank[r[1]] >= high
      BY <2>2, <3>2, <3>5
    <3>7. QED
      BY <3>1, <3>6
  <2>6. t \notin S
    <3>1. ASSUME NEW r \in held[t], Rank[r[1]] >= high PROVE FALSE
      <4>1. r[1] \in Reached(t)
        BY <1>2 DEF LocksInOrder
      <4>2. r[1] = CurrentTable(t)
        BY <1>2, <2>2, <3>1, <4>1, ReachedRanks
      <4>3. r \in Rows
        BY DEF LockInv, LockTypeOK
      <4>4. r \in RowsOf(r[1])
        BY <4>3, RowTable DEF Rows
      <4>5. QED
        BY <2>1, <4>2, <4>4
    <3>2. QED
      BY <3>1
  <2> HIDE DEF S
  <2>7. S \in SUBSET Transactions
    BY DEF S
  <2>8. QED
    BY <2>4, <2>5, <2>6, <2>7 DEF OnCircle
<1>4. QED
  BY <1>1, <1>2, <1>3

(* No circle of waiting transactions has a link that locks one row only:   *)
(* for any number of them, a deadlock is among sweeps of addBankVersion    *)
(* and edits that invalidate requests, inside one of their UPDATEs.        *)
THEOREM DeadlocksOfSweeps == LockSpec => []OnlySweepsDeadlock
<1>1. ASSUME LockInv, NEW t \in Transactions, OnCircle(t)
      PROVE  /\ kind[t] \in {"update", "addBankVersion"}
             /\ held[t] \cap RowsOf(CurrentTable(t)) # {}
  <2>1. /\ kind[t] # "idle" /\ wanted[t] # {}
        /\ held[t] \cap RowsOf(CurrentTable(t)) # {}
    BY <1>1, CircleHolds
  <2>2. FindsMany(kind[t], CurrentTable(t))
    BY <1>1, <2>1 DEF LockInv, LocksInOrder
  <2>3. QED
    BY <2>1, <2>2 DEF FindsMany
<1>2. LockInv => OnlySweepsDeadlock
  BY <1>1 DEF OnlySweepsDeadlock
<1>3. QED
  BY <1>2, LockInitInv, LockNextInv, PTL DEF LockSpec
=============================================================================
