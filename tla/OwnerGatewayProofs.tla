------------------------- MODULE OwnerGatewayProofs -------------------------
(***************************************************************************)
(* Theorems about OwnerGateway for every set of callers and payers, every  *)
(* price a call may have, every journal earlier processes may have left    *)
(* and every number of calls, credits, crashes and half-made writes.       *)
(***************************************************************************)
EXTENDS OwnerGateway, Sums

(***************************************************************************)
(* The inductive invariant.                                                *)
(***************************************************************************)

Lines == Row \cup {JUNK}
Books == [balance : [Payers -> Int], cap : [Payers -> Nat],
          ceiling : [Models -> Nat \cup {NONE}], live : SUBSET (Models \cup {NONE})]
Stages == {"idle", "asking", "waiting", "provider", "minting"}
Calls == [at : Stages, replay : BOOLEAN, model : Models \cup {NONE}, dollars : Costs \cup {0},
          held : Nat, short : BOOLEAN, owns : BOOLEAN, expired : BOOLEAN]

CallsType ==
  /\ calls \in [Callers -> Calls]
  /\ \A c \in Callers : calls[c].at # "idle" => calls[c].model \in Models

TypeOK ==
  /\ journal \in Seq(Lines) /\ torn \in BOOLEAN /\ consumed \in Nat /\ opened \in Nat
  /\ book \in Books
  /\ held \in [Payers -> Int] /\ holding \in [Payers -> Int] /\ short \in [Payers -> {0, 1}]
  /\ CallsType
  /\ receipts \in [Payers -> Nat] /\ unfunded \in [Payers -> Nat]
  /\ up \in BOOLEAN

\* A torn line is the last one; the books account for whole lines only.
FileInv ==
  /\ torn => Len(journal) > 0 /\ journal[Len(journal)] = JUNK
  /\ orphans \subseteq 1..Len(journal)
  /\ consumed <= Len(Whole) /\ opened <= Len(Whole)

\* What the live books do not account for are credits of another process, rows
\* this one refused, and damage.
TailInv ==
  up => \A i \in consumed + 1..Len(Whole) :
          Whole[i] = JUNK \/ Whole[i].op = "credit" \/ i \in orphans

\* What a payer's calls in flight hold, and how many of them hold anything.
Holders(p) == {c \in InFlight(p) : calls[c].held > 0}
HoldInv ==
  \A p \in Payers : held[p] = DollarsHeld(p) /\ holding[p] = Cardinality(Holders(p))

\* One call of a payer at a time holds less than its model may cost, and it holds something.
ShortInv ==
  \A p \in Payers : \A c \in InFlight(p) : calls[c].short =>
    /\ short[p] = 1 /\ calls[c].held > 0
    /\ \A d \in InFlight(p) : calls[d].short => d = c

\* A dead gateway holds nothing.
DownInv ==
  ~up => /\ book = Blank /\ consumed = 0
         /\ held = Fresh(0) /\ holding = Fresh(0) /\ short = Fresh(0) /\ receipts = Fresh(0)
         /\ calls = [c \in Callers |-> Idle]

\* None of a payer's rows was left in the file by a write that failed.
Unspoilt(p) == Orphans(p, Ops) = {}

\* The books of a live gateway against the journal's.
BooksOf(p) ==
  /\ Journaled.cap[p] <= book.cap[p]
  /\ p \notin excused => book.cap[p] = Journaled.cap[p]
  /\ book.cap[p] = Journaled.cap[p] => Replayed.balance[p] + held[p] <= Journaled.balance[p]
BooksInv == up /\ Readable(1) => \A p \in Payers : Unspoilt(p) => BooksOf(p)

\* An allowance is overrun by less than a call, and not at all while a call is under-reserved;
\* nor would a gateway built from the journal overrun it.
OverrunOf(p) ==
  /\ book.balance[p] > 0 - MaxCost
  /\ short[p] > 0 => book.balance[p] >= 0
OverrunInv ==
  \A p \in Payers : p \notin excused /\ Unspoilt(p) =>
    /\ OverrunOf(p)
    /\ Readable(1) => Journaled.balance[p] > 0 - MaxCost

Inv == /\ TypeOK /\ FileInv /\ TailInv /\ HoldInv /\ ShortInv /\ DownInv
       /\ BooksInv /\ OverrunInv /\ AuditReconciles

(***************************************************************************)
(* Replaying rows.                                                         *)
(***************************************************************************)

\* The dearest a call may be is what some call costs.
LEMMA MaxCostIs == MaxCost \in Nat /\ MaxCost > 0 /\ \A d \in Costs : d \in Nat /\ d <= MaxCost
<1>1. PICK d \in Costs : d > 0 /\ \A e \in Costs : e <= d  BY GatewayAssumption
<1>2. \A e \in Costs : e \in Nat  BY GatewayAssumption
<1>3. \A e \in Costs : d >= e  BY <1>1, <1>2
<1>4. MaxCost \in Costs /\ \A e \in Costs : MaxCost >= e  BY <1>3 DEF MaxCost, Max
<1> QED  BY <1>1, <1>2, <1>4

\* Whatever holds of 0 and of every successor holds of every natural.
LEMMA Naturally ==
  ASSUME NEW S, 0 \in S, \A n \in Nat : n \in S => n + 1 \in S
  PROVE  \A n \in Nat : n \in S
<1> DEFINE Bad == Nat \ S
<1>1. ASSUME Bad # {} PROVE FALSE
  <2>1. PICK n \in Bad : \A m \in Bad : n <= m
    <3>1. Bad \subseteq Nat  OBVIOUS
    <3> HIDE DEF Bad
    <3> QED  BY <1>1, <3>1, LeastNat
  <2>2. n \in Nat /\ n # 0  OBVIOUS
  <2>3. n - 1 \in Nat /\ (n - 1) + 1 = n /\ ~(n <= n - 1)  BY <2>2
  <2>4. n - 1 \in S  BY <2>1, <2>3
  <2> QED  BY <2>3, <2>4
<1> QED  BY <1>1

\* The recursion of a replay, as a fact about a function.
IsReplay(f, b, rows, from, upTo) ==
  f = [n \in from - 1..upTo |-> IF n < from THEN b ELSE Apply(f[n - 1], rows[n])]

\* The recursion has a solution, up to any row.
LEMMA ReplayExists ==
  ASSUME NEW b, NEW rows, NEW from \in Nat \ {0}, NEW upTo \in Nat, from - 1 <= upTo
  PROVE  \E f : IsReplay(f, b, rows, from, upTo)
<1> DEFINE S == {k \in Nat : \E f : IsReplay(f, b, rows, from, (from - 1) + k)}
<1>1. 0 \in S
  <2> DEFINE f == [n \in from - 1..(from - 1) + 0 |-> b]
  <2>1. f = [n \in from - 1..(from - 1) + 0 |-> IF n < from THEN b ELSE Apply(f[n - 1], rows[n])]
    OBVIOUS
  <2> QED  BY <2>1 DEF IsReplay
<1>2. ASSUME NEW k \in Nat, k \in S PROVE k + 1 \in S
  <2> DEFINE m == (from - 1) + k
  <2>1. m \in Nat /\ m + 1 = (from - 1) + (k + 1) /\ from - 1 <= m  OBVIOUS
  <2>2. PICK f : f = [n \in from - 1..m |-> IF n < from THEN b ELSE Apply(f[n - 1], rows[n])]
    BY <1>2 DEF IsReplay
  <2> HIDE DEF m
  <2> DEFINE g == [n \in from - 1..m + 1 |-> IF n <= m THEN f[n] ELSE Apply(f[m], rows[m + 1])]
  <2>3. ASSUME NEW n \in from - 1..m + 1
        PROVE  g[n] = IF n < from THEN b ELSE Apply(g[n - 1], rows[n])
    <3>1. CASE n = m + 1
      <4>1. ~(n < from) /\ ~(n <= m) /\ n - 1 = m /\ m \in from - 1..m + 1 /\ m <= m
        BY <2>1, <3>1
      <4>2. g[m] = f[m]  BY <4>1
      <4>3. g[n] = Apply(f[m], rows[n])  BY <3>1, <4>1
      <4> QED  BY <4>1, <4>2, <4>3
    <3>2. CASE n # m + 1
      <4>1. n \in from - 1..m /\ n <= m  BY <2>1, <3>2
      <4>2. g[n] = f[n]  BY <4>1
      <4>3. f[n] = IF n < from THEN b ELSE Apply(f[n - 1], rows[n])  BY <2>2, <4>1
      <4>4. ~(n < from) => n - 1 \in from - 1..m + 1 /\ n - 1 <= m  BY <2>1, <4>1
      <4>5. ~(n < from) => g[n - 1] = f[n - 1]  BY <4>4
      <4> QED  BY <4>2, <4>3, <4>5
    <3> QED  BY <3>1, <3>2
  <2>4. g = [n \in from - 1..m + 1 |-> IF n < from THEN b ELSE Apply(g[n - 1], rows[n])]
    <3>1. g = [n \in from - 1..m + 1 |-> g[n]]  OBVIOUS
    <3> HIDE DEF g
    <3> QED  BY <2>3, <3>1
  <2>5. IsReplay(g, b, rows, from, m + 1)  BY <2>4 DEF IsReplay
  <2> HIDE DEF g
  <2> QED  BY <2>1, <2>5
<1> HIDE DEF S
<1>3. \A k \in Nat : k \in S  BY <1>1, <1>2, Naturally
<1>4. upTo - (from - 1) \in Nat /\ (from - 1) + (upTo - (from - 1)) = upTo  OBVIOUS
<1> QED  BY <1>3, <1>4 DEF S

\* What the first rows make of a book does not depend on the rows behind them.
LEMMA ReplaysAgree ==
  ASSUME NEW b, NEW rows, NEW more, NEW from \in Nat \ {0}, NEW k \in Nat, from - 1 <= k,
         NEW n1 \in Nat, k <= n1, NEW n2 \in Nat, k <= n2, NEW f, NEW g,
         IsReplay(f, b, rows, from, n1), IsReplay(g, b, more, from, n2),
         \A i \in from..k : rows[i] = more[i]
  PROVE  f[k] = g[k]
<1> DEFINE S == {j \in Nat : (from - 1) + j <= k => f[(from - 1) + j] = g[(from - 1) + j]}
<1>1. \A n \in from - 1..k : /\ f[n] = IF n < from THEN b ELSE Apply(f[n - 1], rows[n])
                             /\ g[n] = IF n < from THEN b ELSE Apply(g[n - 1], more[n])
  <2>1. \A n \in from - 1..k : n \in from - 1..n1 /\ n \in from - 1..n2  OBVIOUS
  <2>2. \A n \in from - 1..n1 : f[n] = IF n < from THEN b ELSE Apply(f[n - 1], rows[n])
    BY DEF IsReplay
  <2>3. \A n \in from - 1..n2 : g[n] = IF n < from THEN b ELSE Apply(g[n - 1], more[n])
    BY DEF IsReplay
  <2> QED  BY <2>1, <2>2, <2>3
<1>2. 0 \in S
  <2>1. (from - 1) + 0 < from /\ (from - 1) + 0 \in from - 1..k  OBVIOUS
  <2> QED  BY <1>1, <2>1
<1>3. ASSUME NEW j \in Nat, j \in S PROVE j + 1 \in S
  <2> DEFINE n == (from - 1) + (j + 1)
  <2>1. SUFFICES ASSUME n <= k PROVE f[n] = g[n]  OBVIOUS
  <2>2. n - 1 = (from - 1) + j /\ n - 1 <= k /\ ~(n < from) /\ n \in from - 1..k /\ n \in from..k
    BY <2>1
  <2>3. f[n - 1] = g[n - 1]  BY <1>3, <2>2
  <2> HIDE DEF n
  <2> QED  BY <1>1, <2>2, <2>3
<1> HIDE DEF S
<1>4. \A j \in Nat : j \in S  BY <1>2, <1>3, Naturally
<1>5. PICK j \in Nat : (from - 1) + j = k
  <2>1. k - (from - 1) \in Nat /\ (from - 1) + (k - (from - 1)) = k  OBVIOUS
  <2> QED  BY <2>1
<1>6. j \in S /\ k <= k  BY <1>4
<1> QED  BY <1>5, <1>6 DEF S

\* ReplayOnto is the last value of its recursion.
LEMMA ReplayIs ==
  ASSUME NEW b, NEW rows, NEW from \in Nat \ {0}, Len(rows) \in Nat, from - 1 <= Len(rows)
  PROVE  \E f : IsReplay(f, b, rows, from, Len(rows)) /\ ReplayOnto(b, rows, from) = f[Len(rows)]
<1> DEFINE It == CHOOSE f : f = [n \in from - 1..Len(rows) |->
                                  IF n < from THEN b ELSE Apply(f[n - 1], rows[n])]
<1>1. ReplayOnto(b, rows, from) = It[Len(rows)]  BY Zenon DEF ReplayOnto
<1>2. \E f : f = [n \in from - 1..Len(rows) |-> IF n < from THEN b ELSE Apply(f[n - 1], rows[n])]
  <2>1. \E f : IsReplay(f, b, rows, from, Len(rows))  BY ReplayExists
  <2> QED  BY <2>1 DEF IsReplay
<1>3. It = [n \in from - 1..Len(rows) |-> IF n < from THEN b ELSE Apply(It[n - 1], rows[n])]
  BY <1>2
<1> HIDE DEF It
<1> QED  BY <1>1, <1>3 DEF IsReplay

\* Replaying no row changes nothing.
LEMMA ReplayNone ==
  ASSUME NEW b, NEW rows, Len(rows) \in Nat
  PROVE  ReplayOnto(b, rows, Len(rows) + 1) = b
<1> DEFINE from == Len(rows) + 1
<1>1. from \in Nat \ {0} /\ from - 1 <= Len(rows) /\ from - 1 = Len(rows) /\ Len(rows) < from
      /\ Len(rows) \in from - 1..Len(rows)
  OBVIOUS
<1> HIDE DEF from
<1>2. PICK f : /\ IsReplay(f, b, rows, from, Len(rows))
               /\ ReplayOnto(b, rows, from) = f[Len(rows)]
  BY <1>1, ReplayIs
<1>3. f[Len(rows)] = b  BY <1>1, <1>2 DEF IsReplay
<1> QED  BY <1>2, <1>3 DEF from

\* A row behind the others is applied last.
LEMMA ReplayAppend ==
  ASSUME NEW b, NEW X, NEW rows \in Seq(X), NEW row, NEW from \in 1..Len(rows) + 1
  PROVE  ReplayOnto(b, Append(rows, row), from) = Apply(ReplayOnto(b, rows, from), row)
<1> DEFINE more == Append(rows, row)
           n == Len(rows)
<1>1. n \in Nat /\ Len(more) = n + 1 /\ more[n + 1] = row /\ \A i \in from..n : rows[i] = more[i]
  OBVIOUS
<1>2. from \in Nat \ {0} /\ from - 1 <= n /\ from - 1 <= n + 1 /\ n <= n + 1 /\ n <= n
      /\ n + 1 \in Nat
  BY <1>1
<1> HIDE DEF more
<1>3. PICK f : IsReplay(f, b, rows, from, n) /\ ReplayOnto(b, rows, from) = f[n]
  BY <1>1, <1>2, ReplayIs
<1>4. PICK g : IsReplay(g, b, more, from, n + 1) /\ ReplayOnto(b, more, from) = g[n + 1]
  <2>1. Len(more) \in Nat /\ from - 1 <= Len(more)  BY <1>1, <1>2
  <2> HIDE DEF n
  <2> QED  BY <1>1, <1>2, <2>1, ReplayIs
<1> HIDE DEF n
<1>5. f[n] = g[n]
  <2>1. IsReplay(f, b, rows, from, n) /\ IsReplay(g, b, more, from, n + 1)  BY <1>3, <1>4
  <2>2. \A i \in from..n : rows[i] = more[i]  BY <1>1
  <2>3. n \in Nat  BY <1>1
  <2> HIDE <1>3, <1>4
  <2> QED  BY <1>2, <2>1, <2>2, <2>3, ReplaysAgree
<1>6. g[n + 1] = Apply(g[n], row)
  <2>1. n + 1 \in from - 1..n + 1 /\ ~(n + 1 < from) /\ (n + 1) - 1 = n  BY <1>1, <1>2
  <2>2. g[n + 1] = IF n + 1 < from THEN b ELSE Apply(g[(n + 1) - 1], more[n + 1])
    BY <1>4, <2>1 DEF IsReplay
  <2> QED  BY <1>1, <2>1, <2>2
<1> QED  BY <1>3, <1>4, <1>5, <1>6 DEF more

\* What one row makes of a book: its payer's money moves, and nobody else's.
LEMMA ApplyIs ==
  ASSUME NEW b \in Books, NEW row \in Row
  PROVE  /\ Apply(b, row) \in Books
         /\ \A p \in Payers :
              /\ row.payer # p => /\ Apply(b, row).balance[p] = b.balance[p]
                                  /\ Apply(b, row).cap[p] = b.cap[p]
              /\ row.payer = p /\ row.op = "cap" =>
                   Apply(b, row).balance[p] = row.usd /\ Apply(b, row).cap[p] = row.window
              /\ row.payer = p /\ row.op = "credit" =>
                   Apply(b, row).balance[p] = b.balance[p] + row.usd /\ Apply(b, row).cap[p] = b.cap[p]
              /\ row.payer = p /\ row.op \in Charges =>
                   Apply(b, row).balance[p] = b.balance[p] - row.usd /\ Apply(b, row).cap[p] = b.cap[p]
<1>0. /\ row.payer \in Payers /\ row.op \in Ops /\ row.usd \in Nat /\ row.usd \in Int
      /\ row.model \in Models \cup {NONE} /\ row.window \in Nat
  <2>1. MaxWindow \in Nat  BY GatewayAssumption
  <2> QED  BY <2>1 DEF Row
<1>1. CASE row.op = "cap"
  <2>1. Apply(b, row) = [b EXCEPT !.balance[row.payer] = row.usd, !.cap[row.payer] = row.window]
    BY <1>1 DEF Apply
  <2>2. Apply(b, row) \in Books
    <3>1. /\ b.balance \in [Payers -> Int] /\ b.cap \in [Payers -> Nat]
          /\ b.ceiling \in [Models -> Nat \cup {NONE}] /\ b.live \in SUBSET (Models \cup {NONE})
          /\ b = [balance |-> b.balance, cap |-> b.cap, ceiling |-> b.ceiling, live |-> b.live]
      BY DEF Books
    <3>2. Apply(b, row) = [balance |-> [b.balance EXCEPT ![row.payer] = row.usd],
                           cap |-> [b.cap EXCEPT ![row.payer] = row.window],
                           ceiling |-> b.ceiling, live |-> b.live]
      BY <2>1, <3>1
    <3>3. /\ [b.balance EXCEPT ![row.payer] = row.usd] \in [Payers -> Int]
          /\ [b.cap EXCEPT ![row.payer] = row.window] \in [Payers -> Nat]
      BY <1>0, <3>1
    <3> QED  BY <3>1, <3>2, <3>3 DEF Books
  <2>3. /\ b.balance \in [Payers -> Int] /\ b.cap \in [Payers -> Nat]
        /\ Apply(b, row).balance = [b.balance EXCEPT ![row.payer] = row.usd]
        /\ Apply(b, row).cap = [b.cap EXCEPT ![row.payer] = row.window]
    BY <2>1 DEF Books
  <2>4. \A p \in Payers :
          /\ row.payer # p => /\ Apply(b, row).balance[p] = b.balance[p]
                              /\ Apply(b, row).cap[p] = b.cap[p]
          /\ row.payer = p => Apply(b, row).balance[p] = row.usd /\ Apply(b, row).cap[p] = row.window
    BY <2>3
  <2> QED  BY <1>1, <2>2, <2>4 DEF Charges
<1>2. CASE row.op = "credit"
  <2>1. Apply(b, row) = [b EXCEPT !.balance[row.payer] = @ + row.usd]
    BY <1>2 DEF Apply
  <2> QED  BY <1>0, <1>2, <2>1 DEF Books, Charges
<1>3. CASE row.op \in Charges
  <2> DEFINE paid == [b EXCEPT !.balance[row.payer] = @ - row.usd]
             replay == row.op = "replay"
  <2>1. Apply(b, row) = Learn(paid, row.model, row.usd, replay)
    BY <1>3 DEF Apply, Charges
  <2>2. paid \in Books /\ \A p \in Payers :
          /\ row.payer # p => paid.balance[p] = b.balance[p]
          /\ row.payer = p => paid.balance[p] = b.balance[p] - row.usd
          /\ paid.cap[p] = b.cap[p]
    BY <1>0 DEF Books
  <2> HIDE DEF paid, replay
  <2>3. /\ Learn(paid, row.model, row.usd, replay) \in Books
        /\ Learn(paid, row.model, row.usd, replay).balance = paid.balance
        /\ Learn(paid, row.model, row.usd, replay).cap = paid.cap
    BY <1>0, <2>2 DEF Learn, Books
  <2>4. row.op # "cap" /\ row.op # "credit"  BY <1>3 DEF Charges
  <2> QED  BY <2>1, <2>2, <2>3, <2>4
<1> QED  BY <1>0, <1>1, <1>2, <1>3 DEF Ops, Charges

\* A replay of rows that parse is a book.
LEMMA ReplayType ==
  ASSUME NEW b \in Books, NEW rows, NEW from \in Nat \ {0}, Len(rows) \in Nat,
         from - 1 <= Len(rows), \A i \in from..Len(rows) : rows[i] \in Row
  PROVE  ReplayOnto(b, rows, from) \in Books
<1>1. PICK f : IsReplay(f, b, rows, from, Len(rows)) /\ ReplayOnto(b, rows, from) = f[Len(rows)]
  BY ReplayIs
<1> DEFINE S == {j \in Nat : (from - 1) + j <= Len(rows) => f[(from - 1) + j] \in Books}
<1>2. \A n \in from - 1..Len(rows) : f[n] = IF n < from THEN b ELSE Apply(f[n - 1], rows[n])
  BY <1>1 DEF IsReplay
<1>3. 0 \in S
  <2>1. (from - 1) + 0 < from /\ (from - 1) + 0 \in from - 1..Len(rows)  OBVIOUS
  <2>2. f[(from - 1) + 0] = b  BY <1>2, <2>1
  <2> QED  BY <2>2
<1>4. ASSUME NEW j \in Nat, j \in S PROVE j + 1 \in S
  <2> DEFINE n == (from - 1) + (j + 1)
  <2>1. SUFFICES ASSUME n <= Len(rows) PROVE f[n] \in Books  OBVIOUS
  <2>2. /\ n - 1 = (from - 1) + j /\ n - 1 <= Len(rows) /\ ~(n < from)
        /\ n \in from - 1..Len(rows) /\ n \in from..Len(rows)
    BY <2>1
  <2>3. f[n - 1] \in Books  BY <1>4, <2>2
  <2> HIDE DEF n
  <2>4. f[n] = Apply(f[n - 1], rows[n]) /\ rows[n] \in Row  BY <1>2, <2>2
  <2> QED  BY <2>3, <2>4, ApplyIs
<1> HIDE DEF S
<1>5. \A j \in Nat : j \in S  BY <1>3, <1>4, Naturally
<1>6. PICK j \in Nat : (from - 1) + j = Len(rows)
  <2>1. Len(rows) - (from - 1) \in Nat /\ (from - 1) + (Len(rows) - (from - 1)) = Len(rows)
    OBVIOUS
  <2> QED  BY <2>1
<1>7. j \in S /\ Len(rows) <= Len(rows)  BY <1>5
<1> QED  BY <1>1, <1>6, <1>7 DEF S

\* Rows that hold nothing of a payer but credits leave its cap and add the same to whatever it had.
LEMMA ReplayCredits ==
  ASSUME NEW b \in Books, NEW d \in Books, NEW p \in Payers,
         NEW rows, NEW from \in Nat \ {0}, Len(rows) \in Nat,
         from - 1 <= Len(rows), \A i \in from..Len(rows) : rows[i] \in Row,
         \A i \in from..Len(rows) : rows[i].payer = p => rows[i].op = "credit"
  PROVE  /\ ReplayOnto(b, rows, from).cap[p] = b.cap[p]
         /\ ReplayOnto(b, rows, from).balance[p] >= b.balance[p]
         /\ ReplayOnto(b, rows, from).balance[p] - b.balance[p]
              = ReplayOnto(d, rows, from).balance[p] - d.balance[p]
<1>1. PICK f : IsReplay(f, b, rows, from, Len(rows)) /\ ReplayOnto(b, rows, from) = f[Len(rows)]
  BY ReplayIs
<1>2. PICK g : IsReplay(g, d, rows, from, Len(rows)) /\ ReplayOnto(d, rows, from) = g[Len(rows)]
  BY ReplayIs
<1> DEFINE Good(n) == /\ f[n] \in Books /\ g[n] \in Books
                      /\ f[n].cap[p] = b.cap[p] /\ f[n].balance[p] >= b.balance[p]
                      /\ f[n].balance[p] - b.balance[p] = g[n].balance[p] - d.balance[p]
           S == {j \in Nat : (from - 1) + j <= Len(rows) => Good((from - 1) + j)}
<1>3. \A n \in from - 1..Len(rows) :
        /\ f[n] = IF n < from THEN b ELSE Apply(f[n - 1], rows[n])
        /\ g[n] = IF n < from THEN d ELSE Apply(g[n - 1], rows[n])
  BY <1>1, <1>2 DEF IsReplay
<1>a. \A e \in Books : e.balance[p] \in Int /\ e.cap[p] \in Nat  BY DEF Books
<1>4. 0 \in S
  <2>1. (from - 1) + 0 < from /\ (from - 1) + 0 \in from - 1..Len(rows)  OBVIOUS
  <2>2. f[(from - 1) + 0] = b /\ g[(from - 1) + 0] = d  BY <1>3, <2>1
  <2> QED  BY <1>a, <2>2
<1>5. ASSUME NEW j \in Nat, j \in S PROVE j + 1 \in S
  <2> DEFINE n == (from - 1) + (j + 1)
  <2>1. SUFFICES ASSUME n <= Len(rows) PROVE Good(n)
    <3> HIDE DEF Good
    <3> QED  OBVIOUS
  <2>2. /\ n - 1 = (from - 1) + j /\ n - 1 <= Len(rows) /\ ~(n < from)
        /\ n \in from - 1..Len(rows) /\ n \in from..Len(rows)
    BY <2>1
  <2>3. Good(n - 1)
    <3> HIDE DEF Good
    <3> QED  BY <1>5, <2>2
  <2> HIDE DEF n
  <2>4. /\ f[n] = Apply(f[n - 1], rows[n]) /\ g[n] = Apply(g[n - 1], rows[n])
        /\ rows[n] \in Row /\ rows[n].usd \in Nat
        /\ rows[n].payer = p => rows[n].op = "credit"
    <3>1. rows[n] \in Row  BY <2>2
    <3>2. rows[n].usd \in Nat  BY <3>1 DEF Row
    <3> QED  BY <1>3, <2>2, <3>1, <3>2
  <2> DEFINE usd == IF rows[n].payer = p THEN rows[n].usd ELSE 0
  <2>5. /\ f[n] \in Books /\ f[n].cap[p] = f[n - 1].cap[p] /\ usd \in Nat
        /\ f[n].balance[p] = f[n - 1].balance[p] + usd
    <3>1. f[n - 1].balance[p] \in Int  BY <1>a, <2>3
    <3> QED  BY <2>3, <2>4, <3>1, ApplyIs
  <2>6. g[n] \in Books /\ g[n].balance[p] = g[n - 1].balance[p] + usd
    <3>1. g[n - 1].balance[p] \in Int  BY <1>a, <2>3
    <3> QED  BY <2>3, <2>4, <3>1, ApplyIs
  <2>7. /\ f[n].balance[p] \in Int /\ g[n].balance[p] \in Int /\ f[n - 1].balance[p] \in Int
        /\ g[n - 1].balance[p] \in Int /\ b.balance[p] \in Int /\ d.balance[p] \in Int
    BY <1>a, <2>3, <2>5, <2>6
  <2> HIDE DEF usd
  <2>8. /\ f[n - 1].cap[p] = b.cap[p] /\ f[n - 1].balance[p] >= b.balance[p]
        /\ f[n - 1].balance[p] - b.balance[p] = g[n - 1].balance[p] - d.balance[p]
    BY <2>3
  <2>9. /\ f[n].balance[p] >= b.balance[p]
        /\ f[n].balance[p] - b.balance[p] = g[n].balance[p] - d.balance[p]
    <3>1. \A x, y, z, v \in Int : \A u \in Nat :
            x >= z /\ x - z = y - v => x + u >= z /\ (x + u) - z = (y + u) - v
      OBVIOUS
    <3> DEFINE x == f[n - 1].balance[p]
               y == g[n - 1].balance[p]
               z == b.balance[p]
               v == d.balance[p]
    <3>2. x \in Int /\ y \in Int /\ z \in Int /\ v \in Int /\ usd \in Nat  BY <2>5, <2>7
    <3>3. x >= z /\ x - z = y - v  BY <2>8
    <3>4. f[n].balance[p] = x + usd /\ g[n].balance[p] = y + usd  BY <2>5, <2>6
    <3> HIDE DEF x, y, z, v
    <3>5. x + usd >= z /\ (x + usd) - z = (y + usd) - v  BY <3>1, <3>2, <3>3
    <3>6. f[n].balance[p] >= z /\ f[n].balance[p] - z = g[n].balance[p] - v  BY <3>4, <3>5
    <3> QED  BY <3>6 DEF z, v
  <2>10. f[n] \in Books /\ g[n] \in Books /\ f[n].cap[p] = b.cap[p]  BY <2>5, <2>6, <2>8
  <2> QED  BY <2>9, <2>10
<1> HIDE DEF S, Good
<1>6. \A j \in Nat : j \in S  BY <1>4, <1>5, Naturally
<1>7. PICK j \in Nat : (from - 1) + j = Len(rows)
  <2>1. Len(rows) - (from - 1) \in Nat /\ (from - 1) + (Len(rows) - (from - 1)) = Len(rows)
    OBVIOUS
  <2> QED  BY <2>1
<1>8. j \in S /\ Len(rows) <= Len(rows)  BY <1>6
<1>9. Good(Len(rows))  BY <1>7, <1>8 DEF S
<1> QED  BY <1>1, <1>2, <1>9 DEF Good

(***************************************************************************)
(* Writing a row.                                                          *)
(***************************************************************************)

\* The whole lines are the first lines.
LEMMA WholeIs ==
  ASSUME TypeOK, FileInv
  PROVE  /\ Whole \in Seq(Lines) /\ Len(Whole) \in Nat /\ Len(journal) \in Nat
         /\ ~torn => Whole = journal
         /\ torn => Len(Whole) = Len(journal) - 1
         /\ Len(Whole) <= Len(journal)
         /\ \A i \in 1..Len(Whole) : Whole[i] = journal[i] /\ i \in 1..Len(journal)
<1>1. journal \in Seq(Lines) /\ Len(journal) \in Nat  BY DEF TypeOK
<1>2. CASE ~torn  BY <1>1, <1>2 DEF Whole
<1>3. CASE torn
  <2>1. Len(journal) > 0  BY <1>3 DEF FileInv
  <2>2. Whole = SubSeq(journal, 1, Len(journal) - 1)  BY <1>3 DEF Whole
  <2> DEFINE n == Len(journal) - 1
  <2>3. n \in Nat /\ n + 1 = Len(journal) /\ n <= Len(journal)  BY <1>1, <2>1
  <2>4. \A i \in 1..n : i \in 1..Len(journal)  BY <2>3, <1>1
  <2> HIDE DEF n
  <2>5. /\ SubSeq(journal, 1, n) \in Seq(Lines) /\ Len(SubSeq(journal, 1, n)) = n
        /\ \A i \in 1..n : SubSeq(journal, 1, n)[i] = journal[i]
    BY <1>1, <2>3
  <2>6. Whole = SubSeq(journal, 1, n)  BY <2>2 DEF n
  <2>7. n = Len(journal) - 1  BY DEF n
  <2> QED  BY <1>1, <1>3, <2>3, <2>4, <2>5, <2>6, <2>7
<1> QED  BY <1>2, <1>3 DEF TypeOK

\* A row behind a torn line changes no line but the torn one, which stays damaged.
LEMMA WrittenIs ==
  ASSUME TypeOK, FileInv, NEW row
  PROVE  /\ torn => Written(row) = journal
         /\ ~torn => Written(row) = Append(journal, row)
<1>1. CASE torn
  <2>1. /\ journal \in Seq(Lines) /\ Len(journal) \in Nat /\ Len(journal) > 0
        /\ journal[Len(journal)] = JUNK
    BY <1>1 DEF TypeOK, FileInv
  <2>2. [journal EXCEPT ![Len(journal)] = JUNK] = journal  BY <2>1
  <2> QED  BY <1>1, <2>2 DEF Written
<1>2. CASE ~torn  BY <1>2 DEF Written
<1> QED  BY <1>1, <1>2

\* Lines are only ever added, and the payers a fault excuses or spoils stay so.
Grows ==
  /\ Len(journal) <= Len(journal') /\ \A i \in 1..Len(journal) : journal'[i] = journal[i]
  /\ Len(Whole) <= Len(Whole') /\ \A i \in 1..Len(Whole) : Whole'[i] = Whole[i]
  /\ orphans \subseteq orphans'

\* The file's part of the types.
FileType ==
  /\ journal \in Seq(Lines) /\ torn \in BOOLEAN
  /\ torn => Len(journal) > 0 /\ journal[Len(journal)] = JUNK
  /\ orphans \subseteq 1..Len(journal)

\* The three things a write may do to the lines others read.
Kept == Whole' = Whole /\ orphans' = orphans
Adds(row) == Whole' = Append(Whole, row) /\ journal' = Whole'
Spoils == /\ ~Readable(1)' /\ torn /\ ~torn' /\ Whole' = journal /\ orphans' = orphans
          /\ journal' = journal

\* A row that another reader can see, or that completes a torn line.
LEMMA WriteIs ==
  ASSUME TypeOK, FileInv, NEW row \in Row, journal' = Written(row), torn' = FALSE,
         orphans \subseteq orphans', orphans' \subseteq orphans \cup {Len(journal')},
         torn => orphans' = orphans
  PROVE  /\ FileType' /\ Grows /\ Whole' = journal'
         /\ ~torn => Adds(row) /\ Len(Whole') = Len(Whole) + 1
         /\ torn => Spoils /\ Len(Whole') = Len(Whole) + 1
<1>1. /\ journal \in Seq(Lines) /\ Len(journal) \in Nat /\ row \in Lines
      /\ orphans \subseteq 1..Len(journal)
  BY DEF TypeOK, FileInv, Lines
<1>2. Whole' = journal'  BY DEF Whole
<1>3. CASE ~torn
  <2>1. Whole = journal  BY <1>3 DEF Whole
  <2>2. journal' = Append(journal, row)  BY <1>3, WrittenIs
  <2>3. /\ journal' \in Seq(Lines) /\ Len(journal') = Len(journal) + 1
        /\ \A i \in 1..Len(journal) : journal'[i] = journal[i]
    BY <1>1, <2>2
  <2>4. orphans' \subseteq 1..Len(journal')  BY <1>1, <2>3
  <2>5. FileType'  BY <2>3, <2>4 DEF FileType
  <2>6. Grows  BY <1>1, <1>2, <2>1, <2>3 DEF Grows
  <2>7. Adds(row) /\ Len(Whole') = Len(Whole) + 1  BY <1>2, <2>1, <2>2, <2>3 DEF Adds
  <2> QED  BY <1>2, <1>3, <2>5, <2>6, <2>7
<1>4. CASE torn
  <2>1. journal' = journal  BY <1>4, WrittenIs
  <2>2. /\ Len(Whole) = Len(journal) - 1 /\ Len(Whole) <= Len(journal)
        /\ \A i \in 1..Len(Whole) : Whole[i] = journal[i]
        /\ Len(journal) > 0 /\ journal[Len(journal)] = JUNK
    BY <1>4, WholeIs DEF FileInv
  <2>3. Len(journal) \in 1..Len(journal)  BY <1>1, <2>2
  <2>4. ~Readable(1)'  BY <1>2, <2>1, <2>2, <2>3 DEF Readable
  <2>5. FileType' /\ Grows
    <3>1. FileType'  BY <1>1, <1>4, <2>1, <2>2 DEF FileType
    <3>2. Len(Whole) <= Len(Whole') /\ \A i \in 1..Len(Whole) : Whole'[i] = Whole[i]
      BY <1>1, <1>2, <2>1, <2>2
    <3>3. Len(journal) <= Len(journal')  BY <1>1, <2>1
    <3> QED  BY <2>1, <3>1, <3>2, <3>3 DEF Grows
  <2>6. Len(Whole') = Len(Whole) + 1  BY <1>1, <1>2, <2>1, <2>2
  <2> QED  BY <1>2, <1>4, <2>1, <2>4, <2>5, <2>6 DEF Spoils
<1> QED  BY <1>3, <1>4 DEF TypeOK

\* A recorded row.
LEMMA RecordedIs ==
  ASSUME TypeOK, FileInv, NEW row \in Row, Recorded(row), orphans' = orphans
  PROVE  /\ FileType' /\ Grows /\ consumed' = Len(Whole') /\ consumed' \in Nat
         /\ \/ Adds(row) /\ ~torn
            \/ Spoils
<1>1. journal' = Written(row) /\ torn' = FALSE /\ consumed' = Len(journal')  BY DEF Recorded
<1>2. /\ FileType' /\ Grows /\ Whole' = journal'
      /\ ~torn => Adds(row)
      /\ torn => Spoils
  <2>1. orphans \subseteq orphans' /\ orphans' \subseteq orphans \cup {Len(journal')}  OBVIOUS
  <2> QED  BY <1>1, <2>1, WriteIs
<1>3. Len(journal') \in Nat  BY <1>2 DEF FileType
<1> QED  BY <1>1, <1>2, <1>3 DEF TypeOK

\* A line that breaks off is not read by anybody.
LEMMA TornIs ==
  ASSUME TypeOK, FileInv, journal' = (IF torn THEN journal ELSE Append(journal, JUNK)),
         torn' = TRUE, orphans' = orphans
  PROVE  FileType' /\ Grows /\ Kept
<1>1. /\ journal \in Seq(Lines) /\ Len(journal) \in Nat /\ JUNK \in Lines
      /\ orphans \subseteq 1..Len(journal)
  BY DEF TypeOK, FileInv, Lines
<1>2. CASE torn
  <2>1. journal' = journal /\ Whole' = Whole  BY <1>2 DEF Whole
  <2> QED  BY <1>1, <1>2, <2>1 DEF FileType, FileInv, Grows, Kept
<1>3. CASE ~torn
  <2>1. Whole = journal /\ journal' = Append(journal, JUNK)  BY <1>3 DEF Whole
  <2>2. /\ Len(journal') = Len(journal) + 1 /\ journal' \in Seq(Lines)
        /\ journal'[Len(journal')] = JUNK
        /\ \A i \in 1..Len(journal) : journal'[i] = journal[i]
    BY <1>1, <2>1
  <2>3. Whole' = SubSeq(journal', 1, Len(journal') - 1)  BY DEF Whole
  <2>4. Len(journal') - 1 = Len(journal)  BY <1>1, <2>2
  <2>5. Whole' = journal
    <3>1. SubSeq(Append(journal, JUNK), 1, Len(journal)) = journal
      <4> DEFINE cut == SubSeq(Append(journal, JUNK), 1, Len(journal))
      <4>1. /\ cut \in Seq(Lines) /\ Len(cut) = Len(journal)
            /\ \A i \in 1..Len(journal) : cut[i] = journal[i]
        BY <1>1
      <4> HIDE DEF cut
      <4>2. cut = journal  BY <1>1, <4>1
      <4> QED  BY <4>2 DEF cut
    <3> QED  BY <2>1, <2>3, <2>4, <3>1
  <2> QED  BY <1>1, <2>1, <2>2, <2>5 DEF FileType, Grows, Kept
<1> QED  BY <1>2, <1>3 DEF TypeOK

\* A row the disk refused: nobody sees it, everybody but this process does, or the file is spoilt.
LEMMA UnrecordedIs ==
  ASSUME TypeOK, FileInv, NEW row \in Row, NEW mark, Unrecorded(row, mark)
  PROVE  /\ FileType' /\ Grows /\ consumed' = mark /\ Len(Whole) <= Len(Whole')
         /\ \/ Kept
            \/ Adds(row) /\ ~torn /\ orphans' = orphans \cup {Len(Whole')}
            \/ Spoils
<1>0. Len(Whole) \in Nat /\ Len(Whole) <= Len(Whole)  BY WholeIs
<1>1. CASE UNCHANGED <<journal, torn, orphans>>
  <2>1. Kept /\ Grows  BY <1>0, <1>1, WholeIs DEF Kept, Grows, Whole
  <2>2. FileType'  BY <1>1 DEF FileType, TypeOK, FileInv
  <2> QED  BY <2>1, <2>2 DEF Unrecorded, Grows
<1>2. CASE /\ journal' = IF torn THEN journal ELSE Append(journal, JUNK)
           /\ torn' = TRUE
           /\ UNCHANGED orphans
  <2>1. FileType' /\ Grows /\ Kept  BY <1>2, TornIs
  <2> QED  BY <2>1 DEF Unrecorded, Grows
<1>3. CASE /\ journal' = Written(row)
           /\ torn' = FALSE
           /\ orphans' = IF torn THEN orphans ELSE orphans \cup {Len(journal')}
  <2>1. orphans \subseteq orphans' /\ orphans' \subseteq orphans \cup {Len(journal')}
        /\ (torn => orphans' = orphans)
    BY <1>3
  <2>2. /\ FileType' /\ Grows /\ Whole' = journal'
        /\ ~torn => Adds(row)
        /\ torn => Spoils
    BY <1>3, <2>1, WriteIs
  <2> QED  BY <1>3, <2>2 DEF Unrecorded, Grows, TypeOK
<1> QED  BY <1>1, <1>2, <1>3 DEF Unrecorded

\* What parses now parsed before, and who is unspoilt now was.
LEMMA BeforeIs ==
  ASSUME TypeOK, FileInv, Grows
  PROVE  /\ Readable(1)' => Readable(1)
         /\ \A p \in Payers : Unspoilt(p)' => Unspoilt(p)
<1>1. ASSUME Readable(1)' PROVE Readable(1)
  <2>1. SUFFICES ASSUME NEW i \in 1..Len(Whole) PROVE Whole[i] # JUNK  BY DEF Readable
  <2>2. Len(Whole) \in Nat /\ Len(Whole) <= Len(Whole') /\ Whole'[i] = Whole[i]
    BY WholeIs DEF Grows
  <2> QED
    BY <1>1, <2>2 DEF Readable
<1>2. ASSUME NEW p \in Payers, Unspoilt(p)' PROVE Unspoilt(p)
  <2>1. SUFFICES ASSUME NEW i \in Orphans(p, Ops) PROVE FALSE  BY DEF Unspoilt
  <2>2. i \in orphans /\ journal[i] # JUNK /\ journal[i].payer = p /\ journal[i].op \in Ops
    BY DEF Orphans
  <2>3. i \in orphans' /\ journal'[i] = journal[i]
    BY <2>2 DEF Grows, FileInv
  <2>4. i \in Orphans(p, Ops)'  BY <2>2, <2>3 DEF Orphans
  <2> QED  BY <1>2, <2>4 DEF Unspoilt
<1> QED  BY <1>1, <1>2

\* Of an unspoilt payer, the rows not accounted for are credits.
LEMMA TailIsCredits ==
  ASSUME TypeOK, FileInv, TailInv, up, NEW p \in Payers, Unspoilt(p),
         NEW i \in consumed + 1..Len(Whole), Whole[i] # JUNK
  PROVE  Whole[i] \in Row /\ (Whole[i].payer = p => Whole[i].op = "credit")
<1>1. /\ i \in 1..Len(Whole) /\ Whole \in Seq(Lines) /\ Whole[i] = journal[i]
  BY WholeIs DEF TypeOK
<1>2. Whole[i] \in Row  BY <1>1 DEF Lines
<1>3. Whole[i].op \in Ops  BY <1>2 DEF Row
<1>4. Whole[i].op = "credit" \/ i \in orphans  BY DEF TailInv
<1>5. ASSUME Whole[i].payer = p, i \in orphans PROVE FALSE
  BY <1>1, <1>3, <1>5 DEF Unspoilt, Orphans
<1> QED  BY <1>2, <1>4, <1>5

\* What every step does to the file.
FileStays == /\ FileInv' /\ TailInv' /\ Grows
             /\ journal' \in Seq(Lines) /\ torn' \in BOOLEAN
             /\ consumed' \in Nat /\ opened' \in Nat

\* A row this gateway recorded leaves nothing unaccounted for.
LEMMA RecordedKeepsFile ==
  ASSUME TypeOK, FileInv, NEW row \in Row, Recorded(row), orphans' = orphans, opened' = opened
  PROVE  FileStays
<1>1. FileType' /\ Grows /\ consumed' = Len(Whole') /\ consumed' \in Nat  BY RecordedIs
<1>2. opened' <= Len(Whole') /\ consumed' <= Len(Whole')
  <2>1. Len(Whole) \in Nat /\ opened <= Len(Whole) /\ opened \in Nat  BY WholeIs DEF FileInv, TypeOK
  <2> QED  BY <1>1, <2>1 DEF Grows
<1>3. \A i \in consumed' + 1..Len(Whole') : FALSE  BY <1>1
<1> QED  BY <1>1, <1>2, <1>3 DEF FileType, FileInv, TailInv, FileStays, TypeOK

\* A row the disk refused joins the rows not accounted for as an orphan, or as damage.
LEMMA UnrecordedKeepsFile ==
  ASSUME TypeOK, FileInv, TailInv, up, NEW row \in Row, NEW mark \in Nat,
         consumed <= mark, mark <= Len(Whole), Unrecorded(row, mark), opened' = opened
  PROVE  FileStays
<1>0. Len(Whole) \in Nat /\ opened \in Nat /\ opened <= Len(Whole) /\ consumed \in Nat
      /\ Len(Whole) <= Len(journal) /\ Len(journal) \in Nat
  BY WholeIs DEF FileInv, TypeOK
<1>1. FileType' /\ Grows /\ consumed' = mark  BY UnrecordedIs
<1>2. Len(Whole') \in Nat /\ Len(Whole) <= Len(Whole') /\ (Kept \/ Len(Whole') = Len(Whole) + 1)
      /\ (~Kept => \/ Len(Whole') \in orphans'
                   \/ Whole'[Len(Whole')] = JUNK)
  <2>1. CASE Kept  BY <1>0, <2>1 DEF Kept
  <2>2. CASE Adds(row) /\ orphans' = orphans \cup {Len(Whole')}
    <3>1. Whole' = Append(Whole, row) /\ Whole \in Seq(Lines)  BY <2>2, WholeIs DEF Adds
    <3> QED  BY <1>0, <2>2, <3>1
  <2>3. CASE Spoils
    <3>1. /\ Whole' = journal /\ Len(Whole) = Len(journal) - 1
          /\ journal[Len(journal)] = JUNK
      BY <2>3, WholeIs DEF Spoils, FileInv
    <3> QED  BY <1>0, <3>1
  <2> QED  BY <2>1, <2>2, <2>3, UnrecordedIs
<1>3. opened' <= Len(Whole') /\ consumed' <= Len(Whole')  BY <1>0, <1>1, <1>2
<1>4. ASSUME NEW i \in consumed' + 1..Len(Whole')
      PROVE  Whole'[i] = JUNK \/ Whole'[i].op = "credit" \/ i \in orphans'
  <2>1. CASE i \in consumed + 1..Len(Whole)
    <3>1. i \in 1..Len(Whole)  BY <1>0, <2>1
    <3>2. Whole'[i] = Whole[i] /\ (i \in orphans => i \in orphans')  BY <1>1, <3>1 DEF Grows
    <3> QED  BY <2>1, <3>2 DEF TailInv
  <2>2. CASE i \notin consumed + 1..Len(Whole)
    <3>1. ~Kept /\ i = Len(Whole')
      <4>1. i \in Int /\ consumed' + 1 <= i /\ i <= Len(Whole')  BY <1>0, <1>1, <1>2
      <4>2. ~(i <= Len(Whole))  BY <1>0, <1>1, <2>2, <4>1
      <4>3. ~Kept  BY <4>1, <4>2 DEF Kept
      <4> QED  BY <1>0, <1>2, <4>1, <4>2, <4>3
    <3> QED  BY <1>2, <3>1
  <2> QED  BY <2>1, <2>2
<1> QED  BY <1>0, <1>1, <1>3, <1>4 DEF FileType, FileInv, TailInv, FileStays

\* The rows the gateway and the owner's tool write.
DebitRow(c, dollars) ==
  [payer |-> PayerOf[c], op |-> "debit", usd |-> dollars, model |-> calls[c].model, window |-> 0]
ReplayRow(c) ==
  [payer |-> PayerOf[c], op |-> "replay", usd |-> calls[c].dollars, model |-> calls[c].model, window |-> 0]
CapRow(p, w, usd) == [payer |-> p, op |-> "cap", usd |-> usd, model |-> NONE, window |-> w]
CreditRow(p, usd) == [payer |-> p, op |-> "credit", usd |-> usd, model |-> NONE, window |-> 0]

\* They are rows.
LEMMA RowsAreRows ==
  ASSUME TypeOK
  PROVE  /\ \A c \in Callers : PayerOf[c] \in Payers /\ calls[c] \in Calls
         /\ \A c \in Callers, d \in Costs : calls[c].at # "idle" => DebitRow(c, d) \in Row
         /\ \A c \in Callers : calls[c].at # "idle" => ReplayRow(c) \in Row
         /\ \A p \in Payers, w \in 1..MaxWindow, usd \in Amounts : CapRow(p, w, usd) \in Row
         /\ \A p \in Payers, usd \in Amounts : CreditRow(p, usd) \in Row
<1>1. MaxWindow \in Nat /\ Costs \subseteq Nat /\ Amounts \subseteq Nat
      /\ PayerOf \in [Callers -> Payers]
  BY GatewayAssumption
<1>2. \A c \in Callers : /\ PayerOf[c] \in Payers /\ calls[c] \in Calls
                         /\ calls[c].dollars \in Nat
                         /\ calls[c].at # "idle" => calls[c].model \in Models
  <2>1. \A c \in Callers : calls[c] \in Calls  BY DEF TypeOK, CallsType
  <2>2. \A c \in Callers : calls[c].dollars \in Costs \cup {0}  BY <2>1 DEF Calls
  <2>3. \A c \in Callers : PayerOf[c] \in Payers  BY <1>1
  <2>4. \A c \in Callers : calls[c].dollars \in Nat
    <3>1. \A d \in Costs \cup {0} : d \in Nat  BY MaxCostIs
    <3> HIDE <1>1
    <3> QED  BY <2>2, <3>1
  <2>5. \A c \in Callers : calls[c].at # "idle" => calls[c].model \in Models  BY DEF TypeOK, CallsType
  <2> QED  BY <2>1, <2>3, <2>4, <2>5
<1>3. 0 \in 0..MaxWindow /\ \A w \in 1..MaxWindow : w \in 0..MaxWindow  BY <1>1
<1>4. /\ \A c \in Callers, d \in Costs : calls[c].at # "idle" => DebitRow(c, d) \in Row
      /\ \A c \in Callers : calls[c].at # "idle" => ReplayRow(c) \in Row
  BY <1>1, <1>2, <1>3 DEF DebitRow, ReplayRow, Row, Ops
<1>5. /\ \A p \in Payers, w \in 1..MaxWindow, usd \in Amounts : CapRow(p, w, usd) \in Row
      /\ \A p \in Payers, usd \in Amounts : CreditRow(p, usd) \in Row
  BY <1>1, <1>3 DEF CapRow, CreditRow, Row, Ops
<1> QED  BY <1>2, <1>4, <1>5

\* Only a live gateway has a call to make.
LEMMA CallIsLive ==
  ASSUME DownInv, NEW c \in Callers, calls[c].at # "idle"
  PROVE  up
BY DEF DownInv, Idle

\* A step that leaves the file and what is accounted for alone.
LEMMA QuietKeepsFile ==
  ASSUME TypeOK, FileInv, TailInv, UNCHANGED <<file, opened, orphans, up>>
  PROVE  FileStays
<1>1. Whole' = Whole  BY DEF Whole, file
<1>2. Len(Whole) \in Nat /\ Len(journal) \in Nat  BY WholeIs
<1>3. Grows  BY <1>1, <1>2 DEF Grows, file
<1> QED  BY <1>1, <1>3 DEF FileInv, TailInv, FileStays, TypeOK, file

\* Every step keeps the file's part of the invariant.
LEMMA FileStep ==
  ASSUME TypeOK, FileInv, TailInv, DownInv, [Next]_vars
  PROVE  FileStays
<1>0. /\ Len(Whole) \in Nat /\ Len(Whole) <= Len(Whole) /\ opened \in Nat /\ opened <= Len(Whole)
      /\ consumed \in Nat /\ consumed <= Len(Whole) /\ consumed <= consumed
      /\ Len(journal) \in Nat /\ Len(Whole) <= Len(journal)
  BY WholeIs DEF FileInv, TypeOK
<1>1. ASSUME NEW c \in Callers, NEW dollars \in Costs, Settle(c, dollars)
      PROVE  FileStays
  <2>1. DebitRow(c, dollars) \in Row /\ opened' = opened /\ up
    BY <1>1, RowsAreRows, CallIsLive DEF Settle, ledgers
  <2>2. CASE Recorded(DebitRow(c, dollars)) /\ orphans' = orphans
    BY <2>1, <2>2, RecordedKeepsFile, RecordedIs
  <2>3. CASE Unrecorded(DebitRow(c, dollars), consumed)
    BY <1>0, <2>1, <2>3, UnrecordedKeepsFile, UnrecordedIs
  <2> QED  BY <1>1, <2>2, <2>3 DEF Settle, DebitRow
<1>2. ASSUME NEW c \in Callers, Replay(c)
      PROVE  FileStays
  <2>1. ReplayRow(c) \in Row /\ opened' = opened /\ up
    BY <1>2, RowsAreRows, CallIsLive DEF Replay, GoesAhead, ledgers
  <2>2. CASE Recorded(ReplayRow(c)) /\ orphans' = orphans
    BY <2>1, <2>2, RecordedKeepsFile, RecordedIs
  <2>3. CASE Unrecorded(ReplayRow(c), consumed)
    BY <1>0, <2>1, <2>3, UnrecordedKeepsFile, UnrecordedIs
  <2> QED  BY <1>2, <2>2, <2>3 DEF Replay, ReplayRow
<1>3. ASSUME Refresh PROVE FileStays
  <2>1. /\ UNCHANGED <<journal, torn, opened, orphans, up>> /\ Whole' = Whole
        /\ consumed' = Len(Whole)
    BY <1>3 DEF Refresh, ledgers, ghosts, bounds, Whole
  <2>2. Grows  BY <1>0, <2>1 DEF Grows
  <2>3. \A i \in consumed' + 1..Len(Whole') : FALSE  BY <1>0, <2>1
  <2> QED  BY <1>0, <2>1, <2>2, <2>3 DEF FileInv, TailInv, FileStays, TypeOK
<1>4. ASSUME NEW p \in Payers, NEW w \in 1..MaxWindow, NEW usd \in Amounts, Bind(p, w, usd)
      PROVE  FileStays
  <2>1. CapRow(p, w, usd) \in Row /\ opened' = opened /\ up
    BY <1>4, RowsAreRows DEF Bind, ledgers
  <2>2. CASE NewCap(p, w) /\ Recorded(CapRow(p, w, usd)) /\ orphans' = orphans
    BY <2>1, <2>2, RecordedKeepsFile, RecordedIs
  <2>3. CASE NewCap(p, w) /\ Unrecorded(CapRow(p, w, usd), Len(Whole))
    BY <1>0, <2>1, <2>3, UnrecordedKeepsFile, UnrecordedIs
  <2>4. CASE ~NewCap(p, w)
    <3>1. /\ UNCHANGED <<journal, torn, opened, orphans, up>> /\ Whole' = Whole
          /\ consumed' = Len(Whole)
      BY <1>4, <2>4 DEF Bind, ledgers, ghosts, Whole
    <3>2. Grows  BY <1>0, <3>1 DEF Grows
    <3>3. \A i \in consumed' + 1..Len(Whole') : FALSE  BY <1>0, <3>1
    <3> QED  BY <1>0, <3>1, <3>2, <3>3 DEF FileInv, TailInv, FileStays, TypeOK
  <2> QED  BY <1>4, <2>2, <2>3, <2>4 DEF Bind, CapRow, ghosts
<1>5. ASSUME NEW p \in Payers, NEW usd \in Amounts, Credit(p, usd)
      PROVE  FileStays
  <2> DEFINE row == CreditRow(p, usd)
  <2>1. /\ row \in Row /\ row.op = "credit" /\ UNCHANGED <<opened, consumed, up, orphans>>
        /\ journal' = Written(row) /\ torn' = FALSE
    BY <1>5, RowsAreRows DEF Credit, ledgers, ghosts, CreditRow
  <2> HIDE DEF row
  <2>2. /\ FileType' /\ Grows /\ Len(Whole') = Len(Whole) + 1
        /\ ~torn => Adds(row)
        /\ torn => Spoils
    <3>1. orphans \subseteq orphans' /\ orphans' \subseteq orphans \cup {Len(journal')}  BY <2>1
    <3> QED  BY <2>1, <3>1, WriteIs DEF TypeOK
  <2>3. Whole'[Len(Whole')] = JUNK \/ Whole'[Len(Whole')].op = "credit"
    <3>1. CASE ~torn
      <4>1. Whole' = Append(Whole, row) /\ Whole \in Seq(Lines)  BY <2>2, <3>1, WholeIs DEF Adds
      <4> QED  BY <1>0, <2>1, <2>2, <4>1
    <3>2. CASE torn
      <4>1. Whole' = journal /\ Len(Whole) = Len(journal) - 1 /\ journal[Len(journal)] = JUNK
        BY <2>2, <3>2, WholeIs DEF Spoils, FileInv
      <4> QED  BY <1>0, <4>1
    <3> QED  BY <3>1, <3>2
  <2>4. ASSUME up, NEW i \in consumed + 1..Len(Whole')
        PROVE  Whole'[i] = JUNK \/ Whole'[i].op = "credit" \/ i \in orphans
    <3>1. CASE i \in 1..Len(Whole)
      <4>1. i \in consumed + 1..Len(Whole) /\ Whole'[i] = Whole[i]
        BY <1>0, <2>2, <3>1 DEF Grows
      <4> QED  BY <2>4, <4>1 DEF TailInv
    <3>2. CASE i \notin 1..Len(Whole)
      <4>1. i = Len(Whole')  BY <1>0, <2>2, <3>2
      <4> QED  BY <2>3, <4>1
    <3> QED  BY <3>1, <3>2
  <2>5. TailInv'  BY <2>1, <2>4 DEF TailInv
  <2>6. opened <= Len(Whole') /\ consumed <= Len(Whole')  BY <1>0, <2>2
  <2> QED  BY <2>1, <2>2, <2>5, <2>6 DEF FileType, FileInv, FileStays, TypeOK
<1>6. ASSUME Crash PROVE FileStays
  <2>1. orphans' = orphans /\ consumed' = 0 /\ opened' = 0 /\ ~up'  BY <1>6 DEF Crash, ghosts
  <2>2. FileType' /\ Grows /\ Kept
    <3>1. CASE UNCHANGED <<journal, torn>>
      <4>1. Whole' = Whole  BY <3>1 DEF Whole
      <4> QED  BY <1>0, <2>1, <3>1, <4>1 DEF FileType, Grows, Kept, TypeOK, FileInv
    <3>2. CASE journal' = (IF torn THEN journal ELSE Append(journal, JUNK)) /\ torn' = TRUE
      BY <2>1, <3>2, TornIs
    <3> QED  BY <1>6, <3>1, <3>2 DEF Crash
  <2>3. 0 <= Len(Whole')  BY <1>0, <2>2 DEF Kept
  <2> QED  BY <2>1, <2>2, <2>3 DEF FileType, FileInv, TailInv, FileStays
<1>7. ASSUME Restart PROVE FileStays
  <2>1. /\ UNCHANGED <<journal, torn, orphans>> /\ Whole' = Whole
        /\ consumed' = Len(Whole) /\ opened' = Len(Whole)
    BY <1>7 DEF Restart, ghosts, Whole
  <2>2. Grows  BY <1>0, <2>1 DEF Grows
  <2>3. \A i \in consumed' + 1..Len(Whole') : FALSE  BY <1>0, <2>1
  <2> QED  BY <1>0, <2>1, <2>2, <2>3 DEF FileInv, TailInv, FileStays, TypeOK
<1>8. CASE UNCHANGED vars
  <2>1. UNCHANGED <<file, opened, orphans, up>>  BY <1>8 DEF vars, ledgers, ghosts, bounds
  <2> QED  BY <2>1, QuietKeepsFile
<1>9. ASSUME NEW c \in Callers,
             \/ Ask(c) \/ Expire(c) \/ RefuseClosed(c) \/ RefuseUnfunded(c) \/ RefuseCongested(c)
             \/ Wait(c) \/ Reserve(c) \/ Mint(c) \/ Unpriced(c)
      PROVE  FileStays
  <2>1. UNCHANGED <<file, opened, orphans, up>>
    BY <1>9 DEF Ask, Expire, RefuseClosed, RefuseUnfunded, RefuseCongested, Wait, Reserve, Mint,
                Unpriced, ledgers, ghosts, bounds
  <2> QED  BY <2>1, QuietKeepsFile
<1>10. ASSUME RefreshRaises \/ \E p \in Payers : Close(p) PROVE FileStays
  <2>1. UNCHANGED <<file, opened, orphans, up>>
    BY <1>10 DEF RefreshRaises, Close, ledgers, ghosts, bounds
  <2> QED  BY <2>1, QuietKeepsFile
<1> QED  BY <1>1, <1>2, <1>3, <1>4, <1>5, <1>6, <1>7, <1>8, <1>9, <1>10 DEF Next, Proceed, ProviderFails, KeyRefused

(***************************************************************************)
(* Calls.                                                                  *)
(***************************************************************************)

\* A caller's call goes on in flight, or on to its receipt, as it was.
StillFlies(d) ==
  /\ calls'[d].at = "provider" <=> calls[d].at = "provider"
  /\ calls[d].at = "provider" => calls'[d].held = calls[d].held /\ calls'[d].short = calls[d].short
StillMints(d) ==
  /\ calls'[d].at = "minting" <=> calls[d].at = "minting"
  /\ calls[d].at = "minting" => calls'[d].dollars = calls[d].dollars

\* Waking the waiters changes where they are, nothing else.
LEMMA WakeIs ==
  ASSUME NEW cs \in [Callers -> Calls]
  PROVE  /\ WakeAll(cs) \in [Callers -> Calls]
         /\ \A c \in Callers :
              /\ WakeAll(cs)[c].held = cs[c].held /\ WakeAll(cs)[c].short = cs[c].short
              /\ WakeAll(cs)[c].dollars = cs[c].dollars /\ WakeAll(cs)[c].model = cs[c].model
              /\ \A at \in {"idle", "provider", "minting"} : WakeAll(cs)[c].at = at <=> cs[c].at = at
<1>1. \A d \in Callers : cs[d] \in Calls  OBVIOUS
<1>2. \A d \in Callers : [cs[d] EXCEPT !.at = "asking"] \in Calls  BY <1>1 DEF Calls, Stages
<1>3. WakeAll(cs) \in [Callers -> Calls]  BY <1>1, <1>2 DEF WakeAll
<1> SUFFICES ASSUME NEW c \in Callers
             PROVE  /\ WakeAll(cs)[c].held = cs[c].held /\ WakeAll(cs)[c].short = cs[c].short
                    /\ WakeAll(cs)[c].dollars = cs[c].dollars /\ WakeAll(cs)[c].model = cs[c].model
                    /\ \A at \in {"idle", "provider", "minting"} :
                         WakeAll(cs)[c].at = at <=> cs[c].at = at
  BY <1>3
<1>4. WakeAll(cs)[c] = IF cs[c].at = "waiting" THEN [cs[c] EXCEPT !.at = "asking"] ELSE cs[c]
  BY DEF WakeAll
<1>5. cs[c] \in Calls  OBVIOUS
<1>6. CASE cs[c].at = "waiting"
  <2>1. WakeAll(cs)[c] = [cs[c] EXCEPT !.at = "asking"]  BY <1>4, <1>6
  <2> QED  BY <1>3, <1>5, <1>6, <2>1 DEF Calls
<1>7. CASE cs[c].at # "waiting"  BY <1>3, <1>4, <1>7
<1> QED  BY <1>6, <1>7

\* An idle call is one.
LEMMA IdleIs == Idle \in Calls /\ Idle.at = "idle" /\ Idle.held = 0
BY DEF Idle, Calls, Stages

\* Every call goes on as it was.
LEMMA QuietCalls ==
  ASSUME TypeOK,
         \/ UNCHANGED calls
         \/ calls' = WakeAll(calls)
         \/ \E c \in Callers : calls[c].at \in {"asking", "waiting"} /\ calls' = [calls EXCEPT ![c] = Idle]
         \/ \E c \in Callers : /\ calls[c].at \in {"asking", "waiting"}
                               /\ calls' = WakeAll([calls EXCEPT ![c] = Idle])
         \/ \E c \in Callers : Ask(c) \/ Wait(c) \/ Expire(c)
  PROVE  CallsType' /\ \A d \in Callers : StillFlies(d) /\ StillMints(d)
<1>0. calls \in [Callers -> Calls] /\ \A c \in Callers : calls[c].at # "idle" => calls[c].model \in Models
  BY DEF TypeOK, CallsType
<1>1. CASE UNCHANGED calls  BY <1>0, <1>1 DEF CallsType, StillFlies, StillMints
<1>2. CASE calls' = WakeAll(calls)
  <2>1. \A d \in Callers :
          /\ calls'[d].held = calls[d].held /\ calls'[d].short = calls[d].short
          /\ calls'[d].dollars = calls[d].dollars /\ calls'[d].model = calls[d].model
          /\ \A at \in {"idle", "provider", "minting"} : calls'[d].at = at <=> calls[d].at = at
    BY <1>0, <1>2, WakeIs
  <2>2. calls' \in [Callers -> Calls]  BY <1>0, <1>2, WakeIs
  <2> QED  BY <1>0, <2>1, <2>2 DEF CallsType, StillFlies, StillMints
<1>3. ASSUME NEW c \in Callers, calls[c].at \in {"asking", "waiting"}, calls' = [calls EXCEPT ![c] = Idle]
      PROVE  CallsType' /\ \A d \in Callers : StillFlies(d) /\ StillMints(d)
  BY <1>0, <1>3, IdleIs DEF CallsType, StillFlies, StillMints
<1>4. ASSUME NEW c \in Callers, calls[c].at \in {"asking", "waiting"},
             calls' = WakeAll([calls EXCEPT ![c] = Idle])
      PROVE  CallsType' /\ \A d \in Callers : StillFlies(d) /\ StillMints(d)
  <2> DEFINE cs == [calls EXCEPT ![c] = Idle]
  <2>1. /\ cs \in [Callers -> Calls] /\ cs[c].at = "idle"
        /\ \A d \in Callers \ {c} : cs[d] = calls[d]
    BY <1>0, IdleIs
  <2>3. calls' = WakeAll(cs)  BY <1>4
  <2> HIDE DEF cs
  <2>2. \A d \in Callers :
          /\ calls'[d].held = cs[d].held /\ calls'[d].short = cs[d].short
          /\ calls'[d].dollars = cs[d].dollars /\ calls'[d].model = cs[d].model
          /\ \A at \in {"idle", "provider", "minting"} : calls'[d].at = at <=> cs[d].at = at
    BY <2>1, <2>3, WakeIs
  <2>4. calls' \in [Callers -> Calls]  BY <2>1, <2>3, WakeIs
  <2>5. ASSUME NEW d \in Callers
        PROVE  /\ calls'[d].at # "idle" => calls'[d].model \in Models
               /\ StillFlies(d) /\ StillMints(d)
    <3>1. CASE d = c  BY <1>4, <2>1, <2>2, <3>1 DEF StillFlies, StillMints
    <3>2. CASE d # c
      <4>1. cs[d] = calls[d]  BY <2>1, <3>2
      <4> QED  BY <1>0, <2>2, <4>1 DEF StillFlies, StillMints
    <3> QED  BY <3>1, <3>2
  <2> QED  BY <2>4, <2>5 DEF CallsType
<1>5. ASSUME NEW c \in Callers, Ask(c)
      PROVE  CallsType' /\ \A d \in Callers : StillFlies(d) /\ StillMints(d)
  <2>1. calls[c].at = "idle"  BY <1>5 DEF Ask
  <2>2. PICK x : calls' = [calls EXCEPT ![c] = x] /\ x \in Calls /\ x.model \in Models /\ x.at = "asking"
    <3>1. PICK m \in Models :
            \/ calls' = [calls EXCEPT ![c] = [Idle EXCEPT !.at = "asking", !.model = m]]
            \/ \E d \in Costs :
                 calls' = [calls EXCEPT ![c] = [Idle EXCEPT !.at = "asking", !.model = m,
                                                            !.replay = TRUE, !.dollars = d]]
      BY <1>5 DEF Ask
    <3>2. [Idle EXCEPT !.at = "asking", !.model = m] \in Calls
      BY DEF Idle, Calls, Stages
    <3>3. \A d \in Costs : [Idle EXCEPT !.at = "asking", !.model = m, !.replay = TRUE, !.dollars = d] \in Calls
      BY DEF Idle, Calls, Stages
    <3>4. \A x : /\ [Idle EXCEPT !.at = "asking", !.model = m].at = "asking"
                 /\ [Idle EXCEPT !.at = "asking", !.model = m].model = m
                 /\ [Idle EXCEPT !.at = "asking", !.model = m, !.replay = TRUE, !.dollars = x].at = "asking"
                 /\ [Idle EXCEPT !.at = "asking", !.model = m, !.replay = TRUE, !.dollars = x].model = m
      BY DEF Idle
    <3>5. CASE calls' = [calls EXCEPT ![c] = [Idle EXCEPT !.at = "asking", !.model = m]]
      BY <3>2, <3>4, <3>5
    <3>6. ASSUME NEW d \in Costs,
                 calls' = [calls EXCEPT ![c] = [Idle EXCEPT !.at = "asking", !.model = m,
                                                            !.replay = TRUE, !.dollars = d]]
          PROVE  \E x : calls' = [calls EXCEPT ![c] = x] /\ x \in Calls /\ x.model \in Models /\ x.at = "asking"
      <4> DEFINE x == [Idle EXCEPT !.at = "asking", !.model = m, !.replay = TRUE, !.dollars = d]
      <4>1. x \in Calls /\ x.at = "asking" /\ x.model = m  BY <3>3, <3>4
      <4>2. calls' = [calls EXCEPT ![c] = x]  BY <3>6
      <4> HIDE DEF x
      <4> QED  BY <4>1, <4>2
    <3> QED  BY <3>1, <3>5, <3>6
  <2> QED  BY <1>0, <2>1, <2>2 DEF CallsType, StillFlies, StillMints
<1>6. ASSUME NEW c \in Callers, Wait(c)
      PROVE  CallsType' /\ \A d \in Callers : StillFlies(d) /\ StillMints(d)
  <2>1. calls[c].at = "asking" /\ calls' = [calls EXCEPT ![c].at = "waiting"]  BY <1>6 DEF Wait
  <2>2. [calls[c] EXCEPT !.at = "waiting"] \in Calls  BY <1>0 DEF Calls, Stages
  <2> QED  BY <1>0, <2>1, <2>2 DEF CallsType, StillFlies, StillMints
<1>7. ASSUME NEW c \in Callers, Expire(c)
      PROVE  CallsType' /\ \A d \in Callers : StillFlies(d) /\ StillMints(d)
  <2> DEFINE x == [calls[c] EXCEPT !.at = "asking", !.expired = TRUE]
  <2>1. calls[c].at = "waiting" /\ calls' = [calls EXCEPT ![c] = x]  BY <1>0, <1>7 DEF Expire
  <2>2. x \in Calls /\ x.at = "asking" /\ x.model = calls[c].model  BY <1>0 DEF Calls, Stages
  <2> HIDE DEF x
  <2> QED  BY <1>0, <2>1, <2>2 DEF CallsType, StillFlies, StillMints
<1> QED  BY <1>1, <1>2, <1>3, <1>4, <1>5, <1>6, <1>7

\* What a call holds when it goes to its provider: no more than is free, and less than it may cost
\* only when nobody else of its payer does.
LEMMA ReserveIs ==
  ASSUME TypeOK, NEW c \in Callers, Reserve(c)
  PROVE  /\ CallsType' /\ calls[c].at = "asking" /\ calls'[c].at = "provider"
         /\ \A d \in Callers : (d # c => StillFlies(d)) /\ StillMints(d)
         /\ PayerOf[c] \in Payers
         /\ calls'[c].held \in Nat /\ Free(c) \in Int /\ Free(c) > 0 /\ calls'[c].held <= Free(c)
         /\ calls'[c].short => calls'[c].held > 0 /\ short[PayerOf[c]] = 0
         /\ book' = [book EXCEPT !.balance[PayerOf[c]] = @ - calls'[c].held]
         /\ held' = [held EXCEPT ![PayerOf[c]] = @ + calls'[c].held]
         /\ holding' = IF calls'[c].held > 0 THEN [holding EXCEPT ![PayerOf[c]] = @ + 1] ELSE holding
         /\ short' = IF calls'[c].short THEN [short EXCEPT ![PayerOf[c]] = @ + 1] ELSE short
<1> DEFINE p == PayerOf[c]
           hold == IF UnderReserved(c) THEN Free(c) ELSE Known(c)
<1>0. calls \in [Callers -> Calls] /\ \A d \in Callers : calls[d].at # "idle" => calls[d].model \in Models
  BY DEF TypeOK, CallsType
<1>1. calls[c].at = "asking" /\ ~calls[c].replay /\ ~AwaitsMoney(c)
  BY DEF Reserve, GoesAhead
<1>2. p \in Payers /\ Free(c) \in Int
  <2>1. p \in Payers  BY GatewayAssumption
  <2> QED  BY <2>1 DEF Free, TypeOK, Books
<1>3. Known(c) \in Nat \cup {NONE}
  <2>1. calls[c].model \in Models  BY <1>0, <1>1
  <2> QED  BY <2>1 DEF Known, TypeOK, Books
<1>4. UnderReserved(c) \in BOOLEAN
  <2>1. CASE Known(c) = NONE  BY <2>1 DEF UnderReserved
  <2>2. CASE Known(c) # NONE
    <3>1. UnderReserved(c) = (Free(c) < Known(c))  BY <2>2 DEF UnderReserved
    <3> QED  BY <3>1
  <2> QED  BY <2>1, <2>2
<1>5. Free(c) > 0 /\ ~(short[p] > 0 /\ UnderReserved(c))
  BY <1>1, <1>2 DEF AwaitsMoney
<1>6. ~UnderReserved(c) => Known(c) \in Nat /\ Known(c) <= Free(c)
  BY <1>2, <1>3 DEF UnderReserved
<1>7. hold \in Nat /\ hold <= Free(c) /\ (UnderReserved(c) => hold > 0 /\ short[p] = 0)
  <2>1. short[p] \in {0, 1}  BY <1>2 DEF TypeOK
  <2> QED  BY <1>2, <1>5, <1>6, <2>1
<1> DEFINE x == [calls[c] EXCEPT !.at = "provider", !.held = hold, !.short = UnderReserved(c),
                                 !.owns = OwnsProbe(c)]
<1>8. calls' = [calls EXCEPT ![c] = x]  BY <1>0 DEF Reserve
<1>9. OwnsProbe(c) \in BOOLEAN  BY DEF OwnsProbe
<1>10. x \in Calls /\ x.at = "provider" /\ x.model = calls[c].model /\ x.held = hold
       /\ x.short = UnderReserved(c)
  <2> HIDE DEF hold
  <2> QED  BY <1>0, <1>4, <1>7, <1>9 DEF Calls, Stages
<1>11. /\ book' = [book EXCEPT !.balance[p] = @ - hold]
       /\ held' = [held EXCEPT ![p] = @ + hold]
       /\ holding' = IF hold > 0 THEN [holding EXCEPT ![p] = @ + 1] ELSE holding
       /\ short' = IF UnderReserved(c) THEN [short EXCEPT ![p] = @ + 1] ELSE short
  BY DEF Reserve
<1> HIDE DEF x, hold
<1>12. calls'[c] = x  BY <1>0, <1>8
<1>13. CallsType' /\ \A d \in Callers : (d # c => StillFlies(d)) /\ StillMints(d)
  BY <1>0, <1>1, <1>8, <1>10 DEF CallsType, StillFlies, StillMints
<1> QED  BY <1>1, <1>2, <1>5, <1>7, <1>10, <1>11, <1>12, <1>13

\* A call that comes back: nobody else's is touched.
LEMMA LandIs ==
  ASSUME TypeOK, NEW c \in Callers, calls[c].at = "provider", NEW x \in Calls,
         x.at \in {"idle", "minting"}, x.at # "idle" => x.model \in Models,
         calls' = WakeAll([calls EXCEPT ![c] = x])
  PROVE  /\ CallsType' /\ calls'[c].at = x.at /\ calls'[c].dollars = x.dollars
         /\ \A d \in Callers \ {c} : StillFlies(d) /\ StillMints(d)
<1>0. calls \in [Callers -> Calls] /\ \A d \in Callers : calls[d].at # "idle" => calls[d].model \in Models
  BY DEF TypeOK, CallsType
<1> DEFINE cs == [calls EXCEPT ![c] = x]
<1>1. cs \in [Callers -> Calls] /\ cs[c] = x /\ \A d \in Callers \ {c} : cs[d] = calls[d]
  BY <1>0
<1>2. calls' = WakeAll(cs)  OBVIOUS
<1> HIDE DEF cs
<1>3. \A d \in Callers :
        /\ calls'[d].held = cs[d].held /\ calls'[d].short = cs[d].short
        /\ calls'[d].dollars = cs[d].dollars /\ calls'[d].model = cs[d].model
        /\ \A at \in {"idle", "provider", "minting"} : calls'[d].at = at <=> cs[d].at = at
  BY <1>1, <1>2, WakeIs
<1>4. calls' \in [Callers -> Calls]
  <2>1. cs \in [Callers -> Calls]  BY <1>1
  <2>2. WakeAll(cs) \in [Callers -> Calls]  BY <2>1, WakeIs
  <2> QED  BY <1>2, <2>2
<1>5. calls'[c].at = x.at /\ calls'[c].dollars = x.dollars /\ calls'[c].model = x.model
  BY <1>1, <1>3
<1>6. ASSUME NEW d \in Callers \ {c}
      PROVE  /\ calls'[d].at # "idle" => calls'[d].model \in Models
             /\ StillFlies(d) /\ StillMints(d)
  <2>1. d \in Callers /\ cs[d] = calls[d]  BY <1>1
  <2>2. ASSUME NEW y, y = cs[d]
        PROVE  /\ calls'[d].held = y.held /\ calls'[d].short = y.short
               /\ calls'[d].dollars = y.dollars /\ calls'[d].model = y.model
               /\ \A at \in {"idle", "provider", "minting"} : calls'[d].at = at <=> y.at = at
    BY <1>3, <2>1, <2>2
  <2>3. /\ calls'[d].held = calls[d].held /\ calls'[d].short = calls[d].short
        /\ calls'[d].dollars = calls[d].dollars /\ calls'[d].model = calls[d].model
        /\ \A at \in {"idle", "provider", "minting"} : calls'[d].at = at <=> calls[d].at = at
    <3>1. calls[d] = cs[d]  BY <2>1
    <3> QED  BY <2>2, <3>1, Zenon
  <2>4. calls[d].at # "idle" => calls[d].model \in Models  BY <1>0, <2>1
  <2> HIDE <1>6
  <2> QED  BY <2>3, <2>4 DEF StillFlies, StillMints
<1> QED  BY <1>4, <1>5, <1>6 DEF CallsType

\* A settled call, one the provider failed, and one the disk refused to charge.
LEMMA ReturnIs ==
  ASSUME TypeOK, NEW c \in Callers,
         \/ Unpriced(c)
         \/ \E dollars \in Costs : Settle(c, dollars)
  PROVE  /\ CallsType' /\ calls[c].at = "provider" /\ calls'[c].at # "provider"
         /\ \A d \in Callers \ {c} : StillFlies(d) /\ StillMints(d)
         /\ Unpriced(c) => calls'[c].at = "idle"
         /\ \A dollars \in Costs : Settle(c, dollars) =>
              LET row == DebitRow(c, dollars)
              IN  \/ /\ Recorded(row) /\ book' = Apply(Returned(c), row) /\ orphans' = orphans
                     /\ calls'[c].at = "minting" /\ calls'[c].dollars = dollars
                  \/ /\ Unrecorded(row, consumed) /\ book' = Returned(c)
                     /\ calls'[c].at = "idle"
<1>0. calls \in [Callers -> Calls] /\ \A d \in Callers : calls[d].at # "idle" => calls[d].model \in Models
  BY DEF TypeOK, CallsType
<1>1. calls[c].at = "provider"  BY DEF Unpriced, Settle
<1>2. ASSUME calls' = WakeAll([calls EXCEPT ![c] = Idle])
      PROVE  /\ CallsType' /\ calls'[c].at = "idle"
             /\ \A d \in Callers \ {c} : StillFlies(d) /\ StillMints(d)
  BY <1>1, <1>2, IdleIs, LandIs
<1>3. ASSUME NEW dollars \in Costs,
             calls' = WakeAll([calls EXCEPT ![c].at = "minting", ![c].dollars = dollars])
      PROVE  /\ CallsType' /\ calls'[c].at = "minting" /\ calls'[c].dollars = dollars
             /\ \A d \in Callers \ {c} : StillFlies(d) /\ StillMints(d)
  <2> DEFINE x == [calls[c] EXCEPT !.at = "minting", !.dollars = dollars]
  <2>1. x \in Calls /\ x.at = "minting" /\ x.dollars = dollars /\ x.model = calls[c].model
    BY <1>0 DEF Calls, Stages
  <2>2. calls' = WakeAll([calls EXCEPT ![c] = x])
    <3>1. [calls EXCEPT ![c].at = "minting", ![c].dollars = dollars] = [calls EXCEPT ![c] = x]
      BY <1>0
    <3> QED  BY <1>3, <3>1
  <2> HIDE DEF x
  <2>3. x.model \in Models  BY <1>0, <1>1, <2>1
  <2> QED  BY <1>1, <2>1, <2>2, <2>3, LandIs
<1>4. CASE Unpriced(c)
  <2>1. calls' = WakeAll([calls EXCEPT ![c] = Idle])  BY <1>4 DEF Unpriced
  <2>2. /\ CallsType' /\ calls'[c].at = "idle"
        /\ \A d \in Callers \ {c} : StillFlies(d) /\ StillMints(d)
    BY <1>2, <2>1
  <2>3. ASSUME NEW dollars \in Costs, Settle(c, dollars)
        PROVE  /\ Unrecorded(DebitRow(c, dollars), consumed) /\ book' = Returned(c)
    <3>1. \/ /\ calls' = WakeAll([calls EXCEPT ![c].at = "minting", ![c].dollars = dollars])
          \/ Unrecorded(DebitRow(c, dollars), consumed) /\ book' = Returned(c)
      BY <2>3 DEF Settle, DebitRow
    <3> QED  BY <1>3, <2>2, <3>1
  <2> QED  BY <1>1, <2>2, <2>3
<1>5. ASSUME NEW dollars \in Costs, Settle(c, dollars)
      PROVE  LET row == DebitRow(c, dollars)
             IN  \/ /\ Recorded(row) /\ book' = Apply(Returned(c), row) /\ orphans' = orphans
                    /\ calls' = WakeAll([calls EXCEPT ![c].at = "minting", ![c].dollars = dollars])
                 \/ /\ Unrecorded(row, consumed) /\ book' = Returned(c)
                    /\ calls' = WakeAll([calls EXCEPT ![c] = Idle])
  BY <1>5 DEF Settle, DebitRow
<1>6. ASSUME NEW dollars \in Costs, Settle(c, dollars)
      PROVE  /\ CallsType' /\ calls'[c].at # "provider"
             /\ \A d \in Callers \ {c} : StillFlies(d) /\ StillMints(d)
             /\ LET row == DebitRow(c, dollars)
                IN  \/ /\ Recorded(row) /\ book' = Apply(Returned(c), row) /\ orphans' = orphans
                       /\ calls'[c].at = "minting" /\ calls'[c].dollars = dollars
                    \/ /\ Unrecorded(row, consumed) /\ book' = Returned(c)
                       /\ calls'[c].at = "idle"
  BY <1>2, <1>3, <1>5, <1>6
<1> QED  BY <1>1, <1>4, <1>6

\* A row replayed, or refused by the disk; a receipt joined to its ledger.
LEMMA ReplayedIs ==
  ASSUME TypeOK, NEW c \in Callers, Replay(c)
  PROVE  /\ CallsType' /\ calls[c].at = "asking"
         /\ \A d \in Callers : StillFlies(d) /\ (d # c => StillMints(d))
         /\ LET row == ReplayRow(c)
            IN  \/ /\ Recorded(row) /\ book' = Apply(book, row) /\ orphans' = orphans
                   /\ calls'[c].at = "minting" /\ calls'[c].dollars = calls[c].dollars
                \/ /\ Unrecorded(row, consumed) /\ book' = book
                   /\ StillMints(c)
<1>0. calls \in [Callers -> Calls] /\ \A d \in Callers : calls[d].at # "idle" => calls[d].model \in Models
  BY DEF TypeOK, CallsType
<1>1. calls[c].at = "asking"  BY DEF Replay, GoesAhead
<1>2. CASE /\ Recorded(ReplayRow(c)) /\ book' = Apply(book, ReplayRow(c)) /\ orphans' = orphans
           /\ calls' = [calls EXCEPT ![c].at = "minting"]
  <2> DEFINE x == [calls[c] EXCEPT !.at = "minting"]
  <2>1. /\ x \in Calls /\ x.at = "minting" /\ x.dollars = calls[c].dollars
        /\ x.model = calls[c].model
    BY <1>0 DEF Calls, Stages
  <2>2. calls' = [calls EXCEPT ![c] = x]  BY <1>0, <1>2
  <2> HIDE DEF x
  <2>3. CallsType' /\ \A d \in Callers : StillFlies(d) /\ (d # c => StillMints(d))
    BY <1>0, <1>1, <2>1, <2>2 DEF CallsType, StillFlies, StillMints
  <2>4. calls'[c] = x  BY <1>0, <2>2
  <2> QED  BY <1>1, <1>2, <2>1, <2>3, <2>4
<1>3. CASE /\ Unrecorded(ReplayRow(c), consumed) /\ book' = book
           /\ calls' = WakeAll([calls EXCEPT ![c] = Idle])
  <2>1. CallsType' /\ \A d \in Callers : StillFlies(d) /\ StillMints(d)
    BY <1>1, <1>3, QuietCalls
  <2> QED  BY <1>1, <1>3, <2>1
<1> QED  BY <1>2, <1>3 DEF Replay, ReplayRow

\* A receipt joins its arm's ledger.
LEMMA MintIs ==
  ASSUME TypeOK, NEW c \in Callers, Mint(c)
  PROVE  /\ CallsType' /\ calls[c].at = "minting" /\ calls'[c].at = "idle"
         /\ \A d \in Callers : StillFlies(d) /\ (d # c => StillMints(d))
<1>0. calls \in [Callers -> Calls] /\ \A d \in Callers : calls[d].at # "idle" => calls[d].model \in Models
  BY DEF TypeOK, CallsType
<1>1. calls[c].at = "minting" /\ calls' = [calls EXCEPT ![c] = Idle]  BY DEF Mint
<1> QED  BY <1>0, <1>1, IdleIs DEF CallsType, StillFlies, StillMints

(***************************************************************************)
(* What the calls in flight hold.                                          *)
(***************************************************************************)

\* The calls in flight are finitely many, and what they hold is a number.
LEMMA FlightIs ==
  ASSUME CallsType, NEW p \in Payers
  PROVE  /\ IsFiniteSet(InFlight(p)) /\ IsFiniteSet(Holders(p))
         /\ InFlight(p) \subseteq Callers /\ Holders(p) \subseteq InFlight(p)
         /\ \A c \in Callers : calls[c] \in Calls /\ calls[c].held \in Nat
         /\ DollarsHeld(p) \in Int /\ Cardinality(Holders(p)) \in Nat
<1>1. IsFiniteSet(Callers)  BY GatewayAssumption
<1>2. InFlight(p) \subseteq Callers /\ Holders(p) \subseteq InFlight(p)  BY DEF InFlight, Holders
<1>3. IsFiniteSet(InFlight(p)) /\ IsFiniteSet(Holders(p))  BY <1>1, <1>2, FS_Subset
<1>4. \A c \in Callers : calls[c] \in Calls /\ calls[c].held \in Nat  BY DEF CallsType, Calls
<1> DEFINE f == [c \in Callers |-> calls[c].held]
<1>5. \A c \in InFlight(p) : f[c] \in Int  BY <1>2, <1>4
<1>6. SumFunctionOnSet(f, InFlight(p)) \in Int
  <2> HIDE DEF f
  <2> QED  BY <1>3, <1>5, SumType
<1> QED  BY <1>2, <1>3, <1>4, <1>6, FS_CardinalityType DEF DollarsHeld

\* What calls in flight hold is never negative, and nothing when none is in flight.
LEMMA HeldIsNat ==
  ASSUME CallsType, NEW p \in Payers
  PROVE  /\ DollarsHeld(p) >= 0
         /\ Holders(p) = {} => DollarsHeld(p) = 0
<1> DEFINE f == [c \in Callers |-> calls[c].held]
           z == [c \in Callers |-> 0]
           S == InFlight(p)
<1>1. IsFiniteSet(S) /\ S \subseteq Callers /\ DollarsHeld(p) \in Int
      /\ \A c \in S : f[c] \in Nat /\ f[c] = calls[c].held /\ z[c] = 0
  BY FlightIs
<1>2. DollarsHeld(p) = SumFunctionOnSet(f, S)  BY DEF DollarsHeld
<1>3. \A c \in S : Holders(p) = {} => f[c] = 0  BY <1>1 DEF Holders
<1> HIDE DEF f, z, S
<1>4. SumFunctionOnSet(z, S) = 0
  <2> DEFINE Bad == {s \in SUBSET S : SumFunctionOnSet(z, s) # 0}
  <2>1. ASSUME Bad # {} PROVE FALSE
    <3>1. PICK s \in Bad : \A r \in Bad : Cardinality(s) <= Cardinality(r)
      <4>1. Bad \subseteq SUBSET S  OBVIOUS
      <4> HIDE DEF Bad
      <4> QED  BY <1>1, <2>1, <4>1, Fewest
    <3>2. IsFiniteSet(s) /\ s \subseteq S  BY <1>1, FS_Subset
    <3>3. s # {}  BY <3>2, SumStep
    <3>4. /\ Chosen(s) \in s
          /\ SumFunctionOnSet(z, s) = z[Chosen(s)] + SumFunctionOnSet(z, s \ {Chosen(s)})
      BY <3>2, <3>3, SumStep
    <3>5. s \ {Chosen(s)} \notin Bad  BY <3>1, <3>2, <3>4, OneFewer
    <3>6. SumFunctionOnSet(z, s \ {Chosen(s)}) = 0  BY <3>2, <3>5
    <3>7. z[Chosen(s)] = 0  BY <1>1, <3>2, <3>4
    <3> QED  BY <3>1, <3>4, <3>6, <3>7
  <2> QED  BY <2>1
<1>5. SumFunctionOnSet(f, S) >= 0
  <2>1. \A c \in S : z[c] \in Int /\ f[c] \in Int /\ z[c] <= f[c]  BY <1>1
  <2>2. SumFunctionOnSet(z, S) <= SumFunctionOnSet(f, S)  BY <1>1, <2>1, SumMonotone
  <2> QED  BY <1>1, <1>2, <1>4, <2>2
<1>6. ASSUME Holders(p) = {} PROVE SumFunctionOnSet(f, S) = 0
  <2>1. \A c \in S : f[c] \in Int /\ f[c] = z[c]  BY <1>1, <1>3, <1>6
  <2> QED  BY <1>1, <1>4, <2>1, SumSame
<1> QED  BY <1>2, <1>5, <1>6

\* Of a payer whose calls go on as they were, nothing changes.
LEMMA FlightSame ==
  ASSUME CallsType, CallsType', NEW p \in Payers,
         \A d \in Callers : PayerOf[d] = p => StillFlies(d)
  PROVE  /\ InFlight(p)' = InFlight(p) /\ Holders(p)' = Holders(p)
         /\ DollarsHeld(p)' = DollarsHeld(p)
<1>1. InFlight(p)' = InFlight(p)  BY DEF InFlight, StillFlies
<1>2. \A d \in InFlight(p) : d \in Callers /\ calls'[d].held = calls[d].held
  BY DEF InFlight, StillFlies
<1>3. Holders(p)' = Holders(p)  BY <1>1, <1>2 DEF Holders
<1> DEFINE f == [c \in Callers |-> calls[c].held]
           g == [c \in Callers |-> calls'[c].held]
           S == InFlight(p)
<1>4. \A d \in S : f[d] \in Int /\ f[d] = g[d]  BY <1>2, FlightIs
<1>5. IsFiniteSet(S)  BY FlightIs
<1>6. DollarsHeld(p) = SumFunctionOnSet(f, S) /\ DollarsHeld(p)' = SumFunctionOnSet(g, S)
  BY <1>1 DEF DollarsHeld
<1> HIDE DEF f, g, S
<1>7. SumFunctionOnSet(f, S) = SumFunctionOnSet(g, S)  BY <1>4, <1>5, SumSame
<1> QED  BY <1>1, <1>3, <1>6, <1>7

\* One caller more is in flight.
LEMMA FlightGains ==
  ASSUME CallsType, CallsType', NEW c \in Callers, NEW p, p = PayerOf[c], p \in Payers,
         calls[c].at # "provider", calls'[c].at = "provider",
         \A d \in Callers \ {c} : StillFlies(d)
  PROVE  /\ InFlight(p)' = InFlight(p) \cup {c} /\ c \notin InFlight(p)
         /\ DollarsHeld(p)' = DollarsHeld(p) + calls'[c].held
         /\ Cardinality(Holders(p)') =
              IF calls'[c].held > 0 THEN Cardinality(Holders(p)) + 1 ELSE Cardinality(Holders(p))
<1>1. InFlight(p)' = InFlight(p) \cup {c} /\ c \notin InFlight(p)  BY DEF InFlight, StillFlies
<1>2. \A d \in InFlight(p) : d \in Callers /\ calls'[d].held = calls[d].held
  BY <1>1 DEF InFlight, StillFlies
<1>3. Holders(p)' = IF calls'[c].held > 0 THEN Holders(p) \cup {c} ELSE Holders(p)
  BY <1>1, <1>2 DEF Holders
<1>4. c \notin Holders(p) /\ IsFiniteSet(Holders(p))  BY <1>1, FlightIs DEF Holders
<1>5. Cardinality(Holders(p) \cup {c}) = Cardinality(Holders(p)) + 1  BY <1>4, FS_AddElement
<1> DEFINE f == [d \in Callers |-> calls[d].held]
           g == [d \in Callers |-> calls'[d].held]
           S == InFlight(p)
           T == S \cup {c}
<1>6. (\A d \in S : f[d] \in Int /\ f[d] = g[d]) /\ g[c] \in Int /\ g[c] = calls'[c].held
  <2>1. calls'[c].held \in Nat  BY DEF CallsType, Calls
  <2> QED  BY <1>2, <2>1, FlightIs
<1>7. IsFiniteSet(S) /\ IsFiniteSet(T) /\ T \ {c} = S /\ c \in T
  BY <1>1, FlightIs, FS_AddElement
<1>8. DollarsHeld(p) = SumFunctionOnSet(f, S) /\ DollarsHeld(p)' = SumFunctionOnSet(g, T)
  BY <1>1 DEF DollarsHeld
<1>9. \A d \in T : g[d] \in Int
  <2> HIDE DEF f, g
  <2> QED  BY <1>6
<1> HIDE DEF f, g, S, T
<1>10. SumFunctionOnSet(g, T) = g[c] + SumFunctionOnSet(g, S)  BY <1>7, <1>9, SumTake
<1>11. SumFunctionOnSet(f, S) = SumFunctionOnSet(g, S) /\ SumFunctionOnSet(f, S) \in Int
  BY <1>6, <1>7, SumSame, SumType
<1> QED  BY <1>1, <1>3, <1>5, <1>6, <1>8, <1>10, <1>11

\* One caller fewer is in flight.
LEMMA FlightLoses ==
  ASSUME CallsType, CallsType', NEW c \in Callers, NEW p, p = PayerOf[c], p \in Payers,
         calls[c].at = "provider", calls'[c].at # "provider",
         \A d \in Callers \ {c} : StillFlies(d)
  PROVE  /\ InFlight(p)' = InFlight(p) \ {c} /\ c \in InFlight(p)
         /\ DollarsHeld(p)' = DollarsHeld(p) - calls[c].held
         /\ Cardinality(Holders(p)') =
              IF calls[c].held > 0 THEN Cardinality(Holders(p)) - 1 ELSE Cardinality(Holders(p))
<1>1. InFlight(p)' = InFlight(p) \ {c} /\ c \in InFlight(p)  BY DEF InFlight, StillFlies
<1>2. \A d \in InFlight(p) \ {c} : d \in Callers /\ calls'[d].held = calls[d].held
  BY DEF InFlight, StillFlies
<1>3. Holders(p)' = IF calls[c].held > 0 THEN Holders(p) \ {c} ELSE Holders(p)
  BY <1>1, <1>2 DEF Holders
<1>4. IsFiniteSet(Holders(p)) /\ (calls[c].held > 0 => c \in Holders(p))
  BY <1>1, FlightIs DEF Holders
<1>5. calls[c].held > 0 => Cardinality(Holders(p) \ {c}) = Cardinality(Holders(p)) - 1
  BY <1>4, OneFewer
<1> DEFINE f == [d \in Callers |-> calls[d].held]
           g == [d \in Callers |-> calls'[d].held]
           S == InFlight(p)
           T == S \ {c}
<1>6. (\A d \in S : f[d] \in Int) /\ (\A d \in T : g[d] = f[d]) /\ f[c] = calls[c].held
      /\ f[c] \in Int
  BY <1>2, FlightIs
<1>7. IsFiniteSet(S) /\ IsFiniteSet(T) /\ c \in S /\ T = S \ {c}
  BY <1>1, FlightIs, FS_Subset
<1>8. DollarsHeld(p) = SumFunctionOnSet(f, S) /\ DollarsHeld(p)' = SumFunctionOnSet(g, T)
  BY <1>1 DEF DollarsHeld
<1> HIDE DEF f, g, S, T
<1>10. SumFunctionOnSet(f, S) = f[c] + SumFunctionOnSet(f, T)  BY <1>6, <1>7, SumTake
<1>11. SumFunctionOnSet(f, T) = SumFunctionOnSet(g, T) /\ SumFunctionOnSet(f, T) \in Int
  BY <1>6, <1>7, SumSame, SumType
<1> QED  BY <1>1, <1>3, <1>5, <1>6, <1>8, <1>10, <1>11

\* What every step does to the calls and to what they hold.
CallsStay == /\ CallsType' /\ HoldInv' /\ ShortInv'
             /\ held' \in [Payers -> Int] /\ holding' \in [Payers -> Int]
             /\ short' \in [Payers -> {0, 1}]

\* A step that reserves nothing and returns nothing.
LEMMA QuietKeepsHolds ==
  ASSUME TypeOK, HoldInv, ShortInv, CallsType', \A d \in Callers : StillFlies(d),
         UNCHANGED <<held, holding, short>>
  PROVE  CallsStay
<1>1. CallsType  BY DEF TypeOK
<1>2. \A p \in Payers : /\ InFlight(p)' = InFlight(p) /\ Holders(p)' = Holders(p)
                        /\ DollarsHeld(p)' = DollarsHeld(p)
  BY <1>1, FlightSame
<1>3. HoldInv'  BY <1>2 DEF HoldInv
<1>4. ASSUME NEW p \in Payers, NEW c \in InFlight(p), calls'[c].short
      PROVE  /\ short[p] = 1 /\ calls'[c].held > 0
             /\ \A d \in InFlight(p) : calls'[d].short => d = c
  <2>1. \A d \in InFlight(p) : calls'[d].held = calls[d].held /\ calls'[d].short = calls[d].short
    BY DEF InFlight, StillFlies
  <2> QED  BY <1>4, <2>1 DEF ShortInv
<1>5. ShortInv'  BY <1>2, <1>4 DEF ShortInv
<1> QED  BY <1>3, <1>5 DEF CallsStay, TypeOK

\* A call reserves what it may hold.
LEMMA ReserveKeepsHolds ==
  ASSUME TypeOK, HoldInv, ShortInv, NEW c \in Callers, Reserve(c)
  PROVE  CallsStay
<1> DEFINE p == PayerOf[c]
<1>1. /\ CallsType' /\ calls[c].at # "provider" /\ calls'[c].at = "provider"
      /\ \A d \in Callers \ {c} : StillFlies(d)
      /\ p \in Payers /\ calls'[c].held \in Nat
      /\ calls'[c].short => calls'[c].held > 0 /\ short[p] = 0
      /\ held' = [held EXCEPT ![p] = @ + calls'[c].held]
      /\ holding' = IF calls'[c].held > 0 THEN [holding EXCEPT ![p] = @ + 1] ELSE holding
      /\ short' = IF calls'[c].short THEN [short EXCEPT ![p] = @ + 1] ELSE short
  BY ReserveIs
<1>2. CallsType /\ held \in [Payers -> Int] /\ holding \in [Payers -> Int]
      /\ short \in [Payers -> {0, 1}]
  BY DEF TypeOK
<1>3. /\ InFlight(p)' = InFlight(p) \cup {c} /\ c \notin InFlight(p)
      /\ DollarsHeld(p)' = DollarsHeld(p) + calls'[c].held
      /\ Cardinality(Holders(p)') =
           IF calls'[c].held > 0 THEN Cardinality(Holders(p)) + 1 ELSE Cardinality(Holders(p))
  BY <1>1, <1>2, FlightGains
<1>4. ASSUME NEW q \in Payers, q # p
      PROVE  /\ InFlight(q)' = InFlight(q) /\ Holders(q)' = Holders(q)
             /\ DollarsHeld(q)' = DollarsHeld(q)
  BY <1>1, <1>2, <1>4, FlightSame
<1> HIDE DEF p
<1>5. held' \in [Payers -> Int] /\ holding' \in [Payers -> Int] /\ short' \in [Payers -> {0, 1}]
  BY <1>1, <1>2
<1>6. HoldInv'
  <2>1. \A q \in Payers \ {p} : held'[q] = held[q] /\ holding'[q] = holding[q]  BY <1>1, <1>2
  <2>2. /\ held'[p] = held[p] + calls'[c].held
        /\ holding'[p] = IF calls'[c].held > 0 THEN holding[p] + 1 ELSE holding[p]
    BY <1>1, <1>2
  <2> QED  BY <1>1, <1>3, <1>4, <2>1, <2>2 DEF HoldInv
<1>7. \A q \in Payers : \A d \in InFlight(q) : calls'[d].held = calls[d].held /\ calls'[d].short = calls[d].short
  <2> SUFFICES ASSUME NEW q \in Payers, NEW d \in InFlight(q)
               PROVE  calls'[d].held = calls[d].held /\ calls'[d].short = calls[d].short
    OBVIOUS
  <2>1. d \in Callers /\ calls[d].at = "provider"  BY DEF InFlight
  <2> QED  BY <1>1, <2>1 DEF StillFlies
<1>8. ASSUME NEW q \in Payers, NEW d \in InFlight(q)', calls'[d].short
      PROVE  /\ short'[q] = 1 /\ calls'[d].held > 0
             /\ \A e \in InFlight(q)' : calls'[e].short => e = d
  <2>1. CASE q # p
    <3>1. short'[q] = short[q]  BY <1>1, <1>2, <2>1
    <3> QED  BY <1>4, <1>7, <1>8, <2>1, <3>1 DEF ShortInv
  <2>2. CASE q = p /\ calls'[c].short
    <3>1. short[p] = 0 /\ short'[p] = 1  BY <1>1, <1>2, <2>2
    <3>2. \A e \in InFlight(p) : ~calls[e].short  BY <1>1, <3>1 DEF ShortInv
    <3>3. d = c /\ \A e \in InFlight(p)' : calls'[e].short => e = c
      BY <1>3, <1>7, <1>8, <2>2, <3>2
    <3> QED  BY <1>1, <2>2, <3>1, <3>3
  <2>3. CASE q = p /\ ~calls'[c].short
    <3>1. short'[p] = short[p]  BY <1>1, <2>3
    <3>2. d \in InFlight(p) /\ \A e \in InFlight(p)' : calls'[e].short => e \in InFlight(p)
      BY <1>3, <1>8, <2>3
    <3> QED  BY <1>7, <1>8, <2>3, <3>1, <3>2 DEF ShortInv
  <2> QED  BY <2>1, <2>2, <2>3
<1>9. ShortInv'  BY <1>8 DEF ShortInv
<1> QED  BY <1>1, <1>5, <1>6, <1>9 DEF CallsStay

\* A call returns what it held.
LEMMA UnholdKeepsHolds ==
  ASSUME TypeOK, HoldInv, ShortInv, NEW c \in Callers, Unhold(c), CallsType',
         calls[c].at = "provider", calls'[c].at # "provider",
         \A d \in Callers \ {c} : StillFlies(d)
  PROVE  CallsStay
<1> DEFINE p == PayerOf[c]
<1>1. /\ held' = [held EXCEPT ![p] = @ - calls[c].held]
      /\ holding' = IF calls[c].held > 0 THEN [holding EXCEPT ![p] = @ - 1] ELSE holding
      /\ short' = IF calls[c].short THEN [short EXCEPT ![p] = @ - 1] ELSE short
  BY DEF Unhold
<1>2. CallsType /\ held \in [Payers -> Int] /\ holding \in [Payers -> Int]
      /\ short \in [Payers -> {0, 1}] /\ p \in Payers /\ calls[c].held \in Nat
  BY FlightIs, GatewayAssumption DEF TypeOK
<1>3. /\ InFlight(p)' = InFlight(p) \ {c} /\ c \in InFlight(p)
      /\ DollarsHeld(p)' = DollarsHeld(p) - calls[c].held
      /\ Cardinality(Holders(p)') =
           IF calls[c].held > 0 THEN Cardinality(Holders(p)) - 1 ELSE Cardinality(Holders(p))
  BY <1>2, FlightLoses
<1>4. ASSUME NEW q \in Payers, q # p
      PROVE  /\ InFlight(q)' = InFlight(q) /\ Holders(q)' = Holders(q)
             /\ DollarsHeld(q)' = DollarsHeld(q)
  BY <1>2, <1>4, FlightSame
<1> HIDE DEF p
<1>a. calls[c].short => short[p] = 1  BY <1>2, <1>3 DEF ShortInv
<1>5. held' \in [Payers -> Int] /\ holding' \in [Payers -> Int] /\ short' \in [Payers -> {0, 1}]
  BY <1>1, <1>2, <1>a
<1>6. HoldInv'
  <2>1. \A q \in Payers \ {p} : held'[q] = held[q] /\ holding'[q] = holding[q]  BY <1>1, <1>2
  <2>2. /\ held'[p] = held[p] - calls[c].held
        /\ holding'[p] = IF calls[c].held > 0 THEN holding[p] - 1 ELSE holding[p]
    BY <1>1, <1>2
  <2> QED  BY <1>2, <1>3, <1>4, <2>1, <2>2 DEF HoldInv
<1>7. \A q \in Payers : \A d \in InFlight(q) :
        d # c => calls'[d].held = calls[d].held /\ calls'[d].short = calls[d].short
  <2> SUFFICES ASSUME NEW q \in Payers, NEW d \in InFlight(q), d # c
               PROVE  calls'[d].held = calls[d].held /\ calls'[d].short = calls[d].short
    OBVIOUS
  <2>1. d \in Callers /\ calls[d].at = "provider"  BY DEF InFlight
  <2> QED  BY <2>1 DEF StillFlies
<1>8. ASSUME NEW q \in Payers, NEW d \in InFlight(q)', calls'[d].short
      PROVE  /\ short'[q] = 1 /\ calls'[d].held > 0
             /\ \A e \in InFlight(q)' : calls'[e].short => e = d
  <2>1. CASE q # p
    <3>1. short'[q] = short[q]  BY <1>1, <1>2, <2>1
    <3>2. c \notin InFlight(q)  BY <2>1 DEF InFlight, p
    <3> QED  BY <1>4, <1>7, <1>8, <2>1, <3>1, <3>2 DEF ShortInv
  <2>2. CASE q = p
    <3>1. d \in InFlight(p) /\ d # c /\ calls[d].short  BY <1>3, <1>7, <1>8, <2>2
    <3>2. ~calls[c].short  BY <1>2, <1>3, <3>1 DEF ShortInv
    <3>3. short'[p] = short[p]  BY <1>1, <3>2
    <3>4. \A e \in InFlight(p)' : e \in InFlight(p) /\ e # c  BY <1>3
    <3> QED  BY <1>2, <1>7, <2>2, <3>1, <3>3, <3>4 DEF ShortInv
  <2> QED  BY <2>1, <2>2
<1>9. ShortInv'  BY <1>8 DEF ShortInv
<1> QED  BY <1>5, <1>6, <1>9 DEF CallsStay

\* Every step keeps the calls' part of the invariant.
LEMMA CallsStep ==
  ASSUME TypeOK, HoldInv, ShortInv, DownInv, [Next]_vars
  PROVE  CallsStay
<1>1. ASSUME NEW c \in Callers, Reserve(c) PROVE CallsStay
  BY <1>1, ReserveKeepsHolds
<1>2. ASSUME NEW c \in Callers, Unpriced(c) \/ \E dollars \in Costs : Settle(c, dollars)
      PROVE  CallsStay
  <2>1. Unhold(c)  BY <1>2 DEF Unpriced, Settle
  <2>2. /\ CallsType' /\ calls[c].at = "provider" /\ calls'[c].at # "provider"
        /\ \A d \in Callers \ {c} : StillFlies(d)
    BY <1>2, ReturnIs
  <2> QED  BY <2>1, <2>2, UnholdKeepsHolds
<1>3. ASSUME NEW c \in Callers, Replay(c) PROVE CallsStay
  <2>1. UNCHANGED <<held, holding, short>>  BY <1>3 DEF Replay
  <2> QED  BY <1>3, <2>1, ReplayedIs, QuietKeepsHolds
<1>4. ASSUME NEW c \in Callers, Mint(c) PROVE CallsStay
  <2>1. UNCHANGED <<held, holding, short>>  BY <1>4 DEF Mint, money
  <2> QED  BY <1>4, <2>1, MintIs, QuietKeepsHolds
<1>5. ASSUME NEW c \in Callers,
             \/ Ask(c) \/ Expire(c) \/ Wait(c)
             \/ RefuseClosed(c) \/ RefuseUnfunded(c) \/ RefuseCongested(c)
      PROVE  CallsStay
  <2>1. UNCHANGED <<held, holding, short>>
    BY <1>5 DEF Ask, Expire, Wait, RefuseClosed, RefuseUnfunded, RefuseCongested, money
  <2>2. \/ Ask(c) \/ Wait(c) \/ Expire(c)
        \/ calls[c].at \in {"asking", "waiting"} /\ calls' = [calls EXCEPT ![c] = Idle]
    BY <1>5 DEF RefuseClosed, RefuseUnfunded, RefuseCongested
  <2>3. CallsType' /\ \A d \in Callers : StillFlies(d) /\ StillMints(d)  BY <2>2, QuietCalls
  <2> QED  BY <2>1, <2>3, QuietKeepsHolds
<1>6. ASSUME \/ Refresh \/ RefreshRaises
             \/ \E p \in Payers : Close(p)
             \/ \E p \in Payers, w \in 1..MaxWindow, usd \in Amounts : Bind(p, w, usd)
             \/ \E p \in Payers, usd \in Amounts : Credit(p, usd)
             \/ Restart \/ UNCHANGED vars
      PROVE  CallsStay
  <2>1. UNCHANGED <<held, holding, short>> /\ (UNCHANGED calls \/ calls' = WakeAll(calls))
    BY <1>6 DEF Refresh, RefreshRaises, Close, Bind, Credit, Restart, vars, money
  <2>2. CallsType' /\ \A d \in Callers : StillFlies(d)  BY <2>1, QuietCalls
  <2> QED  BY <2>1, <2>2, QuietKeepsHolds
<1>7. ASSUME Crash PROVE CallsStay
  <2>1. /\ calls' = [c \in Callers |-> Idle]
        /\ held' = Fresh(0) /\ holding' = Fresh(0) /\ short' = Fresh(0)
    BY <1>7 DEF Crash
  <2>2. CallsType'  BY <2>1, IdleIs DEF CallsType
  <2>3. \A p \in Payers : InFlight(p)' = {}  BY <2>1, IdleIs DEF InFlight
  <2>4. \A p \in Payers : Holders(p)' = {}  BY <2>3 DEF Holders
  <2>5. \A p \in Payers : DollarsHeld(p)' = 0 /\ Cardinality(Holders(p)') = 0
    <3>1. IsFiniteSet({}) /\ Cardinality({}) = 0  BY FS_EmptySet
    <3>2. \A f : SumFunctionOnSet(f, {}) = 0  BY <3>1, SumStep
    <3> QED  BY <2>3, <2>4, <3>1, <3>2 DEF DollarsHeld
  <2>6. \A p \in Payers : held'[p] = 0 /\ holding'[p] = 0  BY <2>1 DEF Fresh
  <2>7. held' \in [Payers -> Int] /\ holding' \in [Payers -> Int] /\ short' \in [Payers -> {0, 1}]
    BY <2>1 DEF Fresh
  <2> QED  BY <2>2, <2>3, <2>5, <2>6, <2>7 DEF CallsStay, HoldInv, ShortInv
<1> QED  BY <1>1, <1>2, <1>3, <1>4, <1>5, <1>6, <1>7 DEF Next, Proceed, ProviderFails, KeyRefused

(***************************************************************************)
(* The books.                                                              *)
(***************************************************************************)

\* An empty book is one, and what the journal yields is one when it parses.
LEMMA BlankIs == Blank \in Books /\ \A p \in Payers : Blank.balance[p] = 0 /\ Blank.cap[p] = 0
BY DEF Blank, Books

\* What a readable journal yields.
LEMMA JournaledIs ==
  ASSUME TypeOK, FileInv, Readable(1)
  PROVE  Journaled \in Books /\ \A i \in 1..Len(Whole) : Whole[i] \in Row
<1>1. Whole \in Seq(Lines) /\ Len(Whole) \in Nat  BY WholeIs
<1>2. \A i \in 1..Len(Whole) : Whole[i] \in Row  BY <1>1 DEF Readable, Lines
<1>3. 1 \in Nat \ {0} /\ 1 - 1 <= Len(Whole)  BY <1>1
<1> QED  BY <1>1, <1>2, <1>3, BlankIs, ReplayType DEF Journaled

\* The rows not accounted for, or the first of them: an unspoilt payer's cap stays, and every book
\* gets the same credits.
LEMMA TailReplays ==
  ASSUME TypeOK, FileInv, TailInv, up, NEW rows, Len(rows) \in Nat,
         consumed <= Len(rows), Len(rows) <= Len(Whole),
         \A i \in consumed + 1..Len(rows) : rows[i] = Whole[i] /\ Whole[i] # JUNK
  PROVE  \A b, d \in Books :
           /\ ReplayOnto(b, rows, consumed + 1) \in Books
           /\ \A p \in Payers : Unspoilt(p) =>
                /\ ReplayOnto(b, rows, consumed + 1).cap[p] = b.cap[p]
                /\ ReplayOnto(b, rows, consumed + 1).balance[p] >= b.balance[p]
                /\ ReplayOnto(b, rows, consumed + 1).balance[p] - b.balance[p]
                     = ReplayOnto(d, rows, consumed + 1).balance[p] - d.balance[p]
<1>1. consumed \in Nat /\ Len(Whole) \in Nat /\ Whole \in Seq(Lines)  BY WholeIs DEF TypeOK
<1> DEFINE from == consumed + 1
<1>2. from \in Nat \ {0} /\ from - 1 = consumed /\ from - 1 <= Len(rows)  BY <1>1
<1>3. \A i \in from..Len(rows) : i \in from..Len(Whole) /\ i \in 1..Len(Whole)  BY <1>1
<1>4. \A i \in from..Len(rows) : rows[i] \in Row
  <2> SUFFICES ASSUME NEW i \in from..Len(rows) PROVE rows[i] \in Row  OBVIOUS
  <2>1. rows[i] = Whole[i] /\ Whole[i] # JUNK /\ Whole[i] \in Lines  BY <1>1, <1>3
  <2> QED  BY <2>1 DEF Lines
<1>5. ASSUME NEW p \in Payers, Unspoilt(p), NEW i \in from..Len(rows), rows[i].payer = p
      PROVE  rows[i].op = "credit"
  <2>1. rows[i] = Whole[i] /\ Whole[i] # JUNK /\ i \in consumed + 1..Len(Whole)  BY <1>3
  <2> QED  BY <1>5, <2>1, TailIsCredits
<1> HIDE DEF from
<1> SUFFICES ASSUME NEW b \in Books, NEW d \in Books
             PROVE  /\ ReplayOnto(b, rows, from) \in Books
                    /\ \A p \in Payers : Unspoilt(p) =>
                         /\ ReplayOnto(b, rows, from).cap[p] = b.cap[p]
                         /\ ReplayOnto(b, rows, from).balance[p] >= b.balance[p]
                         /\ ReplayOnto(b, rows, from).balance[p] - b.balance[p]
                              = ReplayOnto(d, rows, from).balance[p] - d.balance[p]
  BY DEF from
<1>6. ReplayOnto(b, rows, from) \in Books  BY <1>2, <1>4, ReplayType
<1>7. ASSUME NEW p \in Payers, Unspoilt(p)
      PROVE  /\ ReplayOnto(b, rows, from).cap[p] = b.cap[p]
             /\ ReplayOnto(b, rows, from).balance[p] >= b.balance[p]
             /\ ReplayOnto(b, rows, from).balance[p] - b.balance[p]
                  = ReplayOnto(d, rows, from).balance[p] - d.balance[p]
  <2>1. \A i \in from..Len(rows) : rows[i].payer = p => rows[i].op = "credit"  BY <1>5, <1>7
  <2>2. b \in Books /\ d \in Books /\ p \in Payers /\ Len(rows) \in Nat  OBVIOUS
  <2> QED  BY ONLY <1>2, <1>4, <2>1, <2>2, ReplayCredits
<1> QED  BY <1>6, <1>7

\* What a refresh makes of the books, whether or not it meets damage.
LEMMA RefreshIs ==
  ASSUME TypeOK, FileInv, TailInv, up
  PROVE  /\ Readable(consumed + 1) =>
              /\ Replayed \in Books
              /\ \A p \in Payers : Unspoilt(p) =>
                   Replayed.cap[p] = book.cap[p] /\ Replayed.balance[p] >= book.balance[p]
         /\ RefreshRaises =>
              /\ book' \in Books /\ ~Readable(1)
              /\ \A p \in Payers : Unspoilt(p) =>
                   book'.cap[p] = book.cap[p] /\ book'.balance[p] >= book.balance[p]
<1>1. /\ consumed \in Nat /\ Len(Whole) \in Nat /\ Whole \in Seq(Lines) /\ consumed <= Len(Whole)
      /\ book \in Books
  BY WholeIs DEF TypeOK, FileInv
<1>2. ASSUME Readable(consumed + 1)
      PROVE  /\ Replayed \in Books
             /\ \A p \in Payers : Unspoilt(p) =>
                  Replayed.cap[p] = book.cap[p] /\ Replayed.balance[p] >= book.balance[p]
  <2>1. \A i \in consumed + 1..Len(Whole) : Whole[i] = Whole[i] /\ Whole[i] # JUNK
    BY <1>2 DEF Readable
  <2>2. Len(Whole) <= Len(Whole)  BY <1>1
  <2> QED  BY <1>1, <2>1, <2>2, TailReplays DEF Replayed
<1>3. ASSUME RefreshRaises
      PROVE  /\ book' \in Books /\ ~Readable(1)
             /\ \A p \in Payers : Unspoilt(p) =>
                  book'.cap[p] = book.cap[p] /\ book'.balance[p] >= book.balance[p]
  <2> DEFINE bad == {i \in consumed + 1..Len(Whole) : Whole[i] = JUNK}
             damaged == Min(bad)
             rows == SubSeq(Whole, 1, damaged - 1)
  <2>1. bad # {} /\ bad \subseteq Nat
    BY <1>1, <1>3 DEF RefreshRaises, Readable
  <2>2. PICK n \in bad : \A m \in bad : n <= m
    <3> HIDE DEF bad
    <3> QED  BY <2>1, LeastNat
  <2>3. damaged \in bad /\ \A m \in bad : damaged <= m
    <3>1. damaged = CHOOSE x \in bad : \A y \in bad : x <= y  BY DEF Min
    <3> HIDE DEF bad, damaged
    <3> QED  BY <2>2, <3>1
  <2>4. damaged \in consumed + 1..Len(Whole) /\ Whole[damaged] = JUNK  BY <2>3
  <2>5. \A i \in consumed + 1..damaged - 1 : i \in consumed + 1..Len(Whole) /\ Whole[i] # JUNK
    <3> SUFFICES ASSUME NEW i \in consumed + 1..damaged - 1
                 PROVE  i \in consumed + 1..Len(Whole) /\ Whole[i] # JUNK
      OBVIOUS
    <3>1. damaged \in Nat /\ i \in Nat /\ ~(damaged <= i) /\ i \in consumed + 1..Len(Whole)
      BY <1>1, <2>4
    <3> QED  BY <2>3, <3>1
  <2>6. book' = ReplayOnto(book, rows, consumed + 1)  BY <1>3 DEF RefreshRaises
  <2> HIDE DEF damaged, bad
  <2>7. /\ Len(rows) = damaged - 1 /\ Len(rows) \in Nat /\ consumed <= Len(rows)
        /\ Len(rows) <= Len(Whole) /\ \A i \in 1..damaged - 1 : rows[i] = Whole[i]
    BY <1>1, <2>4
  <2> HIDE DEF rows
  <2>8. \A i \in consumed + 1..Len(rows) : rows[i] = Whole[i] /\ Whole[i] # JUNK
    BY <1>1, <2>5, <2>7
  <2>9. ~Readable(1)  BY <1>1, <2>4 DEF Readable
  <2> QED  BY <1>1, <2>6, <2>7, <2>8, <2>9, TailReplays
<1> QED  BY <1>2, <1>3

\* A hold that is back.
LEMMA ReturnedIs ==
  ASSUME TypeOK, NEW c \in Callers
  PROVE  /\ Returned(c) \in Books /\ PayerOf[c] \in Payers /\ calls[c].held \in Nat
         /\ \A p \in Payers :
              /\ Returned(c).cap[p] = book.cap[p]
              /\ p # PayerOf[c] => Returned(c).balance[p] = book.balance[p]
              /\ p = PayerOf[c] => Returned(c).balance[p] = book.balance[p] + calls[c].held
<1>1. PayerOf[c] \in Payers /\ calls[c].held \in Nat /\ book \in Books
  BY GatewayAssumption, FlightIs DEF TypeOK
<1> QED  BY <1>1 DEF Returned, Books

\* What every step does to the types of the books and of the receipts.
BooksType == book \in Books /\ receipts \in [Payers -> Nat] /\ up \in BOOLEAN

\* Every step keeps them.
LEMMA BooksTypeStep ==
  ASSUME TypeOK, FileInv, TailInv, DownInv, [Next]_vars
  PROVE  BooksType'
<1>0. book \in Books /\ receipts \in [Payers -> Nat] /\ up \in BOOLEAN  BY DEF TypeOK
<1>1. ASSUME NEW c \in Callers, Reserve(c) PROVE BooksType'
  <2>1. UNCHANGED <<receipts, up>>  BY <1>1 DEF Reserve, ledgers, bounds
  <2>2. book' = [book EXCEPT !.balance[PayerOf[c]] = @ - calls'[c].held]
    BY <1>1, ReserveIs
  <2>3. calls'[c].held \in Int /\ PayerOf[c] \in Payers  BY <1>1, ReserveIs
  <2>4. book' \in Books  BY <1>0, <2>2, <2>3 DEF Books
  <2> QED  BY <1>0, <2>1, <2>4 DEF BooksType
<1>2. ASSUME NEW c \in Callers, Unpriced(c) PROVE BooksType'
  <2>1. book' = Returned(c) /\ UNCHANGED <<receipts, up>>  BY <1>2 DEF Unpriced, ledgers, bounds
  <2> QED  BY <1>0, <2>1, ReturnedIs DEF BooksType
<1>3. ASSUME NEW c \in Callers, NEW dollars \in Costs, Settle(c, dollars) PROVE BooksType'
  <2>1. UNCHANGED <<receipts, up>>  BY <1>3 DEF Settle, ledgers
  <2>2. calls[c].at # "idle"  BY <1>3 DEF Settle
  <2>3. book' = Apply(Returned(c), DebitRow(c, dollars)) \/ book' = Returned(c)
    BY <1>3 DEF Settle, DebitRow
  <2> QED  BY <1>0, <2>1, <2>2, <2>3, ReturnedIs, RowsAreRows, ApplyIs DEF BooksType
<1>4. ASSUME NEW c \in Callers, Replay(c) PROVE BooksType'
  <2>1. UNCHANGED <<receipts, up>>  BY <1>4 DEF Replay, ledgers
  <2>2. calls[c].at # "idle"  BY <1>4 DEF Replay, GoesAhead
  <2>3. book' = Apply(book, ReplayRow(c)) \/ book' = book
    BY <1>4 DEF Replay, ReplayRow
  <2> QED  BY <1>0, <2>1, <2>2, <2>3, RowsAreRows, ApplyIs DEF BooksType
<1>5. ASSUME NEW c \in Callers, Mint(c) PROVE BooksType'
  <2>1. UNCHANGED <<book, up>>  BY <1>5 DEF Mint, money, bounds
  <2>2. receipts' = [receipts EXCEPT ![PayerOf[c]] = @ + calls[c].dollars]  BY <1>5 DEF Mint
  <2>3. PayerOf[c] \in Payers /\ calls[c].dollars \in Nat
    <3>1. PayerOf[c] \in Payers /\ calls[c] \in Calls  BY RowsAreRows
    <3>2. \A d \in Costs \cup {0} : d \in Nat  BY MaxCostIs
    <3>3. calls[c].dollars \in Costs \cup {0}  BY <3>1 DEF Calls
    <3> QED  BY <3>1, <3>2, <3>3
  <2> QED  BY <1>0, <2>1, <2>2, <2>3 DEF BooksType
<1>6. ASSUME NEW c \in Callers,
             \/ Ask(c) \/ Expire(c) \/ Wait(c)
             \/ RefuseClosed(c) \/ RefuseUnfunded(c) \/ RefuseCongested(c)
      PROVE  BooksType'
  <2>1. UNCHANGED <<book, receipts, up>>
    BY <1>6 DEF Ask, Expire, Wait, RefuseClosed, RefuseUnfunded, RefuseCongested, money, ledgers, bounds
  <2> QED  BY <1>0, <2>1 DEF BooksType
<1>7. ASSUME \/ \E p \in Payers : Close(p)
             \/ \E p \in Payers, usd \in Amounts : Credit(p, usd)
             \/ UNCHANGED vars
      PROVE  BooksType'
  <2>1. UNCHANGED <<book, receipts, up>>
    BY <1>7 DEF Close, Credit, vars, money, ledgers, bounds
  <2> QED  BY <1>0, <2>1 DEF BooksType
<1>8. ASSUME Refresh \/ RefreshRaises PROVE BooksType'
  <2>1. UNCHANGED <<receipts, up>> /\ up  BY <1>8 DEF Refresh, RefreshRaises, ledgers, bounds
  <2>2. Refresh => book' = Replayed /\ Readable(consumed + 1)  BY DEF Refresh
  <2> QED  BY <1>0, <1>8, <2>1, <2>2, RefreshIs DEF BooksType
<1>9. ASSUME NEW p \in Payers, NEW w \in 1..MaxWindow, NEW usd \in Amounts, Bind(p, w, usd)
      PROVE  BooksType'
  <2>1. UNCHANGED <<receipts, up>> /\ up /\ Readable(consumed + 1)  BY <1>9 DEF Bind, ledgers
  <2>2. book' = Apply(Replayed, CapRow(p, w, usd)) \/ book' = Replayed
    BY <1>9 DEF Bind, CapRow
  <2> QED  BY <1>0, <2>1, <2>2, RefreshIs, RowsAreRows, ApplyIs DEF BooksType
<1>10. ASSUME Crash \/ Restart PROVE BooksType'
  <2>1. CASE Crash
    <3>1. book' = Blank /\ receipts' = Fresh(0) /\ up' = FALSE  BY <2>1 DEF Crash
    <3> QED  BY <3>1, BlankIs DEF BooksType, Fresh
  <2>2. CASE Restart
    <3>1. book' = Journaled /\ receipts' = receipts /\ up' = TRUE /\ Readable(1)
      BY <2>2 DEF Restart, Journaled
    <3> QED  BY <1>0, <3>1, JournaledIs DEF BooksType
  <2> QED  BY <1>10, <2>1, <2>2
<1> QED  BY <1>1, <1>2, <1>3, <1>4, <1>5, <1>6, <1>7, <1>8, <1>9, <1>10 DEF Next, Proceed, ProviderFails, KeyRefused

\* A dead gateway stays dead and holds nothing until it is built again.
LEMMA DownStep ==
  ASSUME DownInv, [Next]_vars
  PROVE  DownInv'
<1>1. CASE Crash  BY <1>1 DEF Crash, DownInv
<1>2. CASE Restart  BY <1>2 DEF Restart, DownInv
<1>3. ASSUME NEW p \in Payers, NEW usd \in Amounts, Credit(p, usd) PROVE DownInv'
  <2>1. UNCHANGED <<book, consumed, held, holding, short, receipts, calls, up>>
    BY <1>3 DEF Credit, money, ledgers
  <2> QED  BY <2>1 DEF DownInv
<1>4. CASE UNCHANGED vars
  <2>1. UNCHANGED <<book, consumed, held, holding, short, receipts, calls, up>>
    BY <1>4 DEF vars, file, money, ledgers, bounds
  <2> QED  BY <2>1 DEF DownInv
<1>5. ASSUME NEW c \in Callers, Ask(c) \/ Expire(c) \/ Proceed(c) PROVE DownInv'
  <2>1. up' = up  BY <1>5 DEF Ask, Expire, Proceed, RefuseClosed, RefuseUnfunded, RefuseCongested,
                             Wait, Reserve, Replay, Mint, ProviderFails, KeyRefused, Unpriced,
                             Settle, bounds
  <2>2. up  BY <1>5, CallIsLive DEF Ask, Expire, Proceed, RefuseClosed, RefuseUnfunded,
                             RefuseCongested, Wait, Reserve, Replay, Mint, ProviderFails,
                             KeyRefused, Unpriced, Settle, GoesAhead
  <2> QED  BY <2>1, <2>2 DEF DownInv
<1>6. ASSUME \/ Refresh \/ RefreshRaises \/ \E p \in Payers : Close(p)
             \/ \E p \in Payers, w \in 1..MaxWindow, usd \in Amounts : Bind(p, w, usd)
      PROVE  DownInv'
  <2>1. up /\ up' = up  BY <1>6 DEF Refresh, RefreshRaises, Close, Bind, bounds
  <2> QED  BY <2>1 DEF DownInv
<1> QED  BY <1>1, <1>2, <1>3, <1>4, <1>5, <1>6 DEF Next

(***************************************************************************)
(* The books against the journal.                                          *)
(***************************************************************************)

\* A row added to the readable lines is the last one applied.
LEMMA AddsIs ==
  ASSUME TypeOK, FileInv, NEW row \in Row, Adds(row)
  PROVE  /\ Journaled' = Apply(Journaled, row)
         /\ \A b : ReplayOnto(b, Whole', consumed + 1) = Apply(ReplayOnto(b, Whole, consumed + 1), row)
         /\ \A b : ReplayOnto(b, Whole', Len(Whole) + 1) = Apply(b, row)
<1>1. /\ Whole \in Seq(Lines) /\ Len(Whole) \in Nat /\ Whole' = Append(Whole, row)
      /\ 1 \in 1..Len(Whole) + 1 /\ consumed + 1 \in 1..Len(Whole) + 1
      /\ Len(Whole) + 1 \in 1..Len(Whole) + 1
  BY WholeIs DEF Adds, TypeOK, FileInv
<1>2. \A b : \A from \in 1..Len(Whole) + 1 :
        ReplayOnto(b, Whole', from) = Apply(ReplayOnto(b, Whole, from), row)
  BY <1>1, ReplayAppend
<1>3. \A b : ReplayOnto(b, Whole, Len(Whole) + 1) = b  BY <1>1, ReplayNone
<1>4. Journaled' = ReplayOnto(Blank, Whole', 1)  BY DEF Journaled
<1> QED  BY <1>1, <1>2, <1>3, <1>4 DEF Journaled

\* A row left in the file by a write that failed is its payer's.
LEMMA OrphanSpoils ==
  ASSUME TypeOK, FileInv, NEW row \in Row, Adds(row), orphans' = orphans \cup {Len(Whole')},
         NEW p \in Payers, Unspoilt(p)'
  PROVE  row.payer # p
<1>1. SUFFICES ASSUME row.payer = p PROVE FALSE  OBVIOUS
<1>2. Len(Whole') \in orphans' /\ journal'[Len(Whole')] = row
  BY WholeIs DEF Adds
<1>3. row # JUNK /\ row.op \in Ops  BY GatewayAssumption DEF Row
<1>4. Len(Whole') \in Orphans(p, Ops)'  BY <1>1, <1>2, <1>3 DEF Orphans
<1> QED  BY <1>4 DEF Unspoilt

\* While the books account for the same rows, new rows add to them what they add to the journal.
LEMMA RowsShift ==
  ASSUME TypeOK, FileInv, TailInv, up, NEW p \in Payers, Unspoilt(p), Readable(1),
         book' \in Books, consumed' = consumed,
         \/ Whole' = Whole
         \/ \E row \in Row : Adds(row) /\ (row.payer = p => row.op = "credit")
  PROVE  /\ Journaled \in Books /\ Replayed \in Books
         /\ Journaled'.cap[p] = Journaled.cap[p]
         /\ \E u \in Nat :
              /\ Journaled'.balance[p] = Journaled.balance[p] + u
              /\ Replayed'.balance[p] = book'.balance[p] + (Replayed.balance[p] - book.balance[p]) + u
<1> DEFINE mid == ReplayOnto(book', Whole, consumed + 1)
<1>1. /\ Whole \in Seq(Lines) /\ Len(Whole) \in Nat /\ consumed \in Nat /\ consumed <= Len(Whole)
      /\ book \in Books /\ Len(Whole) <= Len(Whole)
  BY WholeIs DEF TypeOK, FileInv
<1>2. \A i \in consumed + 1..Len(Whole) : Whole[i] = Whole[i] /\ Whole[i] # JUNK
  BY <1>1 DEF Readable
<1>3. /\ mid \in Books /\ Replayed \in Books
      /\ mid.balance[p] - book'.balance[p] = Replayed.balance[p] - book.balance[p]
  <2>1. \A b, d \in Books :
          /\ ReplayOnto(b, Whole, consumed + 1) \in Books
          /\ ReplayOnto(b, Whole, consumed + 1).balance[p] - b.balance[p]
               = ReplayOnto(d, Whole, consumed + 1).balance[p] - d.balance[p]
    BY <1>1, <1>2, TailReplays
  <2> QED  BY <1>1, <2>1 DEF Replayed
<1>4. Journaled \in Books  BY JournaledIs
<1>5. Journaled' = ReplayOnto(Blank, Whole', 1)  BY DEF Journaled
<1>6. Replayed' = ReplayOnto(book', Whole', consumed + 1)  BY DEF Replayed
<1> HIDE DEF mid
<1>7. /\ Journaled.balance[p] \in Int /\ mid.balance[p] \in Int /\ Replayed.balance[p] \in Int
      /\ book.balance[p] \in Int /\ book'.balance[p] \in Int
  BY <1>1, <1>3, <1>4 DEF Books
<1>8. mid.balance[p] = book'.balance[p] + (Replayed.balance[p] - book.balance[p])
  <2> DEFINE x == mid.balance[p]
             y == book'.balance[p]
             z == Replayed.balance[p]
             w == book.balance[p]
  <2>1. x \in Int /\ y \in Int /\ z \in Int /\ w \in Int /\ x - y = z - w  BY <1>3, <1>7
  <2> HIDE DEF x, y, z, w
  <2>2. x = y + (z - w)  BY <2>1
  <2> QED  BY <2>2 DEF x, y, z, w
<1>9. CASE Whole' = Whole
  <2>1. Journaled' = Journaled /\ Replayed' = mid  BY <1>5, <1>6, <1>9 DEF Journaled, mid
  <2>2. Journaled'.balance[p] = Journaled.balance[p] + 0 /\ mid.balance[p] = mid.balance[p] + 0
    BY <1>7, <2>1
  <2> QED  BY <1>3, <1>4, <1>8, <2>1, <2>2
<1>10. ASSUME NEW row \in Row, Adds(row), row.payer = p => row.op = "credit"
       PROVE  /\ Journaled'.cap[p] = Journaled.cap[p]
              /\ \E u \in Nat : /\ Journaled'.balance[p] = Journaled.balance[p] + u
                                /\ Replayed'.balance[p] = mid.balance[p] + u
  <2>1. Journaled' = Apply(Journaled, row) /\ Replayed' = Apply(mid, row)
    BY <1>6, <1>10, AddsIs DEF mid
  <2>2. row.usd \in Nat  BY DEF Row
  <2>3. CASE row.payer = p
    <3>1. /\ Journaled'.balance[p] = Journaled.balance[p] + row.usd
          /\ Replayed'.balance[p] = mid.balance[p] + row.usd
          /\ Journaled'.cap[p] = Journaled.cap[p]
      BY <1>3, <1>4, <1>10, <2>1, <2>3, ApplyIs
    <3> QED  BY <2>2, <3>1
  <2>4. CASE row.payer # p
    <3>1. /\ Journaled'.balance[p] = Journaled.balance[p]
          /\ Replayed'.balance[p] = mid.balance[p]
          /\ Journaled'.cap[p] = Journaled.cap[p]
      BY <1>3, <1>4, <2>1, <2>4, ApplyIs
    <3>2. Journaled.balance[p] = Journaled.balance[p] + 0 /\ mid.balance[p] = mid.balance[p] + 0
      BY <1>7
    <3> QED  BY <3>1, <3>2
  <2> QED  BY <2>3, <2>4
<1> QED  BY <1>3, <1>4, <1>8, <1>9, <1>10

\* What the live books and the holds add up to stays: so does what they say against the journal.
LEMMA BooksKept ==
  ASSUME TypeOK, FileInv, TailInv, up, NEW p \in Payers, Unspoilt(p), Readable(1), BooksOf(p),
         book' \in Books, held' \in [Payers -> Int], consumed' = consumed,
         \/ Whole' = Whole
         \/ \E row \in Row : Adds(row) /\ (row.payer = p => row.op = "credit"),
         excused \subseteq excused', book'.cap[p] = book.cap[p],
         book'.balance[p] + held'[p] = book.balance[p] + held[p]
  PROVE  BooksOf(p)'
<1>1. /\ Journaled \in Books /\ Replayed \in Books
      /\ Journaled'.cap[p] = Journaled.cap[p]
      /\ \E u \in Nat :
           /\ Journaled'.balance[p] = Journaled.balance[p] + u
           /\ Replayed'.balance[p] = book'.balance[p] + (Replayed.balance[p] - book.balance[p]) + u
  BY RowsShift
<1>2. PICK u \in Nat :
           /\ Journaled'.balance[p] = Journaled.balance[p] + u
           /\ Replayed'.balance[p] = book'.balance[p] + (Replayed.balance[p] - book.balance[p]) + u
  BY <1>1
<1>3. /\ Journaled.balance[p] \in Int /\ Replayed.balance[p] \in Int
      /\ book.balance[p] \in Int /\ book'.balance[p] \in Int /\ held[p] \in Int /\ held'[p] \in Int
  BY <1>1 DEF Books, TypeOK
<1>4. ASSUME Replayed.balance[p] + held[p] <= Journaled.balance[p]
      PROVE  Replayed'.balance[p] + held'[p] <= Journaled'.balance[p]
  <2>1. \A j, r, b, c, h, k \in Int : \A n \in Nat :
          r + h <= j /\ c + k = b + h => c + (r - b) + n + k <= j + n
    OBVIOUS
  <2> DEFINE j == Journaled.balance[p]
             r == Replayed.balance[p]
             b == book.balance[p]
             c == book'.balance[p]
  <2>2. /\ j \in Int /\ r \in Int /\ b \in Int /\ c \in Int
        /\ r + held[p] <= j /\ c + held'[p] = b + held[p]
        /\ Replayed'.balance[p] = c + (r - b) + u /\ Journaled'.balance[p] = j + u
    BY <1>2, <1>3, <1>4
  <2> HIDE DEF j, r, b, c
  <2>3. c + (r - b) + u + held'[p] <= j + u  BY <1>3, <2>1, <2>2
  <2> QED  BY <2>2, <2>3
<1> QED  BY <1>1, <1>4 DEF BooksOf

\* Once every row is accounted for, replaying the rest changes nothing.
LEMMA CaughtUpIs ==
  ASSUME FileStays, consumed' = Len(Whole')
  PROVE  Replayed' = book'
<1>1. Len(Whole') \in Nat  BY DEF FileStays
<1>2. Replayed' = ReplayOnto(book', Whole', Len(Whole') + 1)  BY DEF Replayed
<1> QED  BY <1>1, <1>2, ReplayNone

\* What a step starts from, and what is already known of where it ends.
Before == /\ TypeOK /\ FileInv /\ TailInv /\ HoldInv /\ ShortInv /\ DownInv
          /\ BooksInv /\ OverrunInv
After == FileStays /\ CallsStay /\ BooksType' /\ excused \subseteq excused'

\* What is left to show of one payer.
PayerKept(p) == /\ up' /\ Readable(1)' => BooksOf(p)'
                /\ p \notin excused' => OverrunOf(p)'

\* What held of a payer no write has spoilt.
LEMMA PayerWas ==
  ASSUME Before, FileStays, NEW p \in Payers, Unspoilt(p)'
  PROVE  /\ Unspoilt(p) /\ (Readable(1)' => Readable(1)) /\ (up /\ Readable(1) => BooksOf(p))
         /\ p \notin excused => OverrunOf(p)
         /\ book.balance[p] \in Int /\ held[p] \in Int /\ short[p] \in {0, 1} /\ held[p] >= 0
<1>1. Unspoilt(p) /\ (Readable(1)' => Readable(1))  BY BeforeIs DEF Before, FileStays
<1>2. book.balance[p] \in Int /\ held[p] \in Int /\ short[p] \in {0, 1}
  BY DEF Before, TypeOK, Books
<1>3. held[p] >= 0  BY HeldIsNat DEF Before, HoldInv, TypeOK
<1> QED  BY <1>1, <1>2, <1>3 DEF Before, BooksInv, OverrunInv

\* A step that accounts for no more rows and leaves balance and holds together as they were.
LEMMA SteadyIs ==
  ASSUME Before, After, up, NEW p \in Payers, Unspoilt(p)', consumed' = consumed,
         Readable(1)' => \/ Whole' = Whole
                         \/ \E row \in Row : Adds(row) /\ (row.payer = p => row.op = "credit"),
         book'.cap[p] = book.cap[p],
         book'.balance[p] + held'[p] = book.balance[p] + held[p],
         OverrunOf(p) => OverrunOf(p)'
  PROVE  PayerKept(p)
<1>1. /\ Unspoilt(p) /\ (Readable(1)' => Readable(1)) /\ (Readable(1) => BooksOf(p))
      /\ p \notin excused => OverrunOf(p)
  BY PayerWas DEF After
<1>2. ASSUME Readable(1)' PROVE BooksOf(p)'
  <2>1. TypeOK /\ FileInv /\ TailInv  BY DEF Before
  <2>2. book' \in Books /\ held' \in [Payers -> Int] /\ excused \subseteq excused'
    BY DEF After, BooksType, CallsStay
  <2>3. Readable(1) /\ BooksOf(p)  BY <1>1, <1>2
  <2>4. \/ Whole' = Whole
        \/ \E row \in Row : Adds(row) /\ (row.payer = p => row.op = "credit")
    BY <1>2
  <2> QED  BY <1>1, <2>1, <2>2, <2>3, <2>4, BooksKept
<1>3. p \notin excused' => OverrunOf(p)'  BY <1>1 DEF After
<1> QED  BY <1>2, <1>3 DEF PayerKept

\* A row the disk refused changes nothing of an unspoilt payer in a journal that can be read.
LEMMA RefusedRow ==
  ASSUME Before, NEW row \in Row, NEW mark, Unrecorded(row, mark), NEW p \in Payers, Unspoilt(p)',
         Readable(1)'
  PROVE  \/ Whole' = Whole
         \/ Adds(row) /\ row.payer # p
<1>1. \/ Kept
      \/ Adds(row) /\ ~torn /\ orphans' = orphans \cup {Len(Whole')}
      \/ Spoils
  BY UnrecordedIs DEF Before
<1>2. ~Spoils  BY DEF Spoils
<1>3. ASSUME Adds(row), orphans' = orphans \cup {Len(Whole')} PROVE row.payer # p
  BY <1>3, OrphanSpoils DEF Before
<1> QED  BY <1>1, <1>2, <1>3 DEF Kept

\* A call goes to its provider with no more than is free.
LEMMA ReserveKeepsBooks ==
  ASSUME Before, After, NEW c \in Callers, Reserve(c), NEW p \in Payers, Unspoilt(p)'
  PROVE  PayerKept(p)
<1>1. /\ PayerOf[c] \in Payers /\ calls'[c].held \in Nat
      /\ Free(c) \in Int /\ Free(c) > 0 /\ calls'[c].held <= Free(c)
      /\ book' = [book EXCEPT !.balance[PayerOf[c]] = @ - calls'[c].held]
      /\ held' = [held EXCEPT ![PayerOf[c]] = @ + calls'[c].held]
      /\ short' = IF calls'[c].short THEN [short EXCEPT ![PayerOf[c]] = @ + 1] ELSE short
  BY ReserveIs DEF Before
<1>2. up /\ consumed' = consumed /\ Whole' = Whole
  BY CallIsLive DEF Reserve, GoesAhead, file, Before, Whole
<1>3. book \in Books /\ held \in [Payers -> Int] /\ short \in [Payers -> {0, 1}] /\ MaxCost \in Nat
      /\ MaxCost > 0
  BY MaxCostIs DEF Before, TypeOK
<1>4. CASE p = PayerOf[c]
  <2>1. /\ book'.cap[p] = book.cap[p] /\ book'.balance[p] = book.balance[p] - calls'[c].held
        /\ held'[p] = held[p] + calls'[c].held
        /\ book.balance[p] \in Int /\ held[p] \in Int /\ Free(c) = book.balance[p]
    BY <1>1, <1>3, <1>4 DEF Books, Free
  <2>2. book'.balance[p] + held'[p] = book.balance[p] + held[p]
    <3> DEFINE b == book.balance[p]
    <3>1. b \in Int /\ book'.balance[p] = b - calls'[c].held  BY <2>1
    <3> HIDE DEF b
    <3>2. (b - calls'[c].held) + (held[p] + calls'[c].held) = b + held[p]  BY <1>1, <2>1, <3>1
    <3> QED  BY <2>1, <3>1, <3>2 DEF b
  <2>3. OverrunOf(p)'
    <3> DEFINE b == book'.balance[p]
    <3>1. b \in Int /\ b >= 0
      <4>1. \A x \in Int : \A y \in Nat : y <= x => x - y \in Int /\ x - y >= 0  OBVIOUS
      <4> QED  BY <1>1, <2>1, <4>1
    <3> HIDE DEF b
    <3>2. b > 0 - MaxCost /\ b >= 0  BY <1>3, <3>1
    <3> QED  BY <3>2 DEF b, OverrunOf
  <2> QED  BY <1>2, <2>1, <2>2, <2>3, SteadyIs
<1>5. CASE p # PayerOf[c]
  <2>1. /\ book'.cap[p] = book.cap[p] /\ book'.balance[p] = book.balance[p]
        /\ held'[p] = held[p] /\ short'[p] = short[p]
    BY <1>1, <1>3, <1>5 DEF Books
  <2>2. OverrunOf(p) => OverrunOf(p)'  BY <2>1 DEF OverrunOf
  <2> QED  BY <1>2, <2>1, <2>2, SteadyIs
<1> QED  BY <1>4, <1>5

\* What returning a hold makes of the payers' dollars.
LEMMA UnholdIs ==
  ASSUME Before, NEW c \in Callers, Unhold(c), calls[c].at = "provider"
  PROVE  /\ PayerOf[c] \in Payers /\ calls[c].held \in Nat
         /\ held'[PayerOf[c]] = held[PayerOf[c]] - calls[c].held
         /\ short'[PayerOf[c]] = IF calls[c].short THEN 0 ELSE short[PayerOf[c]]
         /\ \A p \in Payers : p # PayerOf[c] => held'[p] = held[p] /\ short'[p] = short[p]
         /\ calls[c].short => calls[c].held > 0 /\ short[PayerOf[c]] = 1
<1>1. PayerOf[c] \in Payers /\ calls[c].held \in Nat /\ calls[c] \in Calls
  BY FlightIs, RowsAreRows DEF Before, TypeOK
<1>2. calls[c].short => calls[c].held > 0 /\ short[PayerOf[c]] = 1
  <2>1. c \in InFlight(PayerOf[c])  BY DEF InFlight
  <2> QED  BY <1>1, <2>1 DEF Before, ShortInv
<1>3. held \in [Payers -> Int] /\ short \in [Payers -> {0, 1}]  BY DEF Before, TypeOK
<1>4. /\ held' = [held EXCEPT ![PayerOf[c]] = @ - calls[c].held]
      /\ short' = IF calls[c].short THEN [short EXCEPT ![PayerOf[c]] = @ - 1] ELSE short
  BY DEF Unhold
<1> QED  BY <1>1, <1>2, <1>3, <1>4

\* A call comes back and costs nothing, whatever becomes of a row the disk refused.
LEMMA ReturnKeepsBooks ==
  ASSUME Before, After, NEW c \in Callers, Unhold(c), calls[c].at = "provider",
         book' = Returned(c), consumed' = consumed, NEW p \in Payers, Unspoilt(p)',
         Readable(1)' => \/ Whole' = Whole
                         \/ \E row \in Row : Adds(row) /\ row.payer # p
  PROVE  PayerKept(p)
<1>1. up /\ MaxCost \in Nat  BY CallIsLive, MaxCostIs DEF Before
<1>2. /\ book'.cap[p] = book.cap[p]
      /\ p # PayerOf[c] => book'.balance[p] = book.balance[p]
      /\ p = PayerOf[c] => book'.balance[p] = book.balance[p] + calls[c].held
  BY ReturnedIs DEF Before
<1>3. /\ calls[c].held \in Nat /\ book.balance[p] \in Int /\ held[p] \in Int /\ short[p] \in {0, 1}
      /\ p # PayerOf[c] => held'[p] = held[p] /\ short'[p] = short[p]
      /\ p = PayerOf[c] => held'[p] = held[p] - calls[c].held /\ (short'[p] > 0 => short[p] > 0)
  BY UnholdIs, PayerWas DEF After
<1> DEFINE b == book.balance[p]
           d == book'.balance[p]
<1>4. d + held'[p] = b + held[p] /\ d >= b /\ d \in Int /\ b \in Int
  <2>1. \A x, h \in Int : \A n \in Nat : (x + n) + (h - n) = x + h /\ x + n >= x /\ x + n \in Int
    OBVIOUS
  <2> QED  BY <1>2, <1>3, <2>1
<1> HIDE DEF b, d
<1>5. b > 0 - MaxCost => d > 0 - MaxCost  BY <1>1, <1>4
<1>6. b >= 0 => d >= 0  BY <1>4
<1>7. OverrunOf(p) => OverrunOf(p)'  BY <1>3, <1>5, <1>6 DEF OverrunOf, b, d
<1>8. book'.balance[p] + held'[p] = book.balance[p] + held[p]  BY <1>4 DEF b, d
<1> QED  BY <1>1, <1>2, <1>7, <1>8, SteadyIs

\* A recorded charge: the live books and the journal go down together.
LEMMA ChargeIs ==
  ASSUME Before, After, up, NEW row \in Row, row.op \in Charges, Recorded(row), orphans' = orphans,
         NEW b \in Books, book' = Apply(b, row), NEW p \in Payers, Unspoilt(p)',
         b.cap[p] = book.cap[p], b.balance[p] + held'[p] = book.balance[p] + held[p]
  PROVE  /\ Readable(1)' => BooksOf(p)'
         /\ p # row.payer => book'.balance[p] = b.balance[p]
         /\ p = row.payer => book'.balance[p] = b.balance[p] - row.usd
<1>1. /\ book'.cap[p] = book.cap[p]
      /\ p # row.payer => book'.balance[p] = b.balance[p]
      /\ p = row.payer => book'.balance[p] = b.balance[p] - row.usd
  BY ApplyIs
<1>2. ASSUME Readable(1)' PROVE BooksOf(p)'
  <2>1. Adds(row) /\ consumed' = Len(Whole')
    <3>1. ~Spoils  BY <1>2 DEF Spoils
    <3> QED  BY <3>1, RecordedIs DEF Before
  <2>2. Unspoilt(p) /\ Readable(1) /\ BooksOf(p) /\ held[p] \in Int /\ book.balance[p] \in Int
    BY <1>2, PayerWas DEF After
  <2>3. Journaled \in Books /\ Journaled' = Apply(Journaled, row)
    BY <2>1, <2>2, JournaledIs, AddsIs DEF Before
  <2>4. Replayed' = book'  BY <2>1, CaughtUpIs DEF After
  <2>5. Readable(consumed + 1) /\ Replayed.balance[p] >= book.balance[p] /\ Replayed \in Books
    <3>1. Readable(consumed + 1)  BY <2>2, WholeIs DEF Readable, Before, TypeOK
    <3> QED  BY <2>2, <3>1, RefreshIs DEF Before
  <2>6. /\ Journaled'.cap[p] = Journaled.cap[p]
        /\ p # row.payer => Journaled'.balance[p] = Journaled.balance[p]
        /\ p = row.payer => Journaled'.balance[p] = Journaled.balance[p] - row.usd
    BY <2>3, ApplyIs
  <2>7. excused \subseteq excused' /\ held'[p] \in Int /\ row.usd \in Nat
    BY DEF After, CallsStay, Row
  <2>8. ASSUME Replayed.balance[p] + held[p] <= Journaled.balance[p]
        PROVE  book'.balance[p] + held'[p] <= Journaled'.balance[p]
    <3> DEFINE u == IF p = row.payer THEN row.usd ELSE 0
               x == b.balance[p]
               y == book.balance[p]
               j == Journaled.balance[p]
               r == Replayed.balance[p]
    <3>1. x \in Int /\ y \in Int /\ j \in Int /\ r \in Int  BY <2>2, <2>3, <2>5 DEF Books
    <3>2. /\ x + held'[p] = y + held[p] /\ r >= y /\ r + held[p] <= j /\ u \in Nat
          /\ book'.balance[p] = x - u /\ Journaled'.balance[p] = j - u
      BY <1>1, <2>5, <2>6, <2>7, <2>8, <3>1
    <3> HIDE DEF u, x, y, j, r
    <3>3. (x - u) + held'[p] <= j - u  BY <2>2, <2>7, <3>1, <3>2
    <3> QED  BY <3>2, <3>3
  <2> QED  BY <1>1, <2>2, <2>4, <2>6, <2>7, <2>8 DEF BooksOf
<1> QED  BY <1>1, <1>2

\* A call settles: it costs no more than it held, or it was the one call that held less, or its
\* payer is excused.
LEMMA SettleKeepsBooks ==
  ASSUME Before, After, NEW c \in Callers, NEW dollars \in Costs, Settle(c, dollars),
         NEW p \in Payers, Unspoilt(p)'
  PROVE  PayerKept(p)
<1> DEFINE row == DebitRow(c, dollars)
<1>1. /\ calls[c].at = "provider" /\ Unhold(c) /\ up /\ row \in Row /\ row.op \in Charges
      /\ row.payer = PayerOf[c] /\ row.usd = dollars
  BY CallIsLive, RowsAreRows DEF Settle, Before, DebitRow, Charges
<1>2. CASE Unrecorded(row, consumed) /\ book' = Returned(c)
  <2>1. consumed' = consumed  BY <1>2 DEF Unrecorded
  <2>2. Readable(1)' => \/ Whole' = Whole
                        \/ \E r \in Row : Adds(r) /\ r.payer # p
    <3> HIDE DEF row
    <3> QED  BY <1>1, <1>2, RefusedRow
  <2> QED  BY <1>1, <1>2, <2>1, <2>2, ReturnKeepsBooks
<1>3. CASE Recorded(row) /\ orphans' = orphans /\ book' = Apply(Returned(c), row)
  <2> DEFINE b == Returned(c)
  <2>1. /\ b \in Books /\ b.cap[p] = book.cap[p] /\ calls[c].held \in Nat
        /\ p # PayerOf[c] => b.balance[p] = book.balance[p]
        /\ p = PayerOf[c] => b.balance[p] = book.balance[p] + calls[c].held
    BY ReturnedIs DEF Before
  <2>2. /\ p # PayerOf[c] => held'[p] = held[p] /\ short'[p] = short[p]
        /\ p = PayerOf[c] => /\ held'[p] = held[p] - calls[c].held
                             /\ short'[p] = IF calls[c].short THEN 0 ELSE short[p]
                             /\ calls[c].short => calls[c].held > 0 /\ short[p] = 1
    BY <1>1, UnholdIs
  <2>3. /\ book.balance[p] \in Int /\ held[p] \in Int /\ short[p] \in {0, 1}
        /\ p \notin excused => OverrunOf(p)
    BY PayerWas DEF After
  <2>4. b.balance[p] + held'[p] = book.balance[p] + held[p]
    <3> DEFINE x == b.balance[p]
               y == book.balance[p]
    <3>1. /\ y \in Int
          /\ p # PayerOf[c] => x = y
          /\ p = PayerOf[c] => x = y + calls[c].held
      BY <2>1, <2>3
    <3> HIDE DEF x, y, b
    <3>2. \A v, h \in Int : \A n \in Nat : (v + n) + (h - n) = v + h  OBVIOUS
    <3>3. CASE p = PayerOf[c]
      <4>1. x = y + calls[c].held /\ held'[p] = held[p] - calls[c].held  BY <2>2, <3>1, <3>3
      <4>2. (y + calls[c].held) + (held[p] - calls[c].held) = y + held[p]
        BY <2>1, <2>3, <3>1, <3>2
      <4> QED  BY <4>1, <4>2 DEF x, y
    <3>4. CASE p # PayerOf[c]
      <4>1. x = y /\ held'[p] = held[p]  BY <2>2, <3>1, <3>4
      <4> QED  BY <4>1 DEF x, y
    <3> QED  BY <3>3, <3>4
  <2> HIDE DEF b, row
  <2>5. /\ Readable(1)' => BooksOf(p)'
        /\ p # row.payer => book'.balance[p] = b.balance[p]
        /\ p = row.payer => book'.balance[p] = b.balance[p] - row.usd
    <3>1. book' = Apply(b, row)  BY <1>3 DEF b
    <3> QED  BY <1>1, <1>3, <2>1, <2>4, <3>1, ChargeIs
  <2>6. ASSUME p \notin excused' PROVE OverrunOf(p)'
    <3>1. p \notin excused /\ OverrunOf(p)  BY <2>3, <2>6 DEF After
    <3>2. p = PayerOf[c] => calls[c].short \/ dollars <= calls[c].held
      <4>1. dollars \in Nat /\ calls[c] \in Calls  BY MaxCostIs, RowsAreRows DEF Before
      <4>2. excused' = IF ~calls[c].short /\ dollars > calls[c].held
                       THEN excused \cup {PayerOf[c]} ELSE excused
        BY DEF Settle
      <4> QED  BY <2>1, <2>6, <4>1, <4>2
    <3>3. dollars \in Nat /\ dollars <= MaxCost /\ MaxCost \in Nat  BY MaxCostIs
    <3> DEFINE y == book.balance[p]
               z == book'.balance[p]
    <3>4. y \in Int /\ y > 0 - MaxCost /\ (short[p] > 0 => y >= 0)
      BY <2>3, <3>1 DEF OverrunOf
    <3>5. /\ p # PayerOf[c] => z = y
          /\ p = PayerOf[c] => z = (y + calls[c].held) - dollars
      BY <1>1, <2>1, <2>5
    <3> HIDE DEF y, z
    <3>6. z > 0 - MaxCost /\ (short'[p] > 0 => z >= 0)
      <4>1. CASE p # PayerOf[c]  BY <2>2, <3>4, <3>5, <4>1
      <4>2. CASE p = PayerOf[c] /\ calls[c].short
        <5>1. y >= 0 /\ short'[p] = 0 /\ calls[c].held > 0  BY <2>2, <3>4, <4>2
        <5>2. z = (y + calls[c].held) - dollars  BY <3>5, <4>2
        <5> QED  BY <2>1, <3>3, <3>4, <5>1, <5>2
      <4>3. CASE p = PayerOf[c] /\ ~calls[c].short
        <5>1. dollars <= calls[c].held /\ short'[p] = short[p]  BY <2>2, <3>2, <4>3
        <5>2. z = (y + calls[c].held) - dollars  BY <3>5, <4>3
        <5>3. z >= y /\ z \in Int  BY <2>1, <3>3, <3>4, <5>1, <5>2
        <5> QED  BY <3>3, <3>4, <5>1, <5>3
      <4> QED  BY <4>1, <4>2, <4>3
    <3> QED  BY <3>6 DEF OverrunOf, z
  <2> QED  BY <2>5, <2>6 DEF PayerKept
<1> QED  BY <1>2, <1>3 DEF Settle, DebitRow

\* A row is replayed only on money that is there, or within what an under-reserved call leaves.
LEMMA ReplayKeepsBooks ==
  ASSUME Before, After, NEW c \in Callers, Replay(c), NEW p \in Payers, Unspoilt(p)'
  PROVE  PayerKept(p)
<1> DEFINE row == ReplayRow(c)
<1>1. /\ calls[c].at = "asking" /\ calls[c].replay /\ ~AwaitsMoney(c)
      /\ up /\ row \in Row /\ row.op \in Charges
      /\ row.payer = PayerOf[c] /\ row.usd = calls[c].dollars
      /\ held' = held /\ short' = short
  BY CallIsLive, RowsAreRows DEF Replay, GoesAhead, Before, ReplayRow, Charges
<1>2. /\ book.balance[p] \in Int /\ held[p] \in Int /\ short[p] \in {0, 1}
      /\ p \notin excused => OverrunOf(p)
  BY PayerWas DEF After
<1>3. CASE Unrecorded(row, consumed) /\ book' = book
  <2>1. consumed' = consumed  BY <1>3 DEF Unrecorded
  <2>2. Readable(1)' => \/ Whole' = Whole
                        \/ \E r \in Row : Adds(r) /\ r.payer # p
    <3> HIDE DEF row
    <3> QED  BY <1>1, <1>3, RefusedRow
  <2>3. OverrunOf(p) => OverrunOf(p)'  BY <1>1, <1>3 DEF OverrunOf
  <2>4. book'.cap[p] = book.cap[p] /\ book'.balance[p] + held'[p] = book.balance[p] + held[p]
    BY <1>1, <1>3
  <2> HIDE DEF row
  <2> QED  BY <1>1, <2>1, <2>2, <2>3, <2>4, SteadyIs
<1>4. CASE Recorded(row) /\ orphans' = orphans /\ book' = Apply(book, row)
  <2>1. book \in Books /\ book.balance[p] + held'[p] = book.balance[p] + held[p]
    BY <1>1 DEF Before, TypeOK
  <2>2. /\ Readable(1)' => BooksOf(p)'
        /\ p # row.payer => book'.balance[p] = book.balance[p]
        /\ p = row.payer => book'.balance[p] = book.balance[p] - row.usd
    <3> HIDE DEF row
    <3> QED  BY <1>1, <1>4, <2>1, ChargeIs
  <2>3. calls[c].dollars \in Nat /\ calls[c].dollars <= MaxCost /\ MaxCost \in Nat /\ MaxCost > 0
    <3>1. calls[c] \in Calls  BY RowsAreRows DEF Before
    <3>2. calls[c].dollars \in Costs \cup {0}  BY <3>1 DEF Calls
    <3>3. \A d \in Costs \cup {0} : d \in Nat /\ d <= MaxCost  BY MaxCostIs
    <3> HIDE <1>1
    <3> QED  BY <3>2, <3>3, MaxCostIs
  <2>4. ASSUME p \notin excused' PROVE OverrunOf(p)'
    <3> DEFINE y == book.balance[p]
               z == book'.balance[p]
    <3>1. y \in Int /\ y > 0 - MaxCost /\ (short[p] > 0 => y >= 0)
      BY <1>2, <2>4 DEF OverrunOf, After
    <3>2. p # PayerOf[c] => z = y  BY <1>1, <2>2
    <3>3. p = PayerOf[c] => z = y - calls[c].dollars  BY <1>1, <2>2
    <3>4. p = PayerOf[c] => y > 0 /\ (short[p] > 0 => calls[c].dollars <= y)
      <4>1. SUFFICES ASSUME p = PayerOf[c]
                     PROVE  y > 0 /\ (short[p] > 0 => calls[c].dollars <= y)
        OBVIOUS
      <4>2. ~(y <= 0) /\ ~(short[p] > 0 /\ calls[c].dollars > y)
        BY <1>1, <4>1 DEF AwaitsMoney, Free
      <4> HIDE DEF y
      <4> QED  BY <2>3, <3>1, <4>2
    <3> HIDE DEF y, z
    <3>5. z > 0 - MaxCost /\ (short[p] > 0 => z >= 0)
      <4>1. CASE p # PayerOf[c]  BY <3>1, <3>2, <4>1
      <4>2. CASE p = PayerOf[c]
        <5>1. z = y - calls[c].dollars /\ y > 0 /\ (short[p] > 0 => calls[c].dollars <= y)
          BY <3>3, <3>4, <4>2
        <5> QED  BY <2>3, <3>1, <5>1
      <4> QED  BY <4>1, <4>2
    <3> QED  BY <1>1, <3>5 DEF OverrunOf, z
  <2> QED  BY <2>2, <2>4 DEF PayerKept
<1> QED  BY <1>3, <1>4 DEF Replay, ReplayRow

\* A refresh catches the books up with the journal, or raises over damage.
LEMMA RefreshKeepsBooks ==
  ASSUME Before, After, Refresh \/ RefreshRaises, NEW p \in Payers, Unspoilt(p)'
  PROVE  PayerKept(p)
<1>1. /\ Unspoilt(p) /\ (up /\ Readable(1) => BooksOf(p)) /\ (p \notin excused => OverrunOf(p))
      /\ book.balance[p] \in Int /\ held[p] \in Int /\ short[p] \in {0, 1} /\ held[p] >= 0
  BY PayerWas DEF After
<1>2. /\ up /\ Whole' = Whole /\ journal' = journal /\ torn' = torn /\ held' = held /\ short' = short
      /\ excused' = excused
  BY DEF Refresh, RefreshRaises, file, ghosts, Whole
<1>3. Readable(1)' => Readable(1)  BY <1>2 DEF Readable
<1>4. /\ Refresh => book' = Replayed /\ consumed' = Len(Whole) /\ Readable(consumed + 1)
      /\ book'.cap[p] = book.cap[p] /\ book'.balance[p] >= book.balance[p]
      /\ RefreshRaises => ~Readable(1)
      /\ book'.balance[p] \in Int
  <2>1. Refresh => book' = Replayed /\ consumed' = Len(Whole) /\ Readable(consumed + 1)
    BY DEF Refresh
  <2>2. /\ Readable(consumed + 1) =>
             /\ Replayed \in Books
             /\ Replayed.cap[p] = book.cap[p] /\ Replayed.balance[p] >= book.balance[p]
        /\ RefreshRaises =>
             /\ book' \in Books /\ ~Readable(1)
             /\ book'.cap[p] = book.cap[p] /\ book'.balance[p] >= book.balance[p]
    BY <1>1, <1>2, RefreshIs DEF Before
  <2> QED  BY <2>1, <2>2 DEF Books
<1>5. ASSUME Readable(1)' PROVE BooksOf(p)'
  <2>1. Refresh /\ Readable(1) /\ BooksOf(p)  BY <1>1, <1>2, <1>3, <1>4, <1>5
  <2>2. Replayed' = book' /\ Journaled' = Journaled
    BY <1>2, <1>4, <2>1, CaughtUpIs DEF After, Journaled
  <2> QED  BY <1>2, <1>4, <2>1, <2>2 DEF BooksOf
<1>6. ASSUME p \notin excused' PROVE OverrunOf(p)'
  <2> DEFINE y == book.balance[p]
             z == book'.balance[p]
  <2>1. /\ y \in Int /\ z \in Int /\ z >= y /\ y > 0 - MaxCost /\ (short[p] > 0 => y >= 0)
        /\ MaxCost \in Nat
    BY <1>1, <1>2, <1>4, <1>6, MaxCostIs DEF OverrunOf
  <2> HIDE DEF y, z
  <2>2. z > 0 - MaxCost /\ (short[p] > 0 => z >= 0)  BY <2>1
  <2> QED  BY <1>2, <2>2 DEF OverrunOf, z
<1> QED  BY <1>5, <1>6 DEF PayerKept

\* Between the arms nothing is held.
LEMMA NothingHeld ==
  ASSUME Before, \A c \in Callers : calls[c].at = "idle", NEW p \in Payers
  PROVE  held[p] = 0
<1>1. Holders(p) = {}  BY DEF Holders, InFlight
<1> QED  BY <1>1, HeldIsNat DEF Before, HoldInv, TypeOK

\* A window's first binding sets the balance on disk and live alike, unless the disk refuses it.
LEMMA BindKeepsBooks ==
  ASSUME Before, After, NEW q \in Payers, NEW w \in 1..MaxWindow, NEW usd \in Amounts, Bind(q, w, usd),
         NEW p \in Payers, Unspoilt(p)'
  PROVE  PayerKept(p)
<1> DEFINE row == CapRow(q, w, usd)
<1>1. /\ Unspoilt(p) /\ (up /\ Readable(1) => BooksOf(p)) /\ (p \notin excused => OverrunOf(p))
      /\ book.balance[p] \in Int /\ short[p] \in {0, 1} /\ (Readable(1)' => Readable(1))
  BY PayerWas DEF After
<1>2. /\ up /\ held' = held /\ short' = short /\ Readable(consumed + 1)
      /\ row \in Row /\ row.payer = q /\ row.op = "cap" /\ row.usd = usd /\ row.window = w
      /\ usd \in Nat /\ w \in Nat /\ MaxCost \in Nat /\ MaxCost > 0
  BY RowsAreRows, MaxCostIs, GatewayAssumption DEF Bind, Before, CapRow
<1>3. held[p] = 0 /\ held'[p] = 0
  <2>1. \A c \in Callers : calls[c].at = "idle"  BY DEF Bind
  <2> QED  BY <1>2, <2>1, NothingHeld
<1>4. /\ Replayed \in Books /\ Replayed.cap[p] = book.cap[p] /\ Replayed.balance[p] >= book.balance[p]
      /\ Replayed.cap[p] \in Nat /\ Replayed.balance[p] \in Int
  <2>1. /\ Replayed \in Books /\ Replayed.cap[p] = book.cap[p]
        /\ Replayed.balance[p] >= book.balance[p]
    BY <1>1, <1>2, RefreshIs DEF Before
  <2> QED  BY <2>1 DEF Books
<1>5. NewCap(q, w) => w = Replayed.cap[q] + 1
  <2>1. w \in {Replayed.cap[q], Replayed.cap[q] + 1}  BY DEF Bind
  <2> QED  BY <2>1 DEF NewCap
<1>6. /\ Apply(Replayed, row) \in Books
      /\ p # q => /\ Apply(Replayed, row).balance[p] = Replayed.balance[p]
                  /\ Apply(Replayed, row).cap[p] = Replayed.cap[p]
      /\ p = q => Apply(Replayed, row).balance[p] = usd /\ Apply(Replayed, row).cap[p] = w
  <2> HIDE DEF row
  <2> QED  BY <1>2, <1>4, ApplyIs
<1>7. /\ NewCap(q, w) => /\ book' = Apply(Replayed, row)
                         /\ \/ Recorded(row) /\ excused' = excused /\ orphans' = orphans
                            \/ Unrecorded(row, Len(Whole)) /\ excused' = excused \cup {q}
      /\ ~NewCap(q, w) => /\ book' = Replayed /\ consumed' = Len(Whole) /\ Whole' = Whole
                          /\ excused' = excused
  BY DEF Bind, CapRow, ghosts, Whole
<1>8. /\ ~(NewCap(q, w) /\ p = q) => book'.balance[p] = Replayed.balance[p] /\ book'.cap[p] = Replayed.cap[p]
      /\ NewCap(q, w) /\ p = q => book'.balance[p] = usd /\ book'.cap[p] = w
  BY <1>6, <1>7
<1> HIDE DEF row
<1>9. ASSUME p \notin excused' PROVE OverrunOf(p)'
  <2> DEFINE y == book.balance[p]
             z == book'.balance[p]
             r == Replayed.balance[p]
  <2>1. /\ y \in Int /\ r \in Int /\ r >= y /\ y > 0 - MaxCost /\ (short[p] > 0 => y >= 0)
    BY <1>1, <1>4, <1>9 DEF OverrunOf, After
  <2>2. z = r \/ z = usd  BY <1>8
  <2> HIDE DEF y, z, r
  <2>3. z > 0 - MaxCost /\ (short[p] > 0 => z >= 0)  BY <1>2, <2>1, <2>2
  <2> QED  BY <1>2, <2>3 DEF OverrunOf, z
<1>10. ASSUME Readable(1)' PROVE BooksOf(p)'
  <2>1. /\ Journaled.cap[p] <= book.cap[p]
        /\ p \notin excused => book.cap[p] = Journaled.cap[p]
        /\ book.cap[p] = Journaled.cap[p] => Replayed.balance[p] <= Journaled.balance[p]
        /\ Journaled \in Books /\ Journaled.cap[p] \in Nat
    <3>1. BooksOf(p) /\ Journaled \in Books  BY <1>1, <1>2, <1>10, JournaledIs DEF Before
    <3>2. book.cap[p] = Journaled.cap[p] => Replayed.balance[p] + 0 <= Journaled.balance[p]
      BY <1>3, <3>1 DEF BooksOf
    <3> QED  BY <1>4, <3>1, <3>2 DEF BooksOf, Books
  <2>2. SUFFICES /\ Journaled'.cap[p] <= book'.cap[p]
                 /\ p \notin excused' => book'.cap[p] = Journaled'.cap[p]
                 /\ book'.cap[p] = Journaled'.cap[p] => Replayed'.balance[p] <= Journaled'.balance[p]
                 /\ Replayed'.balance[p] \in Int
    <3>1. Replayed'.balance[p] \in Int => Replayed'.balance[p] + held'[p] = Replayed'.balance[p]
      BY <1>3
    <3> QED  BY <2>2, <3>1 DEF BooksOf
  <2>3. Whole' = Whole => Journaled' = Journaled  BY DEF Journaled
  <2>4. CASE ~NewCap(q, w)
    <3>1. /\ book' = Replayed /\ Journaled' = Journaled /\ Replayed' = book'
      BY <1>7, <2>3, <2>4, CaughtUpIs DEF After
    <3> QED  BY <1>4, <1>7, <2>1, <2>4, <3>1
  <2>5. CASE NewCap(q, w) /\ Recorded(row) /\ excused' = excused /\ orphans' = orphans
    <3>1. Adds(row) /\ consumed' = Len(Whole')
      <4>1. ~Spoils  BY <1>10 DEF Spoils
      <4> QED  BY <1>2, <2>5, <4>1, RecordedIs DEF Before
    <3>2. Journaled' = Apply(Journaled, row) /\ Replayed' = book'
      BY <1>2, <3>1, AddsIs, CaughtUpIs DEF Before, After
    <3>3. /\ p # q => /\ Journaled'.balance[p] = Journaled.balance[p]
                      /\ Journaled'.cap[p] = Journaled.cap[p]
          /\ p = q => Journaled'.balance[p] = usd /\ Journaled'.cap[p] = w
      BY <1>2, <2>1, <3>2, ApplyIs
    <3>4. CASE p = q  BY <1>2, <1>8, <2>5, <3>2, <3>3, <3>4
    <3>5. CASE p # q  BY <1>4, <1>8, <2>1, <2>5, <3>2, <3>3, <3>5
    <3> QED  BY <3>4, <3>5
  <2>6. CASE NewCap(q, w) /\ Unrecorded(row, Len(Whole)) /\ excused' = excused \cup {q}
    <3>1. consumed' = Len(Whole)  BY <2>6 DEF Unrecorded
    <3>2. Whole' = Whole \/ (Adds(row) /\ p # q)  BY <1>2, <1>10, <2>6, RefusedRow
    <3>3. CASE Whole' = Whole
      <4>1. Journaled' = Journaled /\ Replayed' = book'  BY <2>3, <3>1, <3>3, CaughtUpIs DEF After
      <4>2. CASE p = q
        <5>1. book'.cap[p] = book.cap[p] + 1 /\ book'.balance[p] \in Int /\ p \in excused'
          BY <1>2, <1>4, <1>5, <1>8, <2>6, <4>2
        <5>2. book.cap[p] \in Nat  BY <1>4
        <5> QED  BY <2>1, <4>1, <5>1, <5>2
      <4>3. CASE p # q  BY <1>4, <1>8, <2>1, <2>6, <4>1, <4>3
      <4> QED  BY <4>2, <4>3
    <3>4. CASE Adds(row) /\ p # q
      <4>1. Journaled' = Apply(Journaled, row)
            /\ \A b : ReplayOnto(b, Whole', Len(Whole) + 1) = Apply(b, row)
        BY <1>2, <3>4, AddsIs DEF Before
      <4>2. Replayed' = ReplayOnto(book', Whole', Len(Whole) + 1)  BY <3>1 DEF Replayed
      <4>3. Replayed' = Apply(book', row)  BY <4>1, <4>2
      <4>4. book' \in Books  BY DEF After, BooksType
      <4>5. /\ Replayed'.balance[p] = book'.balance[p]
            /\ Journaled'.balance[p] = Journaled.balance[p]
            /\ Journaled'.cap[p] = Journaled.cap[p]
        BY <1>2, <2>1, <3>4, <4>1, <4>3, <4>4, ApplyIs
      <4> QED  BY <1>4, <1>8, <2>1, <2>6, <3>4, <4>5
    <3> QED  BY <3>2, <3>3, <3>4
  <2> QED  BY <1>7, <2>4, <2>5, <2>6
<1> QED  BY <1>9, <1>10 DEF PayerKept

\* The owner's credit joins the journal behind the gateway's back.
LEMMA CreditKeepsBooks ==
  ASSUME Before, After, NEW q \in Payers, NEW usd \in Amounts, Credit(q, usd),
         NEW p \in Payers, Unspoilt(p)'
  PROVE  /\ up => PayerKept(p)
         /\ OverrunOf(p) => OverrunOf(p)'
         /\ Readable(1)' => Journaled \in Books /\ Journaled'.balance[p] >= Journaled.balance[p]
<1> DEFINE row == CreditRow(q, usd)
<1>1. /\ book' = book /\ held' = held /\ short' = short /\ consumed' = consumed /\ orphans' = orphans
      /\ journal' = Written(row) /\ torn' = FALSE
      /\ row \in Row /\ row.op = "credit" /\ row.usd \in Nat
  BY RowsAreRows DEF Credit, money, ghosts, CreditRow, Before, Row
<1> HIDE DEF row
<1>2. Readable(1)' => Adds(row) /\ Readable(1)
  <2>1. (~torn => Adds(row)) /\ (torn => Spoils)
    <3>1. orphans \subseteq orphans' /\ orphans' \subseteq orphans \cup {Len(journal')}  BY <1>1
    <3> QED  BY <1>1, <3>1, WriteIs DEF Before
  <2>2. Readable(1)' => Readable(1)  BY PayerWas DEF After
  <2> QED  BY <2>1, <2>2 DEF Spoils
<1>3. OverrunOf(p) => OverrunOf(p)'  BY <1>1 DEF OverrunOf
<1>4. up => PayerKept(p)
  <2>1. Readable(1)' => \/ Whole' = Whole
                        \/ \E r \in Row : Adds(r) /\ (r.payer = p => r.op = "credit")
    BY <1>1, <1>2
  <2>2. book'.cap[p] = book.cap[p] /\ book'.balance[p] + held'[p] = book.balance[p] + held[p]
    BY <1>1
  <2> QED  BY <1>1, <1>3, <2>1, <2>2, SteadyIs
<1>5. ASSUME Readable(1)'
      PROVE  Journaled \in Books /\ Journaled'.balance[p] >= Journaled.balance[p]
  <2>1. Journaled \in Books /\ Journaled' = Apply(Journaled, row)
    BY <1>1, <1>2, <1>5, JournaledIs, AddsIs DEF Before
  <2>2. Journaled.balance[p] \in Int  BY <2>1 DEF Books
  <2>3. Journaled'.balance[p] = Journaled.balance[p]
        \/ Journaled'.balance[p] = Journaled.balance[p] + row.usd
    BY <1>1, <2>1, ApplyIs
  <2> QED  BY <1>1, <2>1, <2>2, <2>3
<1> QED  BY <1>3, <1>4, <1>5

\* A crash forgets everything; nobody owes anything in books that are empty.
LEMMA CrashKeepsBooks ==
  ASSUME Before, Crash, NEW p \in Payers
  PROVE  ~up' /\ OverrunOf(p)' /\ Whole' = Whole
<1>1. ~up' /\ book' = Blank /\ short' = Fresh(0) /\ orphans' = orphans  BY DEF Crash, ghosts
<1>2. MaxCost \in Nat /\ MaxCost > 0  BY MaxCostIs
<1>3. book'.balance[p] = 0 /\ short'[p] = 0  BY <1>1, BlankIs DEF Fresh
<1>4. OverrunOf(p)'  BY <1>2, <1>3 DEF OverrunOf
<1>5. Whole' = Whole
  <2>1. CASE UNCHANGED <<journal, torn>>  BY <2>1 DEF Whole
  <2>2. CASE journal' = (IF torn THEN journal ELSE Append(journal, JUNK)) /\ torn' = TRUE
    BY <1>1, <2>2, TornIs DEF Before, Kept
  <2> QED  BY <2>1, <2>2 DEF Crash
<1> QED  BY <1>1, <1>4, <1>5

\* A gateway built again stands where the journal does.
LEMMA RestartKeepsBooks ==
  ASSUME Before, After, Restart, NEW p \in Payers, Unspoilt(p)'
  PROVE  PayerKept(p)
<1>1. /\ ~up /\ Readable(1) /\ book' = Journaled /\ consumed' = Len(Whole) /\ Whole' = Whole
      /\ held' = held /\ short' = short /\ excused' = excused
  BY DEF Restart, Journaled, Whole, ghosts
<1>2. held[p] = 0 /\ short[p] = 0  BY <1>1 DEF Before, DownInv, Fresh
<1>3. Journaled \in Books /\ Journaled.balance[p] \in Int /\ Journaled.cap[p] \in Nat
  <2>1. Journaled \in Books  BY <1>1, JournaledIs DEF Before
  <2> QED  BY <2>1 DEF Books
<1>4. Replayed' = Journaled /\ Journaled' = Journaled
  BY <1>1, CaughtUpIs DEF After, Journaled
<1>5. BooksOf(p)'
  <2>1. Journaled.balance[p] + held'[p] <= Journaled.balance[p]  BY <1>1, <1>2, <1>3
  <2> QED  BY <1>1, <1>3, <1>4, <2>1 DEF BooksOf
<1>6. ASSUME p \notin excused' PROVE OverrunOf(p)'
  <2>1. Journaled.balance[p] > 0 - MaxCost
    BY <1>1, <1>6, PayerWas DEF Before, OverrunInv, After
  <2> QED  BY <1>1, <1>2, <2>1 DEF OverrunOf
<1> QED  BY <1>5, <1>6 DEF PayerKept

\* Nor would a gateway built from the journal overrun: the journal shows no less than the live books.
FileToo ==
  \A p \in Payers : up /\ Readable(1) /\ Unspoilt(p) /\ BooksOf(p) /\ p \notin excused /\ OverrunOf(p)
                      => Journaled.balance[p] > 0 - MaxCost
LEMMA FileTooHolds == TypeOK /\ FileInv /\ TailInv /\ HoldInv => FileToo
<1> SUFFICES ASSUME TypeOK, FileInv, TailInv, HoldInv, NEW p \in Payers,
                    up, Readable(1), Unspoilt(p), BooksOf(p), p \notin excused, OverrunOf(p)
             PROVE  Journaled.balance[p] > 0 - MaxCost
  BY DEF FileToo
<1>1. Readable(consumed + 1)  BY WholeIs DEF Readable, TypeOK
<1>2. Replayed \in Books /\ Replayed.balance[p] >= book.balance[p]  BY <1>1, RefreshIs
<1>3. Journaled \in Books  BY JournaledIs
<1>4. held[p] \in Int /\ held[p] >= 0  BY HeldIsNat DEF HoldInv, TypeOK
<1> DEFINE j == Journaled.balance[p]
           r == Replayed.balance[p]
           b == book.balance[p]
<1>5. j \in Int /\ r \in Int /\ b \in Int /\ r >= b /\ r + held[p] <= j /\ b > 0 - MaxCost
      /\ MaxCost \in Nat
  BY <1>2, <1>3, MaxCostIs DEF Books, BooksOf, OverrunOf, TypeOK
<1> HIDE DEF j, r, b
<1>6. j > 0 - MaxCost  BY <1>4, <1>5
<1> QED  BY <1>6 DEF j

\* Every step of a live gateway keeps a payer's books.
LEMMA PayerStep ==
  ASSUME Before, After, [Next]_vars, up', NEW p \in Payers, Unspoilt(p)'
  PROVE  PayerKept(p)
<1>1. ASSUME NEW c \in Callers, Reserve(c) PROVE PayerKept(p)  BY <1>1, ReserveKeepsBooks
<1>2. ASSUME NEW c \in Callers, Unpriced(c) PROVE PayerKept(p)
  <2>1. /\ Unhold(c) /\ calls[c].at = "provider" /\ book' = Returned(c) /\ consumed' = consumed
        /\ Whole' = Whole
    BY <1>2 DEF Unpriced, file, Whole
  <2> QED  BY <2>1, ReturnKeepsBooks
<1>3. ASSUME NEW c \in Callers, NEW dollars \in Costs, Settle(c, dollars) PROVE PayerKept(p)
  BY <1>3, SettleKeepsBooks
<1>4. ASSUME NEW c \in Callers, Replay(c) PROVE PayerKept(p)  BY <1>4, ReplayKeepsBooks
<1>5. ASSUME UNCHANGED <<journal, torn, consumed, book, held, short, up>> PROVE PayerKept(p)
  <2>1. Whole' = Whole /\ up  BY <1>5 DEF Whole
  <2>2. OverrunOf(p) => OverrunOf(p)'  BY <1>5 DEF OverrunOf
  <2> QED  BY <1>5, <2>1, <2>2, SteadyIs
<1>6. ASSUME NEW c \in Callers,
             \/ Ask(c) \/ Expire(c) \/ Wait(c) \/ Mint(c)
             \/ RefuseClosed(c) \/ RefuseUnfunded(c) \/ RefuseCongested(c)
      PROVE  PayerKept(p)
  BY <1>5, <1>6 DEF Ask, Expire, Wait, Mint, RefuseClosed, RefuseUnfunded, RefuseCongested,
                    file, money, bounds
<1>7. ASSUME NEW q \in Payers, Close(q) PROVE PayerKept(p)
  BY <1>5, <1>7 DEF Close, file, money
<1>8. CASE UNCHANGED vars  BY <1>5, <1>8 DEF vars, file, money, bounds
<1>9. CASE Refresh \/ RefreshRaises  BY <1>9, RefreshKeepsBooks
<1>10. ASSUME NEW q \in Payers, NEW w \in 1..MaxWindow, NEW usd \in Amounts, Bind(q, w, usd)
       PROVE  PayerKept(p)
  BY <1>10, BindKeepsBooks
<1>11. ASSUME NEW q \in Payers, NEW usd \in Amounts, Credit(q, usd) PROVE PayerKept(p)
  <2>1. up  BY <1>11 DEF Credit
  <2> QED  BY <1>11, <2>1, CreditKeepsBooks
<1>12. ~Crash  BY DEF Crash
<1>13. CASE Restart  BY <1>13, RestartKeepsBooks
<1> QED  BY <1>1, <1>2, <1>3, <1>4, <1>6, <1>7, <1>8, <1>9, <1>10, <1>11, <1>12, <1>13
         DEF Next, Proceed, ProviderFails, KeyRefused

\* Every step keeps the books' part of the invariant.
LEMMA BooksStep ==
  ASSUME Before, After, TypeOK', [Next]_vars
  PROVE  BooksInv' /\ OverrunInv'
<1>1. ASSUME up', NEW p \in Payers, Unspoilt(p)' PROVE PayerKept(p)  BY <1>1, PayerStep
<1>2. BooksInv'  BY <1>1 DEF BooksInv, PayerKept
<1>3. FileToo'
  <2>1. (TypeOK /\ FileInv /\ TailInv /\ HoldInv)'  BY DEF After, FileStays, CallsStay
  <2> QED  BY <2>1, FileTooHolds, PTL
<1>4. ASSUME NEW p \in Payers, p \notin excused', Unspoilt(p)'
      PROVE  OverrunOf(p)' /\ (Readable(1)' => (Journaled.balance[p] > 0 - MaxCost)')
  <2>1. p \notin excused /\ Unspoilt(p) /\ OverrunOf(p) /\ (Readable(1)' => Readable(1))
        /\ (Readable(1) => Journaled.balance[p] > 0 - MaxCost)
    BY <1>4, PayerWas DEF Before, OverrunInv, After
  <2>2. CASE up'
    <3>1. PayerKept(p)  BY <1>1, <1>4, <2>2
    <3> QED  BY <1>3, <1>4, <2>2, <3>1 DEF PayerKept, FileToo
  <2>3. CASE Crash
    <3>1. OverrunOf(p)' /\ Whole' = Whole  BY <2>3, CrashKeepsBooks
    <3> QED  BY <2>1, <3>1 DEF Journaled
  <2>4. ASSUME NEW q \in Payers, NEW usd \in Amounts, Credit(q, usd)
        PROVE  OverrunOf(p)' /\ (Readable(1)' => (Journaled.balance[p] > 0 - MaxCost)')
    <3>1. /\ OverrunOf(p) => OverrunOf(p)'
          /\ Readable(1)' => Journaled \in Books /\ Journaled'.balance[p] >= Journaled.balance[p]
      BY <1>4, <2>4, CreditKeepsBooks
    <3>2. Readable(1)' => Journaled'.balance[p] > 0 - MaxCost
      <4> SUFFICES ASSUME Readable(1)' PROVE Journaled'.balance[p] > 0 - MaxCost  OBVIOUS
      <4> DEFINE j == Journaled.balance[p]
                 k == Journaled'.balance[p]
      <4>1. Journaled' \in Books
        <5>1. \E row \in Row : Adds(row)
          <6>1. CreditRow(q, usd) \in Row  BY RowsAreRows DEF Before
          <6>2. (~torn => Adds(CreditRow(q, usd))) /\ (torn => Spoils)
            <7>1. /\ journal' = Written(CreditRow(q, usd)) /\ torn' = FALSE /\ orphans' = orphans
              BY <2>4 DEF Credit, CreditRow, ghosts
            <7>2. orphans \subseteq orphans' /\ orphans' \subseteq orphans \cup {Len(journal')}
              BY <7>1
            <7> QED  BY <6>1, <7>1, <7>2, WriteIs DEF Before
          <6> QED  BY <6>1, <6>2 DEF Spoils
        <5>2. PICK row \in Row : Adds(row)  BY <5>1
        <5>3. Journaled' = Apply(Journaled, row)  BY <5>2, AddsIs DEF Before
        <5> QED  BY <3>1, <5>3, ApplyIs
      <4>2. j \in Int /\ k \in Int /\ k >= j /\ j > 0 - MaxCost /\ MaxCost \in Nat
        BY <2>1, <3>1, <4>1, MaxCostIs DEF Books
      <4> HIDE DEF j, k
      <4>3. k > 0 - MaxCost  BY <4>2
      <4> QED  BY <4>3 DEF k
    <3> QED  BY <2>1, <3>1, <3>2
  <2>5. CASE UNCHANGED vars
    <3>1. Whole' = Whole /\ book' = book /\ short' = short
      BY <2>5 DEF vars, file, money, Whole
    <3> QED  BY <2>1, <3>1 DEF OverrunOf, Readable, Journaled
  <2>6. CASE ~up' /\ ~up /\ ~Crash /\ ~UNCHANGED vars
    <3>1. \E q \in Payers, usd \in Amounts : Credit(q, usd)
      BY <2>6, CallIsLive
         DEF Next, Before, Ask, Expire, Proceed, RefuseClosed, RefuseUnfunded, RefuseCongested,
             Wait, Reserve, Replay, Mint, ProviderFails, KeyRefused, Unpriced, Settle, GoesAhead,
             Refresh, RefreshRaises, Close, Bind, Restart
    <3> QED  BY <2>4, <3>1
  <2>7. up /\ ~up' => Crash
    BY CallIsLive
       DEF Next, Before, Ask, Expire, Proceed, RefuseClosed, RefuseUnfunded, RefuseCongested,
           Wait, Reserve, Replay, Mint, ProviderFails, KeyRefused, Unpriced, Settle, GoesAhead,
           Refresh, RefreshRaises, Close, Bind, Restart, Credit, vars, bounds
  <2> QED  BY <2>2, <2>3, <2>5, <2>6, <2>7 DEF After, BooksType, Before, TypeOK
<1> QED  BY <1>2, <1>4 DEF OverrunInv

(***************************************************************************)
(* The audit.                                                              *)
(***************************************************************************)

\* The rows this process charged a payer with, the calls whose receipts are on their way, and what
\* they add up to.
Debits(p) == {i \in opened + 1..Len(Whole) : Whole[i].payer = p /\ Whole[i].op \in Charges} \ orphans
Minting(p) == {c \in Callers : PayerOf[c] = p /\ calls[c].at = "minting"}
Charged(p) == SumFunctionOnSet([i \in Debits(p) |-> Whole[i].usd], Debits(p))
Owed(p) == SumFunctionOnSet([c \in Callers |-> calls[c].dollars], Minting(p))
AuditOf(p) == Charged(p) = receipts[p] + Owed(p)

\* The receipts on their way are finitely many, and add up to a number.
LEMMA OwedIs ==
  ASSUME CallsType, NEW p
  PROVE  /\ IsFiniteSet(Minting(p)) /\ Minting(p) \subseteq Callers /\ Owed(p) \in Int
         /\ \A c \in Callers : calls[c].dollars \in Nat
<1>1. Minting(p) \subseteq Callers /\ IsFiniteSet(Minting(p))
  <2>1. Minting(p) \subseteq Callers  BY DEF Minting
  <2> QED  BY <2>1, GatewayAssumption, FS_Subset
<1>2. \A c \in Callers : calls[c].dollars \in Nat
  <2>1. \A d \in Costs \cup {0} : d \in Nat  BY MaxCostIs
  <2>2. \A c \in Callers : calls[c].dollars \in Costs \cup {0}  BY DEF CallsType, Calls
  <2> QED  BY <2>1, <2>2
<1> DEFINE f == [c \in Callers |-> calls[c].dollars]
<1>3. \A c \in Minting(p) : f[c] \in Int  BY <1>1, <1>2
<1> HIDE DEF f
<1>4. SumFunctionOnSet(f, Minting(p)) \in Int  BY <1>1, <1>3, SumType
<1> QED  BY <1>1, <1>2, <1>4 DEF Owed, f

\* Nothing joins and nothing leaves them.
LEMMA OwedSame ==
  ASSUME CallsType, NEW p, \A d \in Callers : PayerOf[d] = p => StillMints(d)
  PROVE  Owed(p)' = Owed(p)
<1>1. Minting(p)' = Minting(p)  BY DEF Minting, StillMints
<1>2. \A d \in Minting(p) : d \in Callers /\ calls'[d].dollars = calls[d].dollars
  BY DEF Minting, StillMints
<1> DEFINE f == [c \in Callers |-> calls[c].dollars]
           g == [c \in Callers |-> calls'[c].dollars]
           S == Minting(p)
<1>3. \A d \in S : f[d] \in Int /\ f[d] = g[d]  BY <1>2, OwedIs
<1>4. IsFiniteSet(S)  BY OwedIs
<1>5. Owed(p) = SumFunctionOnSet(f, S) /\ Owed(p)' = SumFunctionOnSet(g, S)
  BY <1>1 DEF Owed
<1> HIDE DEF f, g, S
<1> QED  BY <1>3, <1>4, <1>5, SumSame

\* A call that settled joins them.
LEMMA OwedGains ==
  ASSUME CallsType, CallsType', NEW c \in Callers, NEW p, p = PayerOf[c],
         calls[c].at # "minting", calls'[c].at = "minting",
         \A d \in Callers \ {c} : StillMints(d)
  PROVE  Owed(p)' = Owed(p) + calls'[c].dollars
<1>1. Minting(p)' = Minting(p) \cup {c} /\ c \notin Minting(p)  BY DEF Minting, StillMints
<1>2. \A d \in Minting(p) : d \in Callers /\ calls'[d].dollars = calls[d].dollars
  BY <1>1 DEF Minting, StillMints
<1> DEFINE f == [d \in Callers |-> calls[d].dollars]
           g == [d \in Callers |-> calls'[d].dollars]
           S == Minting(p)
           T == S \cup {c}
<1>3. (\A d \in S : f[d] \in Int /\ f[d] = g[d]) /\ g[c] = calls'[c].dollars /\ g[c] \in Int
  <2>1. calls'[c].dollars \in Int
    <3>1. calls'[c].dollars \in Costs \cup {0}  BY DEF CallsType, Calls
    <3>2. \A d \in Costs \cup {0} : d \in Int  BY MaxCostIs
    <3> QED  BY <3>1, <3>2
  <2> QED  BY <1>2, <2>1, OwedIs
<1>4. IsFiniteSet(S) /\ IsFiniteSet(T) /\ T \ {c} = S /\ c \in T
  BY <1>1, OwedIs, FS_AddElement
<1>5. Owed(p) = SumFunctionOnSet(f, S) /\ Owed(p)' = SumFunctionOnSet(g, T)
  BY <1>1 DEF Owed
<1>6. \A d \in T : g[d] \in Int
  <2> HIDE DEF f, g
  <2> QED  BY <1>3
<1> HIDE DEF f, g, S, T
<1>7. SumFunctionOnSet(g, T) = g[c] + SumFunctionOnSet(g, S)  BY <1>4, <1>6, SumTake
<1>8. SumFunctionOnSet(f, S) = SumFunctionOnSet(g, S) /\ SumFunctionOnSet(f, S) \in Int
  BY <1>3, <1>4, SumSame, SumType
<1> QED  BY <1>3, <1>5, <1>7, <1>8

\* A receipt that joined its ledger leaves them.
LEMMA OwedLoses ==
  ASSUME CallsType, CallsType', NEW c \in Callers, NEW p, p = PayerOf[c],
         calls[c].at = "minting", calls'[c].at # "minting",
         \A d \in Callers \ {c} : StillMints(d)
  PROVE  Owed(p)' = Owed(p) - calls[c].dollars
<1>1. Minting(p)' = Minting(p) \ {c} /\ c \in Minting(p)  BY DEF Minting, StillMints
<1>2. \A d \in Minting(p) \ {c} : d \in Callers /\ calls'[d].dollars = calls[d].dollars
  BY DEF Minting, StillMints
<1> DEFINE f == [d \in Callers |-> calls[d].dollars]
           g == [d \in Callers |-> calls'[d].dollars]
           S == Minting(p)
           T == S \ {c}
<1>3. (\A d \in S : f[d] \in Int) /\ (\A d \in T : g[d] = f[d]) /\ f[c] = calls[c].dollars
      /\ f[c] \in Int
  BY <1>2, OwedIs
<1>4. IsFiniteSet(S) /\ IsFiniteSet(T) /\ c \in S /\ T = S \ {c}
  BY <1>1, OwedIs, FS_Subset
<1>5. Owed(p) = SumFunctionOnSet(f, S) /\ Owed(p)' = SumFunctionOnSet(g, T)
  BY <1>1 DEF Owed
<1> HIDE DEF f, g, S, T
<1>6. SumFunctionOnSet(f, S) = f[c] + SumFunctionOnSet(f, T)  BY <1>3, <1>4, SumTake
<1>7. SumFunctionOnSet(f, T) = SumFunctionOnSet(g, T) /\ SumFunctionOnSet(f, T) \in Int
  BY <1>3, <1>4, SumSame, SumType
<1> QED  BY <1>3, <1>5, <1>6, <1>7

\* The charges of a readable journal are finitely many, and add up to a number.
LEMMA ChargedIs ==
  ASSUME TypeOK, FileInv, Readable(1), NEW p \in Payers
  PROVE  /\ IsFiniteSet(Debits(p)) /\ Charged(p) \in Int
         /\ \A i \in Debits(p) : i \in 1..Len(Whole) /\ Whole[i].usd \in Nat
<1>1. Len(Whole) \in Nat /\ opened \in Nat  BY WholeIs DEF TypeOK
<1>2. Debits(p) \subseteq 1..Len(Whole)  BY <1>1 DEF Debits
<1>3. IsFiniteSet(1..Len(Whole))  BY <1>1, FS_Interval
<1>4. IsFiniteSet(Debits(p))  BY <1>2, <1>3, FS_Subset
<1>5. \A i \in Debits(p) : i \in 1..Len(Whole) /\ Whole[i].usd \in Nat
  BY <1>2, JournaledIs DEF Row
<1> DEFINE f == [i \in Debits(p) |-> Whole[i].usd]
<1>6. \A i \in Debits(p) : f[i] \in Int  BY <1>5
<1> HIDE DEF f
<1>7. SumFunctionOnSet(f, Debits(p)) \in Int  BY <1>4, <1>6, SumType
<1> QED  BY <1>4, <1>5, <1>7 DEF Charged, f

\* What a step that charges a payer nothing may do to the file.
FileQuiet(p) ==
  \/ Kept
  \/ \E row \in Row : Adds(row) /\ ~torn /\
       \/ orphans' = orphans /\ ~(row.payer = p /\ row.op \in Charges)
       \/ orphans' = orphans \cup {Len(Whole')}

\* Nothing more is charged.
LEMMA ChargedSame ==
  ASSUME TypeOK, FileInv, Readable(1), NEW p \in Payers, FileQuiet(p), opened' = opened
  PROVE  Charged(p)' = Charged(p)
<1>1. Len(Whole) \in Nat /\ opened \in Nat /\ Whole \in Seq(Lines) /\ opened <= Len(Whole)
  BY WholeIs DEF TypeOK, FileInv
<1>2. Debits(p)' = Debits(p) /\ \A i \in Debits(p) : Whole'[i] = Whole[i]
  <2>1. CASE Kept  BY <2>1 DEF Kept, Debits
  <2>2. ASSUME NEW row \in Row, Adds(row), ~torn,
               \/ orphans' = orphans /\ ~(row.payer = p /\ row.op \in Charges)
               \/ orphans' = orphans \cup {Len(Whole')}
        PROVE  Debits(p)' = Debits(p) /\ \A i \in Debits(p) : Whole'[i] = Whole[i]
    <3> DEFINE n == Len(Whole) + 1
    <3>1. /\ Len(Whole') = n /\ Whole'[n] = row
          /\ \A i \in 1..Len(Whole) : Whole'[i] = Whole[i]
      BY <1>1, <2>2 DEF Adds
    <3>2. /\ n \in Nat /\ \A i \in opened + 1..Len(Whole) : i \in opened + 1..n /\ i # n
          /\ \A i \in opened + 1..n : i = n \/ i \in opened + 1..Len(Whole)
          /\ \A i \in opened + 1..Len(Whole) : i \in 1..Len(Whole)
      BY <1>1
    <3> HIDE DEF n
    <3>3. \A i \in opened + 1..Len(Whole) : i \in orphans' <=> i \in orphans
      BY <2>2, <3>1, <3>2
    <3>4. n \notin Debits(p)'  BY <2>2, <3>1 DEF Debits
    <3>5. ASSUME NEW i \in Debits(p)' PROVE i \in Debits(p)
      <4>1. i \in opened + 1..n /\ i # n /\ Whole'[i].payer = p /\ Whole'[i].op \in Charges
            /\ i \notin orphans'
        BY <3>1, <3>4 DEF Debits
      <4>2. i \in opened + 1..Len(Whole) /\ Whole'[i] = Whole[i] /\ i \notin orphans
        BY <3>1, <3>2, <3>3, <4>1
      <4> QED  BY <4>1, <4>2 DEF Debits
    <3>6. ASSUME NEW i \in Debits(p) PROVE i \in Debits(p)' /\ Whole'[i] = Whole[i]
      <4>1. i \in opened + 1..Len(Whole) /\ Whole[i].payer = p /\ Whole[i].op \in Charges
            /\ i \notin orphans
        BY DEF Debits
      <4>2. i \in opened + 1..n /\ Whole'[i] = Whole[i] /\ i \notin orphans'
        BY <3>1, <3>2, <3>3, <4>1
      <4> QED  BY <3>1, <4>1, <4>2 DEF Debits
    <3> QED  BY <3>5, <3>6
  <2> QED  BY <2>1, <2>2 DEF FileQuiet
<1> DEFINE S == Debits(p)
           f == [i \in S |-> Whole[i].usd]
           g == [i \in S |-> Whole'[i].usd]
<1>3. \A i \in S : f[i] \in Int /\ f[i] = g[i]
  <2>1. \A i \in S : Whole[i].usd \in Int /\ Whole'[i] = Whole[i]  BY <1>2, ChargedIs
  <2> QED  BY <2>1
<1>4. IsFiniteSet(S)  BY ChargedIs
<1>5. Charged(p) = SumFunctionOnSet(f, S) /\ Charged(p)' = SumFunctionOnSet(g, S)
  BY <1>2 DEF Charged
<1> HIDE DEF f, g, S
<1> QED  BY <1>3, <1>4, <1>5, SumSame

\* A recorded charge is charged.
LEMMA ChargedGains ==
  ASSUME TypeOK, FileInv, Readable(1), NEW row \in Row, row.op \in Charges, NEW p \in Payers,
         row.payer = p, Adds(row), ~torn, orphans' = orphans, opened' = opened
  PROVE  Charged(p)' = Charged(p) + row.usd
<1> DEFINE n == Len(Whole) + 1
<1>1. Len(Whole) \in Nat /\ opened \in Nat /\ Whole \in Seq(Lines) /\ opened <= Len(Whole)
      /\ Whole = journal
  BY WholeIs DEF TypeOK, FileInv
<1>2. /\ Len(Whole') = n /\ Whole'[n] = row
      /\ \A i \in 1..Len(Whole) : Whole'[i] = Whole[i]
  BY <1>1 DEF Adds
<1>3. /\ n \in opened + 1..n /\ n \notin orphans
      /\ \A i \in opened + 1..Len(Whole) : i \in opened + 1..n /\ i # n
      /\ \A i \in opened + 1..n : i = n \/ i \in opened + 1..Len(Whole)
      /\ \A i \in opened + 1..Len(Whole) : i \in 1..Len(Whole)
  <2>1. orphans \subseteq 1..Len(Whole)  BY <1>1 DEF FileInv
  <2> QED  BY <1>1, <2>1
<1> HIDE DEF n
<1> DEFINE S == Debits(p)
           T == S \cup {n}
<1>4. Debits(p)' = T /\ n \notin S
  <2>1. n \notin S  BY <1>3 DEF Debits
  <2>2. n \in Debits(p)'  BY <1>2, <1>3 DEF Debits
  <2>3. ASSUME NEW i \in Debits(p)', i # n PROVE i \in S
    <3>1. i \in opened + 1..n /\ Whole'[i].payer = p /\ Whole'[i].op \in Charges /\ i \notin orphans
      BY <1>2 DEF Debits
    <3>2. i \in opened + 1..Len(Whole) /\ Whole'[i] = Whole[i]  BY <1>2, <1>3, <2>3, <3>1
    <3> QED  BY <3>1, <3>2 DEF Debits
  <2>4. ASSUME NEW i \in S PROVE i \in Debits(p)'
    <3>1. i \in opened + 1..Len(Whole) /\ Whole[i].payer = p /\ Whole[i].op \in Charges
          /\ i \notin orphans
      BY DEF Debits
    <3>2. i \in opened + 1..n /\ Whole'[i] = Whole[i]  BY <1>2, <1>3, <3>1
    <3> QED  BY <1>2, <3>1, <3>2 DEF Debits
  <2> QED  BY <2>1, <2>2, <2>3, <2>4
<1>5. IsFiniteSet(S) /\ \A i \in S : i \in 1..Len(Whole) /\ Whole[i].usd \in Int  BY ChargedIs
<1> DEFINE f == [i \in S |-> Whole[i].usd]
           g == [i \in T |-> Whole'[i].usd]
<1>6. (\A i \in S : f[i] \in Int /\ f[i] = g[i]) /\ g[n] = row.usd /\ row.usd \in Int
  <2>1. row.usd \in Int  BY DEF Row
  <2>2. \A i \in S : Whole'[i] = Whole[i]  BY <1>2, <1>5
  <2> QED  BY <1>2, <1>5, <2>1, <2>2
<1>7. IsFiniteSet(T) /\ T \ {n} = S /\ n \in T  BY <1>4, <1>5, FS_AddElement
<1>8. \A i \in T : g[i] \in Int
  <2> HIDE DEF f, g
  <2> QED  BY <1>6
<1>9. Charged(p) = SumFunctionOnSet(f, S) /\ Charged(p)' = SumFunctionOnSet(g, T)
  BY <1>4 DEF Charged
<1> HIDE DEF f, g, S, T
<1>10. SumFunctionOnSet(g, T) = g[n] + SumFunctionOnSet(g, S)  BY <1>7, <1>8, SumTake
<1>11. SumFunctionOnSet(f, S) = SumFunctionOnSet(g, S) /\ SumFunctionOnSet(f, S) \in Int
  BY <1>5, <1>6, SumSame, SumType DEF S
<1> QED  BY <1>6, <1>9, <1>10, <1>11

\* A step that charges a payer nothing and owes it no receipt.
LEMMA QuietAudit ==
  ASSUME Before, Readable(1), NEW p \in Payers, AuditOf(p), FileQuiet(p), opened' = opened,
         receipts'[p] = receipts[p], \A d \in Callers : PayerOf[d] = p => StillMints(d)
  PROVE  AuditOf(p)'
<1>1. Charged(p)' = Charged(p)  BY ChargedSame DEF Before
<1>2. Owed(p)' = Owed(p)  BY OwedSame DEF Before, TypeOK
<1> QED  BY <1>1, <1>2 DEF AuditOf

\* A recorded charge, with the receipt on its way.
LEMMA ChargeAudit ==
  ASSUME Before, After, Readable(1), Readable(1)', NEW p \in Payers, AuditOf(p),
         NEW row \in Row, row.op \in Charges, Recorded(row), orphans' = orphans, opened' = opened,
         receipts' = receipts, NEW c \in Callers, row.payer = PayerOf[c],
         calls[c].at # "minting", calls'[c].at = "minting", calls'[c].dollars = row.usd,
         \A d \in Callers \ {c} : StillMints(d)
  PROVE  AuditOf(p)'
<1>1. Adds(row) /\ ~torn
  <2>1. ~Spoils  BY DEF Spoils
  <2> QED  BY <2>1, RecordedIs DEF Before
<1>2. CASE p = PayerOf[c]
  <2>1. Charged(p)' = Charged(p) + row.usd  BY <1>1, <1>2, ChargedGains DEF Before
  <2>2. Owed(p)' = Owed(p) + row.usd
    BY <1>2, OwedGains DEF Before, TypeOK, After, CallsStay
  <2>3. /\ Charged(p) \in Int /\ Owed(p) \in Int /\ receipts[p] \in Int /\ row.usd \in Int
        /\ Charged(p) = receipts[p] + Owed(p)
    BY ChargedIs, OwedIs DEF Before, TypeOK, AuditOf, Row
  <2>4. \A x, o, r, u \in Int : x = r + o => x + u = r + (o + u)  OBVIOUS
  <2>5. Charged(p) + row.usd = receipts[p] + (Owed(p) + row.usd)  BY <2>3, <2>4
  <2> QED  BY <2>1, <2>2, <2>5 DEF AuditOf
<1>3. CASE p # PayerOf[c]
  <2>1. FileQuiet(p)  BY <1>1, <1>3 DEF FileQuiet
  <2>2. \A d \in Callers : PayerOf[d] = p => StillMints(d)  BY <1>3
  <2> QED  BY <2>1, <2>2, QuietAudit
<1> QED  BY <1>2, <1>3

\* A row the disk refused charges nobody: this process knows it as an orphan.
LEMMA RefusedQuiet ==
  ASSUME Before, NEW row \in Row, NEW mark, Unrecorded(row, mark), Readable(1)', NEW p
  PROVE  FileQuiet(p)
<1>1. ~Spoils  BY DEF Spoils
<1> QED  BY <1>1, UnrecordedIs DEF Before, FileQuiet

\* Every step keeps the audit.
LEMMA AuditStep ==
  ASSUME Before, After, AuditReconciles, [Next]_vars
  PROVE  AuditReconciles'
<1> SUFFICES ASSUME up', Readable(1)', NEW p \in Payers PROVE AuditOf(p)'
  BY DEF AuditReconciles, AuditOf, Charged, Owed, Debits, Minting
<1>1. Readable(1)  BY BeforeIs DEF Before, After, FileStays
<1>2. up => AuditOf(p)
  BY <1>1 DEF AuditReconciles, AuditOf, Charged, Owed, Debits, Minting
<1>3. ASSUME NEW c \in Callers, NEW dollars \in Costs, Settle(c, dollars) PROVE AuditOf(p)'
  <2> DEFINE row == DebitRow(c, dollars)
  <2>1. /\ calls[c].at = "provider" /\ up /\ row \in Row /\ row.op \in Charges
        /\ row.payer = PayerOf[c] /\ row.usd = dollars
        /\ opened' = opened /\ receipts' = receipts
    BY <1>3, CallIsLive, RowsAreRows DEF Settle, Before, DebitRow, Charges, ledgers
  <2>2. /\ \A d \in Callers \ {c} : StillMints(d)
        /\ \/ /\ Recorded(row) /\ orphans' = orphans
              /\ calls'[c].at = "minting" /\ calls'[c].dollars = dollars
           \/ /\ Unrecorded(row, consumed) /\ calls'[c].at = "idle"
    BY <1>3, ReturnIs DEF Before
  <2> HIDE DEF row
  <2>3. CASE /\ Recorded(row) /\ orphans' = orphans
             /\ calls'[c].at = "minting" /\ calls'[c].dollars = dollars
    BY <1>1, <1>2, <2>1, <2>2, <2>3, ChargeAudit
  <2>4. CASE Unrecorded(row, consumed) /\ calls'[c].at = "idle"
    <3>1. StillMints(c)  BY <2>1, <2>4 DEF StillMints
    <3>2. FileQuiet(p)  BY <2>1, <2>4, RefusedQuiet
    <3> QED  BY <1>1, <1>2, <2>1, <2>2, <3>1, <3>2, QuietAudit
  <2> QED  BY <2>2, <2>3, <2>4
<1>4. ASSUME NEW c \in Callers, Replay(c) PROVE AuditOf(p)'
  <2> DEFINE row == ReplayRow(c)
  <2>1. /\ calls[c].at = "asking" /\ up /\ row \in Row /\ row.op \in Charges
        /\ row.payer = PayerOf[c] /\ row.usd = calls[c].dollars
        /\ opened' = opened /\ receipts' = receipts
    BY <1>4, CallIsLive, RowsAreRows DEF Replay, GoesAhead, Before, ReplayRow, Charges, ledgers
  <2>2. /\ \A d \in Callers \ {c} : StillMints(d)
        /\ \/ /\ Recorded(row) /\ orphans' = orphans
              /\ calls'[c].at = "minting" /\ calls'[c].dollars = calls[c].dollars
           \/ /\ Unrecorded(row, consumed) /\ StillMints(c)
    BY <1>4, ReplayedIs DEF Before
  <2> HIDE DEF row
  <2>3. CASE /\ Recorded(row) /\ orphans' = orphans
             /\ calls'[c].at = "minting" /\ calls'[c].dollars = calls[c].dollars
    BY <1>1, <1>2, <2>1, <2>2, <2>3, ChargeAudit
  <2>4. CASE Unrecorded(row, consumed) /\ StillMints(c)
    <3>1. FileQuiet(p)  BY <2>1, <2>4, RefusedQuiet
    <3> QED  BY <1>1, <1>2, <2>1, <2>2, <2>4, <3>1, QuietAudit
  <2> QED  BY <2>2, <2>3, <2>4
<1>5. ASSUME NEW c \in Callers, Mint(c) PROVE AuditOf(p)'
  <2>1. /\ calls[c].at = "minting" /\ calls'[c].at = "idle" /\ CallsType' /\ CallsType /\ up
        /\ \A d \in Callers \ {c} : StillMints(d)
    BY <1>5, MintIs, CallIsLive DEF Before, TypeOK
  <2>2. /\ opened' = opened /\ Kept
        /\ receipts' = [receipts EXCEPT ![PayerOf[c]] = @ + calls[c].dollars]
    BY <1>5 DEF Mint, file, ghosts, Kept, Whole
  <2>3. receipts \in [Payers -> Nat] /\ calls[c].dollars \in Int
    <3>1. calls[c].dollars \in Nat  BY <2>1, OwedIs
    <3> QED  BY <3>1 DEF Before, TypeOK
  <2>4. CASE p = PayerOf[c]
    <3>1. Charged(p)' = Charged(p)
      BY <1>1, <2>2, ChargedSame DEF Before, FileQuiet
    <3>2. Owed(p)' = Owed(p) - calls[c].dollars  BY <2>1, <2>4, OwedLoses
    <3>3. receipts'[p] = receipts[p] + calls[c].dollars  BY <2>2, <2>3, <2>4
    <3>4. /\ Charged(p) \in Int /\ Owed(p) \in Int /\ receipts[p] \in Int
          /\ Charged(p) = receipts[p] + Owed(p)
      BY <1>1, <1>2, <2>1, <2>3, ChargedIs, OwedIs DEF Before, AuditOf
    <3>5. \A x, o, r, u \in Int : x = r + o => x = (r + u) + (o - u)  OBVIOUS
    <3>6. Charged(p) = (receipts[p] + calls[c].dollars) + (Owed(p) - calls[c].dollars)
      BY <2>3, <3>4, <3>5
    <3> QED  BY <3>1, <3>2, <3>3, <3>6 DEF AuditOf
  <2>5. CASE p # PayerOf[c]
    <3>1. receipts'[p] = receipts[p] /\ \A d \in Callers : PayerOf[d] = p => StillMints(d)
      BY <2>1, <2>2, <2>3, <2>5
    <3> QED  BY <1>1, <1>2, <2>1, <2>2, <3>1, QuietAudit DEF FileQuiet
  <2> QED  BY <2>4, <2>5
<1>6. ASSUME Kept, UNCHANGED <<opened, receipts>>, up, \A d \in Callers : StillMints(d)
      PROVE  AuditOf(p)'
  BY <1>1, <1>2, <1>6, QuietAudit DEF FileQuiet
<1>7. ASSUME NEW c \in Callers,
             \/ Ask(c) \/ Expire(c) \/ Wait(c)
             \/ RefuseClosed(c) \/ RefuseUnfunded(c) \/ RefuseCongested(c)
      PROVE  AuditOf(p)'
  <2>a. UNCHANGED <<journal, torn, orphans, opened, receipts>> /\ up' = up
    BY <1>7 DEF Ask, Expire, Wait, RefuseClosed, RefuseUnfunded, RefuseCongested, file, ghosts,
                ledgers, bounds
  <2>1. Kept /\ UNCHANGED <<opened, receipts>> /\ up  BY <2>a DEF Kept, Whole
  <2>2. \/ Ask(c) \/ Wait(c) \/ Expire(c)
        \/ calls[c].at \in {"asking", "waiting"} /\ calls' = [calls EXCEPT ![c] = Idle]
    BY <1>7 DEF RefuseClosed, RefuseUnfunded, RefuseCongested
  <2>3. \A d \in Callers : StillMints(d)  BY <2>2, QuietCalls DEF Before
  <2> QED  BY <1>6, <2>1, <2>3
<1>8. ASSUME NEW c \in Callers, Reserve(c) \/ Unpriced(c) PROVE AuditOf(p)'
  <2>a. UNCHANGED <<journal, torn, orphans, opened, receipts>> /\ up' = up
    BY <1>8 DEF Reserve, Unpriced, file, ghosts, ledgers, bounds
  <2>1. Kept /\ UNCHANGED <<opened, receipts>> /\ up  BY <2>a DEF Kept, Whole
  <2>2. \A d \in Callers : StillMints(d)
    <3>1. CASE Reserve(c)  BY <3>1, ReserveIs DEF Before
    <3>2. CASE Unpriced(c)
      <4>1. /\ calls[c].at = "provider" /\ calls'[c].at = "idle"
            /\ \A d \in Callers \ {c} : StillMints(d)
        BY <3>2, ReturnIs DEF Before
      <4>2. StillMints(c)  BY <4>1 DEF StillMints
      <4> QED  BY <4>1, <4>2
    <3> QED  BY <1>8, <3>1, <3>2
  <2> QED  BY <1>6, <2>1, <2>2
<1>9. ASSUME Refresh \/ RefreshRaises \/ (\E q \in Payers : Close(q)) \/ UNCHANGED vars
      PROVE  AuditOf(p)'
  <2>a. UNCHANGED <<journal, torn, orphans, opened, receipts>> /\ up' = up
    BY <1>9 DEF Refresh, RefreshRaises, Close, vars, file, ghosts, ledgers, bounds
  <2>1. Kept /\ UNCHANGED <<opened, receipts>> /\ up  BY <2>a DEF Kept, Whole
  <2>2. \A d \in Callers : StillMints(d)
    <3>1. UNCHANGED calls \/ calls' = WakeAll(calls)
      BY <1>9 DEF Refresh, RefreshRaises, Close, vars
    <3> QED  BY <3>1, QuietCalls DEF Before
  <2> QED  BY <1>6, <2>1, <2>2
<1>10. ASSUME NEW q \in Payers, NEW w \in 1..MaxWindow, NEW usd \in Amounts, Bind(q, w, usd)
       PROVE  AuditOf(p)'
  <2> DEFINE row == CapRow(q, w, usd)
  <2>1. /\ UNCHANGED <<opened, receipts>> /\ up /\ row \in Row /\ row.op \notin Charges
        /\ calls' = WakeAll(calls)
    BY <1>10, RowsAreRows DEF Bind, Before, CapRow, Charges, ledgers
  <2>2. \A d \in Callers : StillMints(d)  BY <2>1, QuietCalls DEF Before
  <2>3. \/ Recorded(row) /\ orphans' = orphans
        \/ Unrecorded(row, Len(Whole))
        \/ Kept
    BY <1>10 DEF Bind, CapRow, ghosts, Kept, Whole
  <2> HIDE DEF row
  <2>4. FileQuiet(p)
    <3>1. CASE Recorded(row) /\ orphans' = orphans
      <4>1. ~Spoils  BY DEF Spoils
      <4> QED  BY <2>1, <3>1, <4>1, RecordedIs DEF Before, FileQuiet
    <3>2. CASE Unrecorded(row, Len(Whole))  BY <2>1, <3>2, RefusedQuiet
    <3> QED  BY <2>3, <3>1, <3>2 DEF FileQuiet
  <2> QED  BY <1>1, <1>2, <2>1, <2>2, <2>4, QuietAudit
<1>11. ASSUME NEW q \in Payers, NEW usd \in Amounts, Credit(q, usd) PROVE AuditOf(p)'
  <2> DEFINE row == CreditRow(q, usd)
  <2>1. /\ UNCHANGED <<opened, receipts, orphans>> /\ up /\ row \in Row /\ row.op \notin Charges
        /\ calls' = calls /\ journal' = Written(row) /\ torn' = FALSE
    BY <1>11, RowsAreRows DEF Credit, Before, CreditRow, Charges, ledgers, ghosts
  <2>2. \A d \in Callers : StillMints(d)  BY <2>1 DEF StillMints
  <2> HIDE DEF row
  <2>3. FileQuiet(p)
    <3>1. (~torn => Adds(row)) /\ (torn => Spoils)
      <4>1. orphans \subseteq orphans' /\ orphans' \subseteq orphans \cup {Len(journal')}  BY <2>1
      <4> QED  BY <2>1, <4>1, WriteIs DEF Before
    <3> QED  BY <2>1, <3>1 DEF Spoils, FileQuiet
  <2> QED  BY <1>1, <1>2, <2>1, <2>2, <2>3, QuietAudit
<1>12. ~Crash  BY DEF Crash
<1>13. CASE Restart
  <2>1. /\ opened' = Len(Whole) /\ Whole' = Whole /\ receipts' = receipts /\ calls' = calls /\ ~up
    BY <1>13 DEF Restart, Whole
  <2>2. receipts'[p] = 0 /\ calls' = [c \in Callers |-> Idle]
    BY <2>1 DEF Before, DownInv, Fresh
  <2>3. Debits(p)' = {}
    <3>1. Len(Whole) \in Nat  BY WholeIs DEF Before
    <3>2. opened' + 1..Len(Whole') = {}  BY <2>1, <3>1
    <3> QED  BY <3>2 DEF Debits
  <2>4. Minting(p)' = {}  BY <2>2, IdleIs DEF Minting
  <2>5. \A f : SumFunctionOnSet(f, {}) = 0
    <3>1. IsFiniteSet({})  BY FS_EmptySet
    <3> QED  BY <3>1, SumStep
  <2>6. Charged(p)' = 0 /\ Owed(p)' = 0  BY <2>3, <2>4, <2>5 DEF Charged, Owed
  <2> QED  BY <2>2, <2>6 DEF AuditOf
<1> QED  BY <1>3, <1>4, <1>5, <1>7, <1>8, <1>9, <1>10, <1>11, <1>12, <1>13 DEF Next, Proceed, ProviderFails, KeyRefused

(***************************************************************************)
(* The theorems.                                                           *)
(***************************************************************************)

\* A gateway starts on whatever journal is there, with nothing in flight.
LEMMA Start == Init => Inv
<1> SUFFICES ASSUME Init PROVE Inv  OBVIOUS
<1>1. /\ journal \in Seq(Row) /\ torn = FALSE /\ consumed = Len(journal) /\ opened = Len(journal)
      /\ book = ReplayOnto(Blank, journal, 1) /\ orphans = {} /\ up = TRUE
      /\ held = Fresh(0) /\ holding = Fresh(0) /\ short = Fresh(0) /\ receipts = Fresh(0)
      /\ calls = [c \in Callers |-> Idle] /\ unfunded = Fresh(0)
      /\ excused = {p \in Payers : book.balance[p] <= 0 - MaxCost}
  BY GatewayAssumption DEF Init
<1>2. Len(journal) \in Nat /\ journal \in Seq(Lines) /\ \A i \in 1..Len(journal) : journal[i] \in Row
  <2>1. Len(journal) \in Nat /\ \A i \in 1..Len(journal) : journal[i] \in Row  BY <1>1
  <2>2. journal \in Seq(Lines)  BY <1>1 DEF Lines
  <2> QED  BY <2>1, <2>2
<1>3. book \in Books
  <2>1. 1 \in Nat \ {0} /\ 1 - 1 <= Len(journal)  BY <1>2
  <2> QED  BY <1>1, <1>2, <2>1, BlankIs, ReplayType
<1>4. CallsType  BY <1>1, IdleIs DEF CallsType
<1>5. TypeOK
  <2>1. /\ held \in [Payers -> Int] /\ holding \in [Payers -> Int] /\ short \in [Payers -> {0, 1}]
        /\ receipts \in [Payers -> Nat] /\ unfunded \in [Payers -> Nat]
    BY <1>1 DEF Fresh
  <2>2. torn \in BOOLEAN /\ up \in BOOLEAN /\ consumed \in Nat /\ opened \in Nat  BY <1>1, <1>2
  <2> QED  BY <1>2, <1>3, <1>4, <2>1, <2>2 DEF TypeOK
<1>6. Whole = journal  BY <1>1 DEF Whole
<1>7. FileInv /\ TailInv /\ DownInv  BY <1>1, <1>2, <1>6 DEF FileInv, TailInv, DownInv
<1>8. \A p \in Payers : InFlight(p) = {} /\ Holders(p) = {} /\ Minting(p) = {} /\ Debits(p) = {}
  <2>1. \A p \in Payers : InFlight(p) = {} /\ Minting(p) = {}
    BY <1>1, IdleIs DEF InFlight, Minting
  <2>2. opened + 1..Len(Whole) = {}  BY <1>1, <1>2, <1>6
  <2> QED  BY <2>1, <2>2 DEF Holders, Debits
<1>9. IsFiniteSet({}) /\ Cardinality({}) = 0 /\ \A f : SumFunctionOnSet(f, {}) = 0
  BY FS_EmptySet, SumStep
<1>10. HoldInv /\ ShortInv
  BY <1>1, <1>8, <1>9 DEF HoldInv, ShortInv, DollarsHeld, Fresh
<1>11. Journaled = book /\ Replayed = book
  <2>1. Journaled = book  BY <1>1, <1>6 DEF Journaled
  <2>2. Replayed = book  BY <1>1, <1>2, <1>6, ReplayNone DEF Replayed
  <2> QED  BY <2>1, <2>2
<1>12. \A p \in Payers : /\ book.balance[p] \in Int /\ book.cap[p] \in Nat
                         /\ held[p] = 0 /\ short[p] = 0 /\ receipts[p] = 0
  BY <1>1, <1>3 DEF Books, Fresh
<1>13. BooksInv
  <2>1. \A p \in Payers : book.balance[p] + held[p] <= book.balance[p] /\ book.cap[p] <= book.cap[p]
    BY <1>12
  <2> QED  BY <1>11, <2>1 DEF BooksInv, BooksOf
<1>14. OverrunInv
  <2>1. \A p \in Payers : p \notin excused => book.balance[p] > 0 - MaxCost
    BY <1>1, <1>12, MaxCostIs
  <2> QED  BY <1>11, <1>12, <2>1 DEF OverrunInv, OverrunOf
<1>15. AuditReconciles
  <2>1. \A p \in Payers : Charged(p) = 0 /\ Owed(p) = 0  BY <1>8, <1>9 DEF Charged, Owed
  <2>2. \A p \in Payers : AuditOf(p)  BY <1>12, <2>1 DEF AuditOf
  <2> QED  BY <2>2 DEF AuditReconciles, AuditOf, Charged, Owed, Debits, Minting
<1> QED  BY <1>5, <1>7, <1>10, <1>13, <1>14, <1>15 DEF Inv

\* A call counts as unfunded by one, where it finds its payer out of money or its key refused.
LEMMA CountStep ==
  ASSUME unfunded \in [Payers -> Nat], [Next]_vars
  PROVE  /\ unfunded' \in [Payers -> Nat]
         /\ \A p \in Payers : unfunded'[p] > unfunded[p] =>
              /\ unfunded'[p] = unfunded[p] + 1
              /\ \E c \in Callers : PayerOf[c] = p /\ (RefuseUnfunded(c) \/ KeyRefused(c))
<1>1. ASSUME NEW c \in Callers, RefuseUnfunded(c) \/ KeyRefused(c)
      PROVE  unfunded' = [unfunded EXCEPT ![PayerOf[c]] = @ + 1] /\ PayerOf[c] \in Payers
  BY <1>1, GatewayAssumption DEF RefuseUnfunded, KeyRefused, CountUnfunded
<1>2. CASE \E c \in Callers : RefuseUnfunded(c) \/ KeyRefused(c)  BY <1>1, <1>2
<1>3. CASE Crash
  <2>1. unfunded' = [p \in Payers |-> 0]  BY <1>3 DEF Crash, Fresh
  <2> QED  BY <2>1
<1>4. CASE UNCHANGED unfunded  BY <1>4
<1>5. \/ \E c \in Callers : RefuseUnfunded(c) \/ KeyRefused(c)
      \/ Crash \/ UNCHANGED unfunded
  BY DEF Next, Proceed, Ask, Expire, RefuseClosed, RefuseCongested, Wait, Reserve, Replay, Mint,
         ProviderFails, Settle, Refresh, RefreshRaises, Close, Bind, Credit, Restart, vars, ledgers
<1> QED  BY <1>2, <1>3, <1>4, <1>5

\* Nobody's excuse is taken back.
LEMMA ExcusedGrows ==
  ASSUME [Next]_vars
  PROVE  excused \subseteq excused'
BY DEF Next, Proceed, Ask, Expire, RefuseClosed, RefuseUnfunded, RefuseCongested, Wait, Reserve,
       Replay, Mint, ProviderFails, KeyRefused, Unpriced, Settle, Refresh, RefreshRaises, Close,
       Bind, Credit, Crash, Restart, vars, ghosts

\* The invariant is inductive.
LEMMA InvStep == Inv /\ [Next]_vars => Inv'
<1> SUFFICES ASSUME Inv, [Next]_vars PROVE Inv'  OBVIOUS
<1>1. Before /\ AuditReconciles  BY DEF Inv, Before
<1>2. FileStays  BY <1>1, FileStep DEF Before
<1>3. CallsStay  BY <1>1, CallsStep DEF Before
<1>4. BooksType'  BY <1>1, BooksTypeStep DEF Before
<1>5. DownInv'  BY <1>1, DownStep DEF Before
<1>6. After  BY <1>2, <1>3, <1>4, ExcusedGrows DEF After
<1>7. TypeOK'  BY <1>1, <1>2, <1>3, <1>4, CountStep DEF Before, TypeOK, FileStays, CallsStay, BooksType
<1>8. BooksInv' /\ OverrunInv'  BY <1>1, <1>6, <1>7, BooksStep
<1>9. AuditReconciles'  BY <1>1, <1>6, AuditStep
<1> QED  BY <1>2, <1>3, <1>5, <1>7, <1>8, <1>9 DEF Inv, FileStays, CallsStay

\* The gateway's books, holds and journal stay consistent through every step: the inductive
\* invariant the theorems below are read off.
THEOREM GatewayInvariant == Spec => []Inv
BY Start, InvStep, PTL DEF Spec

\* An arm overruns its allowance by at most one call.
THEOREM GatewayOverrunIsOneCall == Spec => []OverrunIsOneCall
<1>1. Inv => OverrunIsOneCall
  BY DEF Inv, OverrunInv, OverrunOf, OverrunIsOneCall, Unspoilt
<1> QED  BY <1>1, GatewayInvariant, PTL

\* No credit is applied twice and no debit lost.
THEOREM GatewayNeverDoubleCounts == Spec => []NeverDoubleCounts
<1>1. Inv => NeverDoubleCounts
  <2> SUFFICES ASSUME Inv, up, Readable(1), NEW p \in Payers, book.cap[p] = Journaled.cap[p],
                      Unspoilt(p)
               PROVE  book.balance[p] + held[p] <= Journaled.balance[p]
    BY DEF NeverDoubleCounts, Unspoilt
  <2>1. BooksOf(p) /\ TypeOK /\ FileInv /\ TailInv  BY DEF Inv, BooksInv
  <2>2. Readable(consumed + 1)  BY <2>1, WholeIs DEF Readable, TypeOK
  <2>3. Replayed \in Books /\ Replayed.balance[p] >= book.balance[p] /\ Journaled \in Books
    BY <2>1, <2>2, RefreshIs, JournaledIs
  <2> DEFINE j == Journaled.balance[p]
             r == Replayed.balance[p]
             b == book.balance[p]
  <2>4. j \in Int /\ r \in Int /\ b \in Int /\ held[p] \in Int /\ r >= b /\ r + held[p] <= j
    BY <2>1, <2>3 DEF Books, BooksOf, TypeOK
  <2> HIDE DEF j, r, b
  <2>5. b + held[p] <= j  BY <2>4
  <2> QED  BY <2>5 DEF b, j
<1> QED  BY <1>1, GatewayInvariant, PTL

\* The receipts of an arm are the debits it made.
THEOREM GatewayAuditReconciles == Spec => []AuditReconciles
<1>1. Inv => AuditReconciles  BY DEF Inv
<1> QED  BY <1>1, GatewayInvariant, PTL

\* A call counts as unfunded, once and at no cost to its payer, only when nothing that is held could
\* fund it or the provider refused the payer's key (call and replay of gateway.py).
THEOREM GatewayUnfundedIsReal == Spec => UnfundedIsReal
<1>1. ASSUME Inv, Inv', [Next]_vars, NEW p \in Payers, unfunded'[p] > unfunded[p]
      PROVE  /\ unfunded'[p] = unfunded[p] + 1
             /\ Funds(p)' = Funds(p)
             /\ Funds(p) <= 0 \/ \E c \in InFlight(p) : KeyRefused(c)
  <2>1. TypeOK /\ HoldInv /\ HoldInv'  BY <1>1 DEF Inv
  <2>2. PICK c \in Callers : PayerOf[c] = p /\ (RefuseUnfunded(c) \/ KeyRefused(c))
    BY <1>1, <2>1, CountStep DEF TypeOK
  <2>3. unfunded'[p] = unfunded[p] + 1  BY <1>1, <2>1, CountStep DEF TypeOK
  <2>4. /\ Funds(p) = book.balance[p] + held[p] /\ Funds(p)' = book'.balance[p] + held'[p]
        /\ book.balance[p] \in Int /\ held \in [Payers -> Int] /\ CallsType
        /\ holding[p] = Cardinality(Holders(p))
    BY <2>1 DEF Funds, HoldInv, TypeOK, Books
  <2>5. CASE RefuseUnfunded(c)
    <3>1. book.balance[p] <= 0 /\ holding[p] <= 0 /\ book' = book /\ held' = held
      BY <2>2, <2>5 DEF RefuseUnfunded, Broke, Free, money
    <3>2. IsFiniteSet(Holders(p)) /\ Cardinality(Holders(p)) \in Nat  BY <2>4, FlightIs
    <3>3. Holders(p) = {}  BY <2>4, <3>1, <3>2, FS_EmptySet
    <3>4. DollarsHeld(p) = 0  BY <2>4, <3>3, HeldIsNat
    <3>5. held[p] = 0  BY <2>1, <3>4 DEF HoldInv
    <3> QED  BY <2>3, <2>4, <3>1, <3>5
  <2>6. CASE KeyRefused(c)
    <3>1. /\ calls[c].at = "provider" /\ book' = Returned(c)
          /\ held' = [held EXCEPT ![p] = @ - calls[c].held]
      BY <2>2, <2>6 DEF KeyRefused, Unpriced, Unhold
    <3>2. c \in InFlight(p)  BY <2>2, <3>1 DEF InFlight
    <3>3. book'.balance[p] = book.balance[p] + calls[c].held /\ calls[c].held \in Nat
      BY <2>1, <2>2, <3>1, ReturnedIs
    <3>4. held'[p] = held[p] - calls[c].held /\ held[p] \in Int  BY <2>4, <3>1
    <3>5. Funds(p)' = Funds(p)  BY <2>4, <3>3, <3>4
    <3> QED  BY <2>3, <2>6, <3>2, <3>5
  <2> QED  BY <2>2, <2>5, <2>6
<1>2. Inv /\ Inv' /\ [Next]_vars =>
        [\A p \in Payers : unfunded'[p] > unfunded[p] =>
           /\ unfunded'[p] = unfunded[p] + 1
           /\ Funds(p)' = Funds(p)
           /\ Funds(p) <= 0 \/ \E c \in InFlight(p) : KeyRefused(c)]_vars
  BY <1>1
<1> QED  BY <1>2, GatewayInvariant, PTL DEF Spec, UnfundedIsReal
=============================================================================
