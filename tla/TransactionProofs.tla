--------------------------- MODULE TransactionProofs ---------------------------
(***************************************************************************)
(* What holds of the transaction store and of the application over it for  *)
(* every set of accounts and blocks, every limit, every number of handles  *)
(* and every sequence of crashes.                                          *)
(***************************************************************************)
EXTENDS TransactionAbci, TotalsProofs, SequenceTheorems

\* The rows of the tables.
ReservationStates == {"Reserved", "Committed", "Cancelled"}

Rows == [payer: Accounts, recipient: Accounts, units: Nat, state: ReservationStates]

\* The reservations an account still owes, and their units.
Owed(d, a) == {r \in Pending(d) : d.reservations[r].payer = a}
OwedUnits(d, a) == Total([r \in Owed(d, a) |-> d.reservations[r].units], Owed(d, a))

\* Tables whose accounting holds.
Balanced(d) ==
  /\ d.available \in [Accounts -> Nat]
  /\ d.reserved \in [Accounts -> Nat]
  /\ IsFiniteSet(DOMAIN d.reservations)
  /\ d.reservations \in [DOMAIN d.reservations -> Rows]
  /\ Len(d.operations) \in Nat
  /\ validate_accounting(d)

\* validate_accounting, in terms of what each account owes.
LEMMA Accounting ==
  ASSUME NEW d
  PROVE  validate_accounting(d) <=>
           /\ Total(d.available, Accounts) + Total(d.reserved, Accounts)
                = Total(Supply, Accounts)
           /\ \A a \in Accounts : d.reserved[a] = OwedUnits(d, a)
           /\ Len(d.operations) + Cardinality(Pending(d)) <= MAX_OPERATIONS
BY DEF validate_accounting, OwedUnits, Owed

(***************************************************************************)
(* Pending reservations are finitely many, and the units of each are part  *)
(* of what its payer has reserved.                                         *)
(***************************************************************************)
LEMMA OwedFacts ==
  ASSUME NEW d, Balanced(d)
  PROVE  /\ IsFiniteSet(Pending(d)) /\ Cardinality(Pending(d)) \in Nat
         /\ \A a \in Accounts : IsFiniteSet(Owed(d, a))
         /\ \A a \in Accounts : \A r \in Owed(d, a) : d.reservations[r].units \in Nat
         /\ \A a \in Accounts : \A r \in Owed(d, a) : d.reservations[r].units <= d.reserved[a]
<1>1. IsFiniteSet(Pending(d)) /\ Cardinality(Pending(d)) \in Nat
  <2>1. Pending(d) \subseteq DOMAIN d.reservations
    BY DEF Pending
  <2> QED BY <2>1, FS_Subset, FS_CardinalityType DEF Balanced
<1>2. ASSUME NEW a \in Accounts PROVE IsFiniteSet(Owed(d, a))
  <2>1. Owed(d, a) \subseteq Pending(d)
    BY DEF Owed
  <2> QED BY <1>1, <2>1, FS_Subset
<1>3. ASSUME NEW a \in Accounts, NEW r \in Owed(d, a) PROVE d.reservations[r].units \in Nat
  BY DEF Owed, Pending, Balanced, Rows
<1>4. ASSUME NEW a \in Accounts, NEW r \in Owed(d, a)
      PROVE  d.reservations[r].units <= d.reserved[a]
  <2> DEFINE f == [s \in Owed(d, a) |-> d.reservations[s].units]
  <2>1. \A s \in Owed(d, a) : f[s] \in Nat
    BY <1>3
  <2>2. f[r] = d.reservations[r].units
    OBVIOUS
  <2>3. d.reserved[a] = Total(f, Owed(d, a))
    BY Accounting DEF Balanced, OwedUnits
  <2> HIDE DEF f
  <2>4. f[r] <= Total(f, Owed(d, a))
    BY <1>2, <2>1, TotalBounds
  <2> QED BY <2>2, <2>3, <2>4
<1> QED BY <1>1, <1>2, <1>3, <1>4

(***************************************************************************)
(* No balance exceeds the total supply, not even one account's available   *)
(* units with another's reserved ones.                                     *)
(***************************************************************************)
LEMMA BalancesBounded ==
  ASSUME NEW d, Balanced(d), NEW a \in Accounts, NEW b \in Accounts
  PROVE  /\ d.available[a] \in Nat /\ d.reserved[b] \in Nat
         /\ d.available[a] + d.reserved[b] <= MAX_UNITS
<1>1. /\ \A x \in Accounts : d.available[x] \in Nat
      /\ \A x \in Accounts : d.reserved[x] \in Nat
      /\ IsFiniteSet(Accounts)
  BY AccountAssumption DEF Balanced
<1>2. d.available[a] <= Total(d.available, Accounts) /\ Total(d.available, Accounts) \in Nat
  BY <1>1, TotalBounds, TotalNat
<1>3. d.reserved[b] <= Total(d.reserved, Accounts) /\ Total(d.reserved, Accounts) \in Nat
  BY <1>1, TotalBounds, TotalNat
<1>4. Total(d.available, Accounts) + Total(d.reserved, Accounts) <= MAX_UNITS
  BY Accounting, AccountAssumption DEF Balanced
<1> QED BY <1>1, <1>2, <1>3, <1>4, AccountAssumption

\* The tables apply_new writes for an admitted command.
applied(d, c) ==
  [available    |-> transition(d, c).available,
   reserved     |-> transition(d, c).reserved,
   reservations |-> transition(d, c).reservations,
   operations   |-> Append(d.operations, [signed |-> c, state |-> outcome_state(c)])]

\* The verdict on a command that is not in the log.
LEMMA ApplyNew ==
  ASSUME NEW d, NEW c, NEW t
  PROVE  apply_new(d, c, t) =
           IF new_refusal(d, c, t) # "Ok" THEN refused(d, new_refusal(d, c, t))
           ELSE IF validate_accounting(applied(d, c))
                THEN [code |-> "Ok",
                      receipt |-> receipt(applied(d, c), Len(applied(d, c).operations)),
                      db |-> applied(d, c)]
                ELSE refused(d, "Store")
BY DEF apply_new, applied

(***************************************************************************)
(* A reservation moves units from available to reserved of one account and *)
(* is from then on owed by it.                                             *)
(***************************************************************************)
LEMMA ReserveBalanced ==
  ASSUME NEW d, Balanced(d), NEW E, d.operations \in Seq(E), NEW c, IsCommand(c),
         c.kind = "Reserve", c.payer \in Accounts,
         reserve_refusal(d, c) = "Ok", ~over_budget(d, c)
  PROVE  Balanced(applied(d, c))
<1> DEFINE n == applied(d, c)
           p == c.payer
           R == DOMAIN d.reservations
<1>1. /\ c.target \in Accounts /\ d.available[p] >= c.units /\ c.id \notin R
      /\ Len(d.operations) + Cardinality(Pending(d)) + 2 <= MAX_OPERATIONS
      /\ c.units \in Nat
  <2>1. c.target \in Accounts /\ ~(d.available[p] < c.units) /\ c.id \notin R
    BY DEF reserve_refusal
  <2>2. ~(Len(d.operations) + Cardinality(Pending(d)) + 2 > MAX_OPERATIONS)
    BY DEF over_budget
  <2>3. c.units \in Nat
    BY DEF IsCommand
  <2>4. d.available[p] \in Nat /\ Len(d.operations) \in Nat /\ MAX_OPERATIONS \in Nat
    BY AccountAssumption DEF Balanced
  <2>5. Cardinality(Pending(d)) \in Nat
    BY OwedFacts
  <2> HIDE DEF p, R
  <2> QED BY <2>1, <2>2, <2>3, <2>4, <2>5
<1>2. /\ n.available = [d.available EXCEPT ![p] = @ - c.units]
      /\ n.reserved = [d.reserved EXCEPT ![p] = @ + c.units]
      /\ n.reservations = [r \in R \cup {c.id} |->
                             IF r = c.id
                             THEN [payer |-> p, recipient |-> c.target,
                                   units |-> c.units, state |-> "Reserved"]
                             ELSE d.reservations[r]]
      /\ n.operations = Append(d.operations, [signed |-> c, state |-> outcome_state(c)])
  BY DEF applied, transition, reserve_effect
<1> HIDE DEF n
<1>3. Len(n.operations) = Len(d.operations) + 1 /\ Len(n.operations) \in Nat
  BY <1>2
<1>4. n.available \in [Accounts -> Nat] /\ n.reserved \in [Accounts -> Nat]
  BY <1>1, <1>2 DEF Balanced
<1>5. /\ DOMAIN n.reservations = R \cup {c.id}
      /\ n.reservations \in [DOMAIN n.reservations -> Rows]
      /\ IsFiniteSet(DOMAIN n.reservations)
  <2>1. DOMAIN n.reservations = R \cup {c.id}
    BY <1>2
  <2>2. [payer |-> p, recipient |-> c.target, units |-> c.units, state |-> "Reserved"] \in Rows
    BY <1>1 DEF Rows, ReservationStates
  <2>3. n.reservations \in [DOMAIN n.reservations -> Rows]
    BY <1>2, <2>2 DEF Balanced
  <2>4. IsFiniteSet(R)
    BY DEF Balanced
  <2>5. IsFiniteSet(R \cup {c.id})
    BY <2>4, FS_AddElement
  <2> QED BY <2>1, <2>3, <2>5
<1>6. /\ \A r \in R : n.reservations[r] = d.reservations[r]
      /\ n.reservations[c.id] = [payer |-> p, recipient |-> c.target,
                                 units |-> c.units, state |-> "Reserved"]
  BY <1>1, <1>2
<1>7. Pending(n) = Pending(d) \cup {c.id} /\ c.id \notin Pending(d)
  BY <1>1, <1>5, <1>6 DEF Pending
<1>8. Len(n.operations) + Cardinality(Pending(n)) <= MAX_OPERATIONS
  <2>1. Cardinality(Pending(n)) = Cardinality(Pending(d)) + 1
    BY <1>7, OwedFacts, FS_AddElement
  <2>2. Cardinality(Pending(d)) \in Nat /\ Len(d.operations) \in Nat /\ MAX_OPERATIONS \in Nat
    BY OwedFacts, AccountAssumption DEF Balanced
  <2> QED BY <1>1, <1>3, <2>1, <2>2
<1>9. Total(n.available, Accounts) + Total(n.reserved, Accounts) = Total(Supply, Accounts)
  <2>1. /\ IsFiniteSet(Accounts) /\ p \in Accounts
        /\ \A x \in Accounts : d.available[x] \in Int /\ d.reserved[x] \in Int
        /\ d.available[p] \in Int /\ d.reserved[p] \in Int
    BY AccountAssumption DEF Balanced
  <2>2. /\ n.available[p] = d.available[p] - c.units /\ n.available[p] \in Int
        /\ \A x \in Accounts \ {p} : n.available[x] = d.available[x]
        /\ n.reserved[p] = d.reserved[p] + c.units /\ n.reserved[p] \in Int
        /\ \A x \in Accounts \ {p} : n.reserved[x] = d.reserved[x]
    BY <1>1, <1>2, <2>1 DEF Balanced
  <2>7. /\ IntsOn(d.available, Accounts) /\ ChangedAt(d.available, n.available, Accounts, p)
        /\ IntsOn(d.reserved, Accounts) /\ ChangedAt(d.reserved, n.reserved, Accounts, p)
    BY <2>1, <2>2 DEF IntsOn, ChangedAt
  <2>3. Total(n.available, Accounts) = Total(d.available, Accounts) - d.available[p] + n.available[p]
    BY <2>1, <2>7, TotalChange
  <2>4. Total(n.reserved, Accounts) = Total(d.reserved, Accounts) - d.reserved[p] + n.reserved[p]
    BY <2>1, <2>7, TotalChange
  <2>5. Total(d.available, Accounts) \in Int /\ Total(d.reserved, Accounts) \in Int
    BY <2>1, TotalInt
  <2>6. Total(d.available, Accounts) + Total(d.reserved, Accounts) = Total(Supply, Accounts)
    BY Accounting DEF Balanced
  <2>8. /\ d.available[p] \in Int /\ d.reserved[p] \in Int /\ c.units \in Int
        /\ n.available[p] = d.available[p] - c.units /\ n.reserved[p] = d.reserved[p] + c.units
    BY <1>1, <2>1, <2>2
  <2> HIDE DEF p
  <2> QED BY <2>3, <2>4, <2>5, <2>6, <2>8
<1>10. ASSUME NEW a \in Accounts PROVE n.reserved[a] = OwedUnits(n, a)
  <2> DEFINE f == [r \in Owed(d, a) |-> d.reservations[r].units]
             g == [r \in Owed(n, a) |-> n.reservations[r].units]
  <2>1. d.reserved[a] = Total(f, Owed(d, a)) /\ OwedUnits(n, a) = Total(g, Owed(n, a))
    BY Accounting DEF Balanced, OwedUnits
  <2>2. Owed(d, a) \subseteq R /\ IsFiniteSet(Owed(d, a))
    BY OwedFacts DEF Owed, Pending
  <2>3. CASE a # p
    <3>1. Owed(n, a) = Owed(d, a)
      BY <1>6, <1>7, <2>2, <2>3 DEF Owed, Pending
    <3>2. g = f
      BY <1>6, <2>2, <3>1
    <3>3. n.reserved[a] = d.reserved[a]
      BY <1>2, <2>3 DEF Balanced
    <3> HIDE DEF f, g
    <3> QED BY <2>1, <3>1, <3>2, <3>3
  <2>4. CASE a = p
    <3>1. Owed(n, a) = Owed(d, a) \cup {c.id} /\ c.id \notin Owed(d, a)
      BY <1>1, <1>6, <1>7, <2>2, <2>4 DEF Owed, Pending
    <3>2. g[c.id] = c.units /\ \A r \in Owed(d, a) : g[r] = f[r]
      BY <1>6, <2>2, <3>1
    <3>3. \A r \in Owed(d, a) : f[r] \in Int
      BY OwedFacts
    <3>4. n.reserved[a] = d.reserved[a] + c.units
      BY <1>2, <2>4 DEF Balanced
    <3> HIDE DEF f, g
    <3>5. \A r \in Owed(d, a) \cup {c.id} : g[r] \in Int
      BY <1>1, <3>2, <3>3
    <3>6. Total(g, Owed(d, a) \cup {c.id}) = g[c.id] + Total(g, Owed(d, a))
      BY <2>2, <3>1, <3>5, TotalAdd
    <3>7. Total(g, Owed(d, a)) = Total(f, Owed(d, a))
      BY <2>2, <3>2, TotalSame
    <3>8. Total(f, Owed(d, a)) \in Int
      BY <2>2, <3>3, TotalInt
    <3> QED BY <1>1, <2>1, <3>1, <3>2, <3>4, <3>6, <3>7, <3>8
  <2> QED BY <2>3, <2>4
<1>11. validate_accounting(n)
  BY <1>8, <1>9, <1>10, Accounting
<1>12. Balanced(n)
  BY <1>3, <1>4, <1>5, <1>11 DEF Balanced
<1> QED BY <1>12 DEF n

(***************************************************************************)
(* A completion hands the units of one pending reservation of its payer to *)
(* the beneficiary.                                                        *)
(***************************************************************************)
LEMMA CompletionBalanced ==
  ASSUME NEW d, Balanced(d), NEW E, d.operations \in Seq(E), NEW c, IsCommand(c),
         c.kind # "Reserve", c.payer \in Accounts, completion_refusal(d, c) = "Ok"
  PROVE  Balanced(applied(d, c))
<1> DEFINE n == applied(d, c)
           p == c.payer
           x == beneficiary(d, c)
           t == c.target
           u == d.reservations[t].units
           R == DOMAIN d.reservations
<1>1. /\ t \in R /\ d.reservations[t].payer = p /\ d.reservations[t].state = "Reserved"
      /\ x \in Accounts /\ u \in Nat /\ d.reserved[p] >= u
  <2>1. t \in R /\ d.reservations[t].payer = p /\ d.reservations[t].state = "Reserved"
        /\ ~(d.reserved[p] < u)
    BY DEF completion_refusal
  <2>2. d.reservations[t] \in Rows
    BY <2>1 DEF Balanced
  <2>3. u \in Nat /\ x \in Accounts /\ d.reserved[p] \in Nat
    BY <2>1, <2>2 DEF Rows, beneficiary, Balanced
  <2> QED BY <2>1, <2>3
<1>2. /\ n.available = [d.available EXCEPT ![x] = @ + u]
      /\ n.reserved = [d.reserved EXCEPT ![p] = @ - u]
      /\ n.reservations = [d.reservations EXCEPT ![t].state = outcome_state(c)]
      /\ n.operations = Append(d.operations, [signed |-> c, state |-> outcome_state(c)])
  BY DEF applied, transition, completion_effect
<1>3. outcome_state(c) \in {"Committed", "Cancelled"}
  BY DEF outcome_state, IsCommand
<1> HIDE DEF n, x
<1>4. Len(n.operations) = Len(d.operations) + 1 /\ Len(n.operations) \in Nat
  BY <1>2
<1>5. n.available \in [Accounts -> Nat] /\ n.reserved \in [Accounts -> Nat]
  BY <1>1, <1>2 DEF Balanced
<1>6. /\ DOMAIN n.reservations = R /\ IsFiniteSet(DOMAIN n.reservations)
      /\ \A r \in R \ {t} : n.reservations[r] = d.reservations[r]
      /\ n.reservations[t] = [d.reservations[t] EXCEPT !.state = outcome_state(c)]
  BY <1>1, <1>2 DEF Balanced
<1>7. d.reservations[t] \in Rows
  BY <1>1 DEF Balanced
<1>8. /\ n.reservations[t] \in Rows /\ n.reservations[t].state = outcome_state(c)
  BY <1>3, <1>6, <1>7 DEF Rows, ReservationStates
<1>9. n.reservations \in [DOMAIN n.reservations -> Rows]
  BY <1>1, <1>2, <1>6, <1>8 DEF Balanced
<1>10. Pending(n) = Pending(d) \ {t} /\ t \in Pending(d)
  BY <1>1, <1>3, <1>6, <1>8 DEF Pending
<1>11. Len(n.operations) + Cardinality(Pending(n)) <= MAX_OPERATIONS
  <2>1. Cardinality(Pending(n)) = Cardinality(Pending(d)) - 1
    BY <1>10, OwedFacts, FS_RemoveElement
  <2>2. Len(d.operations) + Cardinality(Pending(d)) <= MAX_OPERATIONS
    BY Accounting DEF Balanced
  <2>3. Cardinality(Pending(d)) \in Nat /\ Len(d.operations) \in Nat /\ MAX_OPERATIONS \in Nat
    BY OwedFacts, AccountAssumption DEF Balanced
  <2> QED BY <1>4, <2>1, <2>2, <2>3
<1>12. Total(n.available, Accounts) + Total(n.reserved, Accounts) = Total(Supply, Accounts)
  <2>1. /\ IsFiniteSet(Accounts) /\ p \in Accounts /\ x \in Accounts
        /\ \A y \in Accounts : d.available[y] \in Int /\ d.reserved[y] \in Int
        /\ d.available[x] \in Int /\ d.reserved[p] \in Int
    BY <1>1, AccountAssumption DEF Balanced
  <2>2. /\ n.available[x] = d.available[x] + u /\ n.available[x] \in Int
        /\ \A y \in Accounts \ {x} : n.available[y] = d.available[y]
        /\ n.reserved[p] = d.reserved[p] - u /\ n.reserved[p] \in Int
        /\ \A y \in Accounts \ {p} : n.reserved[y] = d.reserved[y]
    BY <1>1, <1>2, <2>1 DEF Balanced
  <2>7. /\ IntsOn(d.available, Accounts) /\ ChangedAt(d.available, n.available, Accounts, x)
        /\ IntsOn(d.reserved, Accounts) /\ ChangedAt(d.reserved, n.reserved, Accounts, p)
    BY <2>1, <2>2 DEF IntsOn, ChangedAt
  <2>3. Total(n.available, Accounts) = Total(d.available, Accounts) - d.available[x] + n.available[x]
    BY <2>1, <2>7, TotalChange
  <2>4. Total(n.reserved, Accounts) = Total(d.reserved, Accounts) - d.reserved[p] + n.reserved[p]
    BY <2>1, <2>7, TotalChange
  <2>5. Total(d.available, Accounts) \in Int /\ Total(d.reserved, Accounts) \in Int
    BY <2>1, TotalInt
  <2>6. Total(d.available, Accounts) + Total(d.reserved, Accounts) = Total(Supply, Accounts)
    BY Accounting DEF Balanced
  <2>8. /\ d.available[x] \in Int /\ d.reserved[p] \in Int /\ u \in Int
        /\ n.available[x] = d.available[x] + u /\ n.reserved[p] = d.reserved[p] - u
    BY <1>1, <2>1, <2>2
  <2> HIDE DEF p, u
  <2> QED BY <2>3, <2>4, <2>5, <2>6, <2>8
<1>13. ASSUME NEW a \in Accounts PROVE n.reserved[a] = OwedUnits(n, a)
  <2> DEFINE f == [r \in Owed(d, a) |-> d.reservations[r].units]
             g == [r \in Owed(n, a) |-> n.reservations[r].units]
  <2>1. d.reserved[a] = Total(f, Owed(d, a)) /\ OwedUnits(n, a) = Total(g, Owed(n, a))
    BY Accounting DEF Balanced, OwedUnits
  <2>2. Owed(d, a) \subseteq R /\ IsFiniteSet(Owed(d, a))
    BY OwedFacts DEF Owed, Pending
  <2>3. CASE a # p
    <3>1. Owed(n, a) = Owed(d, a) /\ t \notin Owed(d, a)
      BY <1>1, <1>6, <1>10, <2>2, <2>3 DEF Owed, Pending
    <3>2. g = f
      BY <1>6, <2>2, <3>1
    <3>3. n.reserved[a] = d.reserved[a]
      BY <1>2, <2>3 DEF Balanced
    <3> HIDE DEF f, g
    <3> QED BY <2>1, <3>1, <3>2, <3>3
  <2>4. CASE a = p
    <3>1. Owed(n, a) = Owed(d, a) \ {t} /\ t \in Owed(d, a)
      BY <1>1, <1>6, <1>10, <2>2, <2>4 DEF Owed, Pending
    <3>2. f[t] = u /\ \A r \in Owed(d, a) \ {t} : g[r] = f[r]
      BY <1>6, <2>2, <3>1
    <3>3. \A r \in Owed(d, a) : f[r] \in Int
      BY OwedFacts
    <3>4. n.reserved[a] = d.reserved[a] - u
      BY <1>2, <2>4 DEF Balanced
    <3> HIDE DEF f, g
    <3>5. Total(f, Owed(d, a)) = f[t] + Total(f, Owed(d, a) \ {t})
      BY <2>2, <3>1, <3>3, TotalRemove
    <3>6. IsFiniteSet(Owed(d, a) \ {t})
      BY <2>2, FS_Subset
    <3>7. Total(g, Owed(d, a) \ {t}) = Total(f, Owed(d, a) \ {t})
      BY <3>2, <3>6, TotalSame
    <3>8. \A r \in Owed(d, a) \ {t} : f[r] \in Int
      BY <3>3
    <3>9. Total(f, Owed(d, a) \ {t}) \in Int
      BY <3>6, <3>8, TotalInt
    <3> QED BY <1>1, <2>1, <3>1, <3>2, <3>4, <3>5, <3>7, <3>9
  <2> QED BY <2>3, <2>4
<1>14. validate_accounting(n)
  BY <1>11, <1>12, <1>13, Accounting
<1>15. Balanced(n)
  BY <1>4, <1>5, <1>6, <1>9, <1>14 DEF Balanced
<1> QED BY <1>15 DEF n

-------------------------------------------------------------------------------
(* The operation log.                                                      *)

Entries == [signed: Commands, state: ReservationStates]

\* The operations about one reservation.
About(d, r) == {i \in DOMAIN d.operations : subject(d.operations[i].signed) = r}

Opened(d, r) ==
  \E i \in DOMAIN d.operations : About(d, r) = {i} /\ d.operations[i].state = "Reserved"
Closed(d, r) ==
  \E i, j \in DOMAIN d.operations :
    i < j /\ About(d, r) = {i, j} /\ d.operations[j].state = d.reservations[r].state

\* The log holds verified commands of enrolled accounts, each id once, and
\* explains every reservation and its state.
Explained(d) ==
  /\ d.operations \in Seq(Entries)
  /\ \A i \in DOMAIN d.operations :
       /\ verify_mode(d.operations[i].signed) = "Ok"
       /\ d.operations[i].signed.payer \in Accounts
       /\ subject(d.operations[i].signed) \in DOMAIN d.reservations
  /\ \A i, j \in DOMAIN d.operations :
       d.operations[i].signed.id = d.operations[j].signed.id => i = j
  /\ \A r \in DOMAIN d.reservations : \E i \in DOMAIN d.operations : d.operations[i].signed.id = r
  /\ \A r \in DOMAIN d.reservations : IF r \in Pending(d) THEN Opened(d, r) ELSE Closed(d, r)

Good(d) == Balanced(d) /\ Explained(d)

\* Every command of a block has the decoded type.
LEMMA CommandsTyped == \A c \in Commands : IsCommand(c)
BY BlocksAssumption DEF Commands, IsBlock, ToSet

(***************************************************************************)
(* A command that passes every refusal leaves accounts in balance, so the  *)
(* check that follows it cannot fail.                                      *)
(***************************************************************************)
LEMMA AdmittedBalanced ==
  ASSUME NEW d, Good(d), NEW c, IsCommand(c), NEW t, c.payer \in Accounts,
         new_refusal(d, c, t) = "Ok"
  PROVE  /\ Balanced(applied(d, c))
         /\ ~over_budget(d, c) /\ transition_refusal(d, c) = "Ok"
<1>1. ~over_budget(d, c) /\ transition_refusal(d, c) = "Ok"
  BY DEF new_refusal
<1>2. Balanced(d) /\ d.operations \in Seq(Entries)
  BY DEF Good, Explained
<1>3. CASE c.kind = "Reserve"
  <2>1. reserve_refusal(d, c) = "Ok"
    BY <1>1, <1>3 DEF transition_refusal
  <2> QED BY <1>1, <1>2, <1>3, <2>1, ReserveBalanced
<1>4. CASE c.kind # "Reserve"
  <2>1. completion_refusal(d, c) = "Ok"
    BY <1>1, <1>4 DEF transition_refusal
  <2> QED BY <1>1, <1>2, <1>4, <2>1, CompletionBalanced
<1> QED BY <1>3, <1>4

\* None of the refusals of a new command is fatal.
LEMMA NewNeverFatal ==
  ASSUME NEW d, Good(d), NEW c, IsCommand(c), NEW t, c.payer \in Accounts, Logged(d, c.id) = {}
  PROVE  new_refusal(d, c, t) # "Store"
<1>1. c.kind = "Reserve" => reserve_refusal(d, c) # "Store"
  <2>1. c.id \notin DOMAIN d.reservations
    BY DEF Good, Explained, Logged
  <2> QED BY <2>1 DEF reserve_refusal
<1>2. completion_refusal(d, c) # "Store"
  <2> SUFFICES ASSUME c.target \in DOMAIN d.reservations,
                      d.reservations[c.target].payer = c.payer,
                      d.reservations[c.target].state = "Reserved"
               PROVE  ~(d.reserved[c.payer] < d.reservations[c.target].units)
    BY DEF completion_refusal
  <2>1. c.target \in Owed(d, c.payer)
    BY DEF Owed, Pending
  <2>2. /\ d.reservations[c.target].units \in Nat /\ d.reserved[c.payer] \in Nat
        /\ d.reservations[c.target].units <= d.reserved[c.payer]
    BY <2>1, OwedFacts DEF Good, Balanced
  <2> QED BY <2>2
<1> QED BY <1>1, <1>2 DEF new_refusal, transition_refusal

(***************************************************************************)
(* What apply_command answers, case by case.                               *)
(***************************************************************************)
LEMMA ApplyCases ==
  ASSUME NEW d, Good(d), NEW c, IsCommand(c), NEW t
  PROVE  \/ /\ apply_command(d, c, t).code \notin {"Store", "Ok"}
            /\ apply_command(d, c, t).db = d
         \/ /\ apply_command(d, c, t).code \in {"Ok", "Conflict"}
            /\ apply_command(d, c, t).db = d
            /\ verify_mode(c) = "Ok" /\ c.payer \in Accounts /\ Logged(d, c.id) # {}
         \/ /\ apply_command(d, c, t).code = "Ok"
            /\ apply_command(d, c, t).db = applied(d, c)
            /\ verify_mode(c) = "Ok" /\ c.payer \in Accounts /\ Logged(d, c.id) = {}
            /\ new_refusal(d, c, t) = "Ok" /\ Balanced(applied(d, c))
<1>1. CASE verify_mode(c) # "Ok"
  <2>1. verify_mode(c) # "Store"
    BY DEF verify_mode, IsCommand
  <2> QED BY <1>1, <2>1 DEF apply_command, refused
<1>2. CASE verify_mode(c) = "Ok" /\ c.payer \notin Accounts
  BY <1>2 DEF apply_command, refused
<1>3. CASE verify_mode(c) = "Ok" /\ c.payer \in Accounts /\ Logged(d, c.id) # {}
  <2>1. apply_command(d, c, t) = apply_known(d, c)
    BY <1>3 DEF apply_command
  <2>2. apply_known(d, c).code \in {"Ok", "Conflict"} /\ apply_known(d, c).db = d
    BY DEF apply_known, refused
  <2> QED BY <1>3, <2>1, <2>2
<1>4. CASE verify_mode(c) = "Ok" /\ c.payer \in Accounts /\ Logged(d, c.id) = {}
  <2>1. apply_command(d, c, t) = apply_new(d, c, t)
    BY <1>4 DEF apply_command
  <2>2. CASE new_refusal(d, c, t) # "Ok"
    <3>1. apply_new(d, c, t) = refused(d, new_refusal(d, c, t))
      BY <2>2, ApplyNew
    <3> QED BY <1>4, <2>1, <2>2, <3>1, NewNeverFatal DEF refused
  <2>3. CASE new_refusal(d, c, t) = "Ok"
    <3>1. Balanced(applied(d, c))
      BY <1>4, <2>3, AdmittedBalanced
    <3>2. validate_accounting(applied(d, c))
      BY <3>1 DEF Balanced
    <3>3. apply_new(d, c, t).code = "Ok" /\ apply_new(d, c, t).db = applied(d, c)
      BY <2>3, <3>2, ApplyNew
    <3> QED BY <1>4, <2>1, <2>3, <3>1, <3>3
  <2> QED BY <2>2, <2>3
<1> QED BY <1>1, <1>2, <1>3, <1>4

(***************************************************************************)
(* An accepted command extends the explanation of the reservations.        *)
(***************************************************************************)
LEMMA AppliedExplained ==
  ASSUME NEW d, Good(d), NEW c \in Commands, NEW t, verify_mode(c) = "Ok", c.payer \in Accounts,
         Logged(d, c.id) = {}, new_refusal(d, c, t) = "Ok"
  PROVE  Explained(applied(d, c))
<1> DEFINE n == applied(d, c)
           L == Len(d.operations)
           e == [signed |-> c, state |-> outcome_state(c)]
           s == subject(c)
<1>1. IsCommand(c) /\ Balanced(d) /\ Explained(d) /\ d.operations \in Seq(Entries)
  BY CommandsTyped DEF Good, Explained
<1>2. /\ n.operations = Append(d.operations, e)
      /\ n.reservations = transition(d, c).reservations
  BY DEF applied
<1>3. outcome_state(c) \in ReservationStates /\ e \in Entries
  BY <1>1 DEF outcome_state, ReservationStates, IsCommand, Entries
<1>4. transition_refusal(d, c) = "Ok"
  BY <1>1, AdmittedBalanced
<1>5. /\ n.operations \in Seq(Entries)
      /\ L \in Nat /\ DOMAIN d.operations = 1 .. L /\ DOMAIN n.operations = 1 .. (L + 1)
      /\ \A i \in 1 .. L : n.operations[i] = d.operations[i]
      /\ n.operations[L + 1] = e
  <2> HIDE DEF n, e
  <2> QED BY <1>1, <1>2, <1>3
<1>6. e.signed = c /\ e.state = outcome_state(c)
  OBVIOUS
<1>7. CASE c.kind = "Reserve"
  <2>1. /\ s = c.id /\ e.state = "Reserved" /\ s \notin DOMAIN d.reservations
    BY <1>4, <1>7 DEF subject, outcome_state, transition_refusal, reserve_refusal
  <2>2. /\ DOMAIN n.reservations = DOMAIN d.reservations \cup {s}
        /\ \A r \in DOMAIN d.reservations : n.reservations[r] = d.reservations[r]
        /\ n.reservations[s].state = "Reserved"
    BY <1>2, <1>7, <2>1 DEF transition, reserve_effect
  <2> HIDE DEF n, e, s, L
  <2>3. Pending(n) = Pending(d) \cup {s}
    BY <2>1, <2>2 DEF Pending
  <2>4. /\ \A r \in DOMAIN d.reservations : About(n, r) = About(d, r)
        /\ About(n, s) = {L + 1}
    <3>1. \A i \in 1 .. L : subject(d.operations[i].signed) \in DOMAIN d.reservations
      BY <1>1, <1>5 DEF Explained
    <3>2. subject(n.operations[L + 1].signed) = s
      BY <1>5, <1>6 DEF s
    <3>3. \A r \in DOMAIN d.reservations : About(n, r) = About(d, r)
      BY <1>5, <2>1, <3>2 DEF About
    <3>4. About(n, s) = {L + 1}
      BY <1>5, <2>1, <3>1, <3>2 DEF About
    <3> QED BY <3>3, <3>4
  <2>5. Opened(n, s)
    <3>1. L + 1 \in DOMAIN n.operations /\ n.operations[L + 1].state = "Reserved"
      BY <1>5, <2>1
    <3> QED BY <2>4, <3>1 DEF Opened
  <2>6. ASSUME NEW r \in DOMAIN d.reservations
        PROVE  IF r \in Pending(n) THEN Opened(n, r) ELSE Closed(n, r)
    <3>1. About(n, r) = About(d, r) /\ (r \in Pending(n) <=> r \in Pending(d))
      BY <2>1, <2>3, <2>4
    <3>2. n.reservations[r].state = d.reservations[r].state
      BY <2>2
    <3>3. CASE r \in Pending(d)
      <4>1. PICK i \in 1 .. L : About(d, r) = {i} /\ d.operations[i].state = "Reserved"
        BY <1>1, <1>5, <3>3 DEF Explained, Opened
      <4>2. i \in DOMAIN n.operations /\ n.operations[i].state = "Reserved"
        BY <1>5, <4>1
      <4> QED BY <3>1, <3>3, <4>1, <4>2 DEF Opened
    <3>4. CASE r \notin Pending(d)
      <4>3. Closed(d, r)
        BY <1>1, <3>4 DEF Explained
      <4>1. PICK i \in 1 .. L, j \in 1 .. L :
              /\ i < j /\ About(d, r) = {i, j}
              /\ d.operations[j].state = d.reservations[r].state
        BY <1>5, <4>3 DEF Closed
      <4>2. /\ i \in DOMAIN n.operations /\ j \in DOMAIN n.operations
            /\ n.operations[j].state = n.reservations[r].state
        BY <1>5, <3>2, <4>1
      <4> QED BY <3>1, <3>4, <4>1, <4>2 DEF Closed
    <3> QED BY <3>3, <3>4
  <2>7. \A r \in DOMAIN n.reservations : IF r \in Pending(n) THEN Opened(n, r) ELSE Closed(n, r)
    BY <2>2, <2>3, <2>5, <2>6
  <2>8. \A i \in DOMAIN n.operations :
          /\ verify_mode(n.operations[i].signed) = "Ok"
          /\ n.operations[i].signed.payer \in Accounts
          /\ subject(n.operations[i].signed) \in DOMAIN n.reservations
    BY <1>1, <1>5, <1>6, <2>2 DEF Explained, s
  <2>9. \A i, j \in DOMAIN n.operations :
          n.operations[i].signed.id = n.operations[j].signed.id => i = j
    BY <1>1, <1>5, <1>6 DEF Explained, Logged
  <2>10. \A r \in DOMAIN n.reservations : \E i \in DOMAIN n.operations : n.operations[i].signed.id = r
    BY <1>1, <1>5, <1>6, <2>1, <2>2 DEF Explained
  <2> QED BY <1>5, <2>7, <2>8, <2>9, <2>10 DEF Explained, n
<1>8. CASE c.kind # "Reserve"
  <2>1. /\ s = c.target /\ s \in Pending(d) /\ s \in DOMAIN d.reservations
        /\ e.state \in {"Committed", "Cancelled"}
    BY <1>1, <1>4, <1>8
    DEF subject, outcome_state, transition_refusal, completion_refusal, Pending, IsCommand
  <2>2. /\ DOMAIN n.reservations = DOMAIN d.reservations
        /\ \A r \in DOMAIN d.reservations \ {s} : n.reservations[r] = d.reservations[r]
        /\ n.reservations[s].state = e.state
    BY <1>1, <1>2, <1>8, <2>1 DEF transition, completion_effect, Balanced, Rows
  <2> HIDE DEF n, e, s, L
  <2>3. Pending(n) = Pending(d) \ {s}
    BY <2>1, <2>2 DEF Pending
  <2>4. /\ \A r \in DOMAIN d.reservations \ {s} : About(n, r) = About(d, r)
        /\ About(n, s) = About(d, s) \cup {L + 1}
    BY <1>1, <1>5, <1>6, <2>1 DEF About, s
  <2>5. Closed(n, s)
    <3>1. PICK i \in DOMAIN d.operations : About(d, s) = {i}
      BY <1>1, <2>1 DEF Explained, Opened
    <3>2. /\ About(n, s) = {i, L + 1} /\ i < L + 1
          /\ i \in DOMAIN n.operations /\ L + 1 \in DOMAIN n.operations
      BY <1>5, <2>4, <3>1
    <3> QED BY <1>5, <2>2, <3>2 DEF Closed
  <2>6. ASSUME NEW r \in DOMAIN d.reservations \ {s}
        PROVE  IF r \in Pending(n) THEN Opened(n, r) ELSE Closed(n, r)
    <3>1. About(n, r) = About(d, r) /\ (r \in Pending(n) <=> r \in Pending(d))
      BY <2>1, <2>3, <2>4
    <3>2. n.reservations[r].state = d.reservations[r].state
      BY <2>2
    <3>3. CASE r \in Pending(d)
      <4>1. PICK i \in 1 .. L : About(d, r) = {i} /\ d.operations[i].state = "Reserved"
        BY <1>1, <1>5, <3>3 DEF Explained, Opened
      <4>2. i \in DOMAIN n.operations /\ n.operations[i].state = "Reserved"
        BY <1>5, <4>1
      <4> QED BY <3>1, <3>3, <4>1, <4>2 DEF Opened
    <3>4. CASE r \notin Pending(d)
      <4>3. Closed(d, r)
        BY <1>1, <3>4 DEF Explained
      <4>1. PICK i \in 1 .. L, j \in 1 .. L :
              /\ i < j /\ About(d, r) = {i, j}
              /\ d.operations[j].state = d.reservations[r].state
        BY <1>5, <4>3 DEF Closed
      <4>2. /\ i \in DOMAIN n.operations /\ j \in DOMAIN n.operations
            /\ n.operations[j].state = n.reservations[r].state
        BY <1>5, <3>2, <4>1
      <4> QED BY <3>1, <3>4, <4>1, <4>2 DEF Closed
    <3> QED BY <3>3, <3>4
  <2>7. \A r \in DOMAIN n.reservations : IF r \in Pending(n) THEN Opened(n, r) ELSE Closed(n, r)
    BY <2>2, <2>3, <2>5, <2>6
  <2>8. \A i \in DOMAIN n.operations :
          /\ verify_mode(n.operations[i].signed) = "Ok"
          /\ n.operations[i].signed.payer \in Accounts
          /\ subject(n.operations[i].signed) \in DOMAIN n.reservations
    BY <1>1, <1>5, <1>6, <2>1, <2>2 DEF Explained, s
  <2>9. \A i, j \in DOMAIN n.operations :
          n.operations[i].signed.id = n.operations[j].signed.id => i = j
    BY <1>1, <1>5, <1>6 DEF Explained, Logged
  <2>10. \A r \in DOMAIN n.reservations : \E i \in DOMAIN n.operations : n.operations[i].signed.id = r
    <3> SUFFICES ASSUME NEW r \in DOMAIN d.reservations
                 PROVE  \E i \in DOMAIN n.operations : n.operations[i].signed.id = r
      BY <2>2
    <3>1. PICK i \in 1 .. L : d.operations[i].signed.id = r
      BY <1>1, <1>5 DEF Explained
    <3>2. i \in DOMAIN n.operations /\ n.operations[i].signed.id = r
      BY <1>5, <3>1
    <3> QED BY <3>2
  <2> QED BY <1>5, <2>7, <2>8, <2>9, <2>10 DEF Explained, n
<1> QED BY <1>7, <1>8

\* A command leaves good tables good.
LEMMA ApplyGood ==
  ASSUME NEW d, Good(d), NEW c \in Commands, NEW t
  PROVE  Good(apply_command(d, c, t).db)
<1>1. IsCommand(c)
  BY CommandsTyped
<1>2. CASE apply_command(d, c, t).db = d
  BY <1>2
<1>3. CASE apply_command(d, c, t).db # d
  <2>1. /\ apply_command(d, c, t).db = applied(d, c) /\ Balanced(applied(d, c))
        /\ verify_mode(c) = "Ok" /\ c.payer \in Accounts /\ Logged(d, c.id) = {}
        /\ new_refusal(d, c, t) = "Ok"
    BY <1>1, <1>3, ApplyCases
  <2> QED BY <2>1, AppliedExplained DEF Good
<1> QED BY <1>2, <1>3

-------------------------------------------------------------------------------
(* What good tables promise.                                               *)

\* The tables of a new store are good.
LEMMA GenesisGood == Good(genesis_db)
<1> DEFINE g == genesis_db
<1>1. /\ g.available = Supply /\ g.reserved = [a \in Accounts |-> 0]
      /\ DOMAIN g.reservations = {} /\ g.operations = << >>
      /\ g.reservations = [r \in {} |-> {}]
  BY DEF genesis_db
<1> HIDE DEF g
<1>2. Pending(g) = {} /\ Cardinality(Pending(g)) = 0 /\ IsFiniteSet({})
  BY <1>1, FS_EmptySet DEF Pending
<1>3. g.available \in [Accounts -> Nat] /\ g.reserved \in [Accounts -> Nat]
  <2>1. Supply \in [Accounts -> Nat]
    BY AccountAssumption DEF Accounts
  <2> QED BY <1>1, <2>1
<1>4. Total(g.available, Accounts) + Total(g.reserved, Accounts) = Total(Supply, Accounts)
  <2>1. \A a \in Accounts : g.reserved[a] = 0
    BY <1>1
  <2>2. Total(g.reserved, Accounts) = 0
    BY <2>1, AccountAssumption, TotalZero
  <2>3. Total(Supply, Accounts) \in Int
    BY AccountAssumption, TotalInt
  <2> QED BY <1>1, <2>2, <2>3
<1>5. ASSUME NEW a \in Accounts PROVE g.reserved[a] = OwedUnits(g, a)
  <2>1. Owed(g, a) = {}
    BY <1>2 DEF Owed
  <2>2. OwedUnits(g, a) = 0
    BY <2>1, TotalEmpty DEF OwedUnits
  <2> QED BY <1>1, <2>2
<1>6. Len(g.operations) = 0 /\ g.operations \in Seq(Entries) /\ DOMAIN g.operations = {}
  BY <1>1
<1>7. validate_accounting(g)
  <2>1. Len(g.operations) + Cardinality(Pending(g)) <= MAX_OPERATIONS
    BY <1>2, <1>6, AccountAssumption
  <2> QED BY <1>4, <1>5, <2>1, Accounting
<1>8. Balanced(g)
  BY <1>1, <1>2, <1>3, <1>6, <1>7 DEF Balanced
<1>9. Explained(g)
  BY <1>1, <1>6 DEF Explained
<1> QED BY <1>8, <1>9 DEF Good, g

\* Good tables are within the column checks of the schema.
LEMMA GoodTables ==
  ASSUME NEW d, Good(d)
  PROVE  IsTables(d)
<1>1. Balanced(d) /\ Explained(d)
  BY DEF Good
<1>2. \A a \in Accounts : d.available[a] \in 0 .. MAX_UNITS /\ d.reserved[a] \in 0 .. MAX_UNITS
  <2> SUFFICES ASSUME NEW a \in Accounts
               PROVE  d.available[a] \in 0 .. MAX_UNITS /\ d.reserved[a] \in 0 .. MAX_UNITS
    OBVIOUS
  <2>1. /\ d.available[a] \in Nat /\ d.reserved[a] \in Nat
        /\ d.available[a] + d.reserved[a] <= MAX_UNITS
    BY <1>1, BalancesBounded
  <2> QED BY <2>1, AccountAssumption
<1>3. d.available \in [Accounts -> 0 .. MAX_UNITS] /\ d.reserved \in [Accounts -> 0 .. MAX_UNITS]
  BY <1>1, <1>2 DEF Balanced
<1>4. ToSet(d.operations) \subseteq [signed : Commands, state : ReservationStates]
  <2>1. \A i \in DOMAIN d.operations : d.operations[i] \in Entries
    BY <1>1 DEF Explained
  <2> QED BY <2>1 DEF Entries, ToSet
<1>5. \A r \in DOMAIN d.reservations : d.reservations[r] \in Rows
  BY <1>1 DEF Balanced
<1> QED BY <1>3, <1>4, <1>5 DEF IsTables, Rows, ReservationStates

\* A logged command gets the receipt it got, and changes nothing.
LEMMA GoodRetry ==
  ASSUME NEW d, Good(d), NEW i \in DOMAIN d.operations, NEW t
  PROVE  apply_command(d, d.operations[i].signed, t)
           = [code |-> "Ok", receipt |-> receipt(d, i), db |-> d]
<1> DEFINE c == d.operations[i].signed
<1>1. /\ verify_mode(c) = "Ok" /\ c.payer \in Accounts
      /\ \A j \in DOMAIN d.operations : d.operations[j].signed.id = c.id => j = i
  BY DEF Good, Explained
<1>2. Logged(d, c.id) = {i}
  BY <1>1 DEF Logged
<1>3. (CHOOSE j \in Logged(d, c.id) : TRUE) = i
  BY <1>2
<1>4. apply_known(d, c) = [code |-> "Ok", receipt |-> receipt(d, i), db |-> d]
  BY <1>3 DEF apply_known
<1> QED BY <1>1, <1>2, <1>4 DEF apply_command

\* A pending reservation can be completed.
LEMMA GoodCompletion ==
  ASSUME NEW d, Good(d), NEW r \in Pending(d), NEW k \in {"Commit", "Cancel"}, NEW c,
         c = [id |-> "fresh", payer |-> d.reservations[r].payer, nonce |-> "fresh",
              kind |-> k, target |-> r, units |-> 0, valid_from |-> 0, expires |-> 1,
              seal |-> "Ok"]
  PROVE  apply_command(d, c, 0).code = "Ok"
<1>1. Balanced(d) /\ Explained(d) /\ IsCommand(c) /\ verify_mode(c) = "Ok"
  BY DEF Good, IsCommand, verify_mode
<1>2. /\ r \in DOMAIN d.reservations /\ d.reservations[r] \in Rows
      /\ d.reservations[r].state = "Reserved"
  BY <1>1 DEF Balanced, Pending
<1>3. /\ c.payer \in Accounts /\ c.payer = d.reservations[r].payer /\ c.target = r
      /\ c.kind # "Reserve" /\ d.reservations[r].units \in Nat
  BY <1>2 DEF Rows
<1>4. \A i \in DOMAIN d.operations : d.operations[i].signed.id # "fresh"
                                    /\ d.operations[i].signed.nonce # "fresh"
  <2>1. \A i \in DOMAIN d.operations : d.operations[i] \in Entries
    BY <1>1 DEF Explained
  <2>2. \A i \in DOMAIN d.operations : d.operations[i].signed \in Commands
    BY <2>1 DEF Entries
  <2> QED BY <2>2, FreshAssumption
<1>5. Logged(d, c.id) = {} /\ ~nonce_used(d, c)
  BY <1>4 DEF Logged, nonce_used
<1>6. ~over_budget(d, c)
  <2>1. /\ Cardinality(Pending(d)) \in Nat /\ Cardinality(Pending(d)) # 0
        /\ Len(d.operations) \in Nat /\ MAX_OPERATIONS \in Nat
    BY <1>1, OwedFacts, FS_EmptySet, AccountAssumption DEF Balanced
  <2>2. Len(d.operations) + Cardinality(Pending(d)) <= MAX_OPERATIONS
    BY <1>1, Accounting DEF Balanced
  <2>3. ~(Len(d.operations) >= MAX_OPERATIONS)
    BY <2>1, <2>2
  <2> QED BY <1>3, <2>3 DEF over_budget
<1>7. completion_refusal(d, c) = "Ok"
  <2> DEFINE u == d.reservations[r].units
             x == beneficiary(d, c)
  <2>1. x \in Accounts
    BY <1>2, <1>3 DEF beneficiary, Rows
  <2>2. r \in Owed(d, c.payer)
    BY <1>3 DEF Owed
  <2>3. u <= d.reserved[c.payer] /\ d.reserved[c.payer] \in Nat /\ u \in Nat
    BY <1>1, <1>3, <2>2, OwedFacts DEF Balanced
  <2>4. d.available[x] \in Nat /\ d.available[x] + d.reserved[c.payer] <= MAX_UNITS
    BY <1>1, <1>3, <2>1, BalancesBounded
  <2> HIDE DEF u, x
  <2>5. ~(d.reserved[c.payer] < u) /\ ~(d.available[x] + u > MAX_UNITS)
    BY <2>3, <2>4, AccountAssumption
  <2> QED BY <1>2, <1>3, <2>5 DEF completion_refusal, u, x
<1>8. new_refusal(d, c, 0) = "Ok"
  <2>1. ~(0 < c.valid_from \/ 0 >= c.expires)
    OBVIOUS
  <2> QED BY <1>3, <1>5, <1>6, <1>7, <2>1 DEF new_refusal, transition_refusal
<1>9. validate_accounting(applied(d, c))
  BY <1>1, <1>3, <1>8, AdmittedBalanced DEF Balanced
<1>10. apply_new(d, c, 0).code = "Ok"
  BY <1>8, <1>9, ApplyNew
<1> QED BY <1>1, <1>3, <1>5, <1>10 DEF apply_command

\* A reservation is in the log once, or twice when it is completed.
LEMMA GoodOnce ==
  ASSUME NEW d, Good(d), NEW r \in DOMAIN d.reservations
  PROVE  /\ Cardinality(About(d, r)) = IF r \in Pending(d) THEN 1 ELSE 2
         /\ d.operations[Max(About(d, r))].state = d.reservations[r].state
<1>1. Explained(d) /\ d.operations \in Seq(Entries)
  BY DEF Good, Explained
<1>2. CASE r \in Pending(d)
  <2>1. Opened(d, r)
    BY <1>1, <1>2 DEF Explained
  <2>2. PICK i \in DOMAIN d.operations : About(d, r) = {i} /\ d.operations[i].state = "Reserved"
    BY <2>1 DEF Opened
  <2>3. i \in Nat
    BY <1>1
  <2>4. Cardinality({i}) = 1
    BY FS_Singleton
  <2>5. Max({i}) = i
    BY <2>3 DEF Max
  <2> QED BY <1>2, <2>2, <2>4, <2>5 DEF Pending
<1>3. CASE r \notin Pending(d)
  <2>1. Closed(d, r)
    BY <1>1, <1>3 DEF Explained
  <2>2. PICK i, j \in DOMAIN d.operations :
          i < j /\ About(d, r) = {i, j} /\ d.operations[j].state = d.reservations[r].state
    BY <2>1 DEF Closed
  <2>3. i \in Nat /\ j \in Nat /\ i # j
    BY <1>1, <2>2
  <2>4. Cardinality({i, j}) = 2
    <3>1. IsFiniteSet({i}) /\ Cardinality({i}) = 1 /\ j \notin {i} /\ {i, j} = {i} \cup {j}
      BY <2>3, FS_Singleton
    <3>2. Cardinality({i} \cup {j}) = 1 + 1
      BY <3>1, FS_AddElement
    <3> QED BY <3>1, <3>2
  <2>5. Max({i, j}) = j
    BY <2>2, <2>3 DEF Max
  <2> QED BY <1>3, <2>2, <2>4, <2>5
<1> QED BY <1>2, <1>3

-------------------------------------------------------------------------------
(* Executions of a block are determined by the tables they start from.     *)

\* One command more.
Step(x, c, t) ==
  [db       |-> apply_command(x.db, c, t).db,
   outcomes |-> Append(x.outcomes, [code    |-> apply_command(x.db, c, t).code,
                                    receipt |-> apply_command(x.db, c, t).receipt])]

\* x[n] is what the first n commands of b give on the tables d.
IsExecution(x, d, b, m) ==
  x = [n \in 0 .. m |-> IF n = 0 THEN [db |-> d, outcomes |-> << >>]
                        ELSE Step(x[n - 1], b.commands[n], b.time)]

Execution(d, b) == CHOOSE x : IsExecution(x, d, b, Len(b.commands))

\* The recursive definition of an execution has a solution.
LEMMA ExecutionExists ==
  ASSUME NEW d, NEW b, Len(b.commands) \in Nat
  PROVE  IsExecution(Execution(d, b), d, b, Len(b.commands))
<1> DEFINE T == {m \in Nat : \E x : IsExecution(x, d, b, m)}
<1>1. 0 \in T
  <2> DEFINE x == [n \in 0 .. 0 |-> [db |-> d, outcomes |-> << >>]]
  <2>1. IsExecution(x, d, b, 0)
    BY DEF IsExecution
  <2> QED BY <2>1
<1>2. ASSUME NEW m \in T PROVE m + 1 \in T
  <2>1. PICK x : IsExecution(x, d, b, m)
    OBVIOUS
  <2> DEFINE y == [n \in 0 .. (m + 1) |-> IF n = 0 THEN [db |-> d, outcomes |-> << >>]
                                          ELSE Step(x[n - 1], b.commands[n], b.time)]
  <2>2. ASSUME NEW n \in 0 .. (m + 1), n # 0 PROVE y[n - 1] = x[n - 1]
    <3>1. n - 1 \in 0 .. m /\ n - 1 \in 0 .. (m + 1)
      BY <2>2
    <3>2. x[n - 1] = IF n - 1 = 0 THEN [db |-> d, outcomes |-> << >>]
                     ELSE Step(x[(n - 1) - 1], b.commands[n - 1], b.time)
      BY <2>1, <3>1 DEF IsExecution
    <3> QED BY <3>1, <3>2
  <2>3. y = [n \in 0 .. (m + 1) |-> IF n = 0 THEN [db |-> d, outcomes |-> << >>]
                                    ELSE Step(y[n - 1], b.commands[n], b.time)]
    BY <2>2
  <2>4. IsExecution(y, d, b, m + 1)
    BY <2>3 DEF IsExecution
  <2> HIDE DEF y
  <2> QED BY <2>4
<1>3. T = Nat
  <2> HIDE DEF T
  <2>1. T \subseteq Nat
    BY DEF T
  <2> QED BY <1>1, <1>2, <2>1, SetInduction
<1>4. \E x : IsExecution(x, d, b, Len(b.commands))
  BY <1>3
<1> QED BY <1>4 DEF Execution

\* An execution starts with its tables and goes on command by command.
LEMMA ExecutionSteps ==
  ASSUME NEW d, NEW b, Len(b.commands) \in Nat
  PROVE  /\ Execution(d, b)[0] = [db |-> d, outcomes |-> << >>]
         /\ \A n \in 0 .. Len(b.commands) :
              n < Len(b.commands) =>
                Execution(d, b)[n + 1] = Step(Execution(d, b)[n], b.commands[n + 1], b.time)
<1> DEFINE x == Execution(d, b)
           m == Len(b.commands)
<1>1. x = [n \in 0 .. m |-> IF n = 0 THEN [db |-> d, outcomes |-> << >>]
                            ELSE Step(x[n - 1], b.commands[n], b.time)]
  BY ExecutionExists DEF IsExecution
<1> HIDE DEF x
<1>2. x[0] = [db |-> d, outcomes |-> << >>]
  BY <1>1
<1>3. ASSUME NEW n \in 0 .. m, n < m PROVE x[n + 1] = Step(x[n], b.commands[n + 1], b.time)
  <2>1. n + 1 \in 0 .. m /\ n + 1 # 0 /\ (n + 1) - 1 = n
    BY <1>3
  <2> QED BY <1>1, <2>1
<1> QED BY <1>2, <1>3 DEF x

\* The reference ApplyBlock gives the tables of the execution.
LEMMA ExecutionApplies ==
  ASSUME NEW d, NEW b, Len(b.commands) \in Nat
  PROVE  ApplyBlock(d, b) = Execution(d, b)[Len(b.commands)].db
<1> DEFINE m == Len(b.commands)
           IsRun(f) == f = [n \in 0 .. m |-> IF n = 0 THEN d
                              ELSE apply_command(f[n - 1], b.commands[n], b.time).db]
           e == Execution(d, b)
           h == [n \in 0 .. m |-> e[n].db]
           g == CHOOSE f : IsRun(f)
<1>1. /\ e[0].db = d
      /\ \A n \in 0 .. m : n # 0 => e[n].db = apply_command(e[n - 1].db, b.commands[n], b.time).db
  <2>3. e[0] = [db |-> d, outcomes |-> << >>]
    BY ExecutionSteps
  <2>1. e[0].db = d
    BY <2>3
  <2>2. ASSUME NEW n \in 0 .. m, n # 0
        PROVE  e[n].db = apply_command(e[n - 1].db, b.commands[n], b.time).db
    <3>1. n - 1 \in 0 .. m /\ n - 1 < m /\ (n - 1) + 1 = n
      BY <2>2
    <3>2. e[n] = Step(e[n - 1], b.commands[n], b.time)
      BY <3>1, ExecutionSteps
    <3> QED BY <3>2 DEF Step
  <2> QED BY <2>1, <2>2
<1> HIDE DEF e
<1>2. IsRun(h)
  BY <1>1
<1>3. IsRun(g)
  <2> HIDE DEF IsRun, h
  <2> QED BY <1>2
<1>4. ApplyBlock(d, b) = g[m]
  BY DEF ApplyBlock
<1> HIDE DEF g, h
<1> DEFINE T == {n \in Nat : n \in 0 .. m => g[n] = e[n].db}
<1>5. 0 \in T
  BY <1>1, <1>3
<1>6. ASSUME NEW n \in T PROVE n + 1 \in T
  <2> SUFFICES ASSUME n + 1 \in 0 .. m PROVE g[n + 1] = e[n + 1].db
    OBVIOUS
  <2>1. n \in 0 .. m /\ n + 1 # 0 /\ (n + 1) - 1 = n
    OBVIOUS
  <2>2. g[n + 1] = apply_command(g[n], b.commands[n + 1], b.time).db
    BY <1>3, <2>1
  <2>3. e[n + 1].db = apply_command(e[n].db, b.commands[n + 1], b.time).db
    BY <1>1, <2>1
  <2>4. g[n] = e[n].db
    BY <2>1
  <2> QED BY <2>2, <2>3, <2>4
<1>7. T = Nat
  <2> HIDE DEF T
  <2>1. T \subseteq Nat
    BY DEF T
  <2> QED BY <1>5, <1>6, <2>1, SetInduction
<1>8. g[m] = e[m].db
  BY <1>7
<1> QED BY <1>4, <1>8 DEF e

-------------------------------------------------------------------------------
(* The store: what every handle stages and executes.                       *)

IsASequence(s) == \E S : s \in Seq(S)

\* A block that may follow the checkpoint it was staged on.
Follows(base, b) ==
  /\ b \in Blocks
  /\ validate_block(b)
  /\ b.height = base.block.height + 1
  /\ base.block.time <= b.time

\* A staged block carries what executing it on its base gives.
StagedInv(s) ==
  /\ Follows(s.base, s.record.block)
  /\ Execution(s.base.app_hash, s.record.block)[Len(s.record.block.commands)]
       = [db |-> s.record.app_hash, outcomes |-> s.record.outcomes]
  /\ Good(s.record.app_hash)

\* A call in progress has executed a prefix of its block on its base.
WorkInv(w) ==
  /\ w.kind \in {"stage", "commit"}
  /\ Follows(w.base, w.block)
  /\ IsASequence(w.outcomes)
  /\ Len(w.outcomes) \in 0 .. Len(w.block.commands)
  /\ Execution(w.base.app_hash, w.block)[Len(w.outcomes)] = [db |-> w.db, outcomes |-> w.outcomes]
  /\ Good(w.db)

\* The holder of the write lock executes the block it staged, on the present
\* checkpoint.
CommitInv(h) ==
  /\ staged[h] # None
  /\ staged[h].record.block = work[h].block
  /\ staged[h].base = work[h].base
  /\ work[h].base = record

Committing(h) == work[h] # None /\ work[h].kind = "commit"

StoreInv ==
  /\ load_ok
  /\ Good(db)
  /\ record.block \in Blocks \cup {GenesisBlock}
  /\ DOMAIN staged = Handles /\ DOMAIN work = Handles
  /\ \A h \in Handles : staged[h] # None => StagedInv(staged[h])
  /\ \A h \in Handles : work[h] # None => WorkInv(work[h])
  /\ \A h \in Handles : Committing(h) => CommitInv(h)
  /\ \A g, h \in Handles : Committing(g) /\ Committing(h) => g = h

\* Appending to a sequence of anything.
LEMMA AppendIsASequence ==
  ASSUME NEW s, NEW e, IsASequence(s)
  PROVE  IsASequence(Append(s, e)) /\ Len(Append(s, e)) = Len(s) + 1
<1>1. PICK S : s \in Seq(S)
  BY DEF IsASequence
<1>2. s \in Seq(S \cup {e})
  BY <1>1
<1>3. Append(s, e) \in Seq(S \cup {e}) /\ Len(Append(s, e)) = Len(s) + 1
  BY <1>2
<1> QED BY <1>3 DEF IsASequence

\* The commands of a block are commands.
LEMMA CommandsOfBlock ==
  ASSUME NEW b \in Blocks
  PROVE  /\ Len(b.commands) \in Nat /\ DOMAIN b.commands = 1 .. Len(b.commands)
         /\ \A n \in 1 .. Len(b.commands) : b.commands[n] \in Commands
<1>1. b.commands \in Seq({b.commands[i] : i \in DOMAIN b.commands})
  BY BlocksAssumption DEF IsBlock
<1>2. Len(b.commands) \in Nat /\ DOMAIN b.commands = 1 .. Len(b.commands)
  BY <1>1
<1> QED BY <1>2 DEF Commands, ToSet

\* A call begins.
LEMMA BeginInv ==
  ASSUME StoreInv, NEW k \in {"stage", "commit"}, NEW b, Follows(record, b)
  PROVE  WorkInv(begin(k, b))
<1> DEFINE w == begin(k, b)
<1>1. /\ w.kind = k /\ w.block = b /\ w.base = record /\ w.db = db /\ w.outcomes = << >>
  BY DEF begin
<1> HIDE DEF w
<1>2. Len(b.commands) \in Nat
  BY CommandsOfBlock DEF Follows
<1>3. w.base.app_hash = db
  BY <1>1 DEF StoreInv, load_ok
<1>4. Execution(db, b)[0] = [db |-> db, outcomes |-> << >>]
  BY <1>2, ExecutionSteps
<1>5. Len(w.outcomes) = 0 /\ IsASequence(w.outcomes)
  <2>1. << >> \in Seq({})
    OBVIOUS
  <2> QED BY <1>1, <2>1 DEF IsASequence
<1>6. Execution(w.base.app_hash, w.block)[Len(w.outcomes)] = [db |-> w.db, outcomes |-> w.outcomes]
  BY <1>1, <1>3, <1>4, <1>5
<1>7. Len(w.outcomes) \in 0 .. Len(w.block.commands)
  BY <1>1, <1>2, <1>5
<1> QED BY <1>1, <1>5, <1>6, <1>7 DEF WorkInv, StoreInv, w

\* A call executes one command more.
LEMMA ExecuteInv ==
  ASSUME NEW w, WorkInv(w), ~executed(w), NEW v,
         v = [kind     |-> w.kind,
              block    |-> w.block,
              base     |-> w.base,
              db       |-> next_result(w).db,
              outcomes |-> Append(w.outcomes, [code    |-> next_result(w).code,
                                               receipt |-> next_result(w).receipt])]
  PROVE  WorkInv(v) /\ v.kind = w.kind /\ v.block = w.block /\ v.base = w.base
<1> DEFINE n == Len(w.outcomes)
           m == Len(w.block.commands)
           c == w.block.commands[n + 1]
           t == w.block.time
           r == apply_command(w.db, c, t)
           e == [code |-> r.code, receipt |-> r.receipt]
<1>1. next_result(w) = r
  BY DEF next_result
<1>2. w.block \in Blocks /\ m \in Nat /\ n \in 0 .. m /\ n # m
  BY CommandsOfBlock DEF WorkInv, Follows, executed
<1>3. n < m /\ n + 1 \in 1 .. m /\ n + 1 \in 0 .. m
  BY <1>2
<1>4. c \in Commands
  BY <1>2, <1>3, CommandsOfBlock
<1>5. /\ v.kind = w.kind /\ v.block = w.block /\ v.base = w.base /\ v.db = r.db
      /\ v.outcomes = Append(w.outcomes, e)
  BY <1>1
<1>6. Good(v.db)
  BY <1>4, <1>5, ApplyGood DEF WorkInv
<1>7. IsASequence(v.outcomes) /\ Len(v.outcomes) = n + 1
  <2> HIDE DEF e
  <2> QED BY <1>5, AppendIsASequence DEF WorkInv
<1>8. Execution(v.base.app_hash, v.block)[Len(v.outcomes)] = [db |-> v.db, outcomes |-> v.outcomes]
  <2> DEFINE x == Execution(w.base.app_hash, w.block)
  <2>1. x[n + 1] = Step(x[n], c, t)
    BY <1>2, <1>3, ExecutionSteps
  <2>2. x[n] = [db |-> w.db, outcomes |-> w.outcomes]
    BY DEF WorkInv
  <2>3. x[n].db = w.db /\ x[n].outcomes = w.outcomes
    BY <2>2
  <2> HIDE DEF x, n, c, t
  <2>4. Step(x[n], c, t) = [db |-> r.db, outcomes |-> Append(w.outcomes, e)]
    BY <2>3 DEF Step
  <2> QED BY <1>5, <1>7, <2>1, <2>4 DEF x
<1> HIDE DEF e
<1>9. Len(v.outcomes) \in 0 .. Len(v.block.commands)
  BY <1>3, <1>5, <1>7
<1> QED BY <1>5, <1>6, <1>7, <1>8, <1>9 DEF WorkInv

\* A call that has executed its block holds what staging it gave.
LEMMA ExecutedAgrees ==
  ASSUME NEW w, WorkInv(w), executed(w), NEW s, StagedInv(s),
         s.record.block = w.block, s.base = w.base
  PROVE  w.outcomes = s.record.outcomes /\ w.db = s.record.app_hash
<1>1. [db |-> w.db, outcomes |-> w.outcomes]
        = [db |-> s.record.app_hash, outcomes |-> s.record.outcomes]
  BY DEF WorkInv, StagedInv, executed
<1> QED BY <1>1

\* A step of one handle that writes nothing durable.
LEMMA HandleOnly ==
  ASSUME StoreInv, NEW h \in Handles, UNCHANGED <<db, record>>,
         DOMAIN staged' = Handles, DOMAIN work' = Handles,
         \A g \in Handles \ {h} : staged'[g] = staged[g] /\ work'[g] = work[g],
         staged'[h] # None => StagedInv(staged'[h]),
         work'[h] # None => WorkInv(work'[h]),
         Committing(h)' => CommitInv(h)' /\ \A g \in Handles \ {h} : ~Committing(g)
  PROVE  StoreInv'
<1>1. load_ok' /\ Good(db') /\ record'.block \in Blocks \cup {GenesisBlock}
  BY DEF StoreInv, load_ok
<1>2. /\ \A g \in Handles : staged'[g] # None => StagedInv(staged'[g])
      /\ \A g \in Handles : work'[g] # None => WorkInv(work'[g])
  BY DEF StoreInv
<1>3. \A g \in Handles \ {h} : Committing(g)' => Committing(g) /\ CommitInv(g)'
  BY DEF StoreInv, Committing, CommitInv
<1>4. \A g \in Handles : Committing(g)' => CommitInv(g)'
  BY <1>3
<1>5. \A g, k \in Handles : Committing(g)' /\ Committing(k)' => g = k
  <2>1. \A g, k \in Handles : Committing(g) /\ Committing(k) => g = k
    BY DEF StoreInv
  <2> QED BY <1>3, <2>1
<1> QED BY <1>1, <1>2, <1>4, <1>5 DEF StoreInv

\* Every step of a handle keeps the invariant.
LEMMA StoreStep ==
  ASSUME StoreInv, NEW h \in Handles, HandleStep(h)
  PROVE  StoreInv'
<1> USE DEF None
<1>1. ASSUME NEW b \in Blocks, stage(h, b) PROVE StoreInv'
  <2>1. /\ UNCHANGED <<db, record, staged>> /\ work' = [work EXCEPT ![h] = begin("stage", b)]
        /\ stage_admits(h, b) /\ staged[h] = None
    BY <1>1 DEF stage, stage_admits
  <2>2. Follows(record, b)
    BY <2>1 DEF stage_admits, Follows
  <2>3. WorkInv(begin("stage", b))
    BY <2>2, BeginInv
  <2>4. /\ DOMAIN staged' = Handles /\ DOMAIN work' = Handles /\ work'[h] = begin("stage", b)
        /\ \A g \in Handles \ {h} : staged'[g] = staged[g] /\ work'[g] = work[g]
        /\ staged'[h] = None
    BY <2>1 DEF StoreInv
  <2>5. ~Committing(h)'
    BY <2>4 DEF Committing, begin
  <2> QED BY <2>1, <2>3, <2>4, <2>5, HandleOnly
<1>2. CASE execute(h)
  <2> DEFINE w == work[h]
             v == [kind     |-> w.kind,
                   block    |-> w.block,
                   base     |-> w.base,
                   db       |-> next_result(w).db,
                   outcomes |-> Append(w.outcomes, [code    |-> next_result(w).code,
                                                    receipt |-> next_result(w).receipt])]
  <2>1. /\ UNCHANGED <<db, record, staged>> /\ work' = [work EXCEPT ![h] = v]
        /\ w # None /\ ~executed(w)
    BY <1>2 DEF execute
  <2>2. WorkInv(w)
    BY <2>1 DEF StoreInv
  <2>3. WorkInv(v) /\ v.kind = w.kind /\ v.block = w.block /\ v.base = w.base
    BY <2>1, <2>2, ExecuteInv
  <2> HIDE DEF v
  <2>4. /\ DOMAIN staged' = Handles /\ DOMAIN work' = Handles /\ work'[h] = v
        /\ \A g \in Handles \ {h} : staged'[g] = staged[g] /\ work'[g] = work[g]
        /\ staged'[h] = staged[h] /\ (staged[h] # None => StagedInv(staged[h]))
    BY <2>1 DEF StoreInv
  <2>5. Committing(h)' => CommitInv(h)' /\ \A g \in Handles \ {h} : ~Committing(g)
    <3> SUFFICES ASSUME Committing(h)'
                 PROVE  CommitInv(h)' /\ \A g \in Handles \ {h} : ~Committing(g)
      OBVIOUS
    <3>1. Committing(h)
      BY <2>1, <2>3, <2>4 DEF Committing
    <3>2. CommitInv(h) /\ \A g \in Handles \ {h} : ~Committing(g)
      BY <3>1 DEF StoreInv
    <3> QED BY <2>1, <2>3, <2>4, <3>2 DEF CommitInv
  <2> QED BY <2>1, <2>3, <2>4, <2>5, HandleOnly
<1>3. CASE stage_done(h)
  <2> DEFINE w == work[h]
             s == [base   |-> w.base,
                   record |-> [block    |-> w.block,
                               outcomes |-> w.outcomes,
                               app_hash |-> w.db]]
  <2>1. /\ UNCHANGED <<db, record>> /\ work' = [work EXCEPT ![h] = None]
        /\ staged' = [staged EXCEPT ![h] = s] /\ w # None /\ executed(w)
    BY <1>3 DEF stage_done
  <2>2. WorkInv(w)
    BY <2>1 DEF StoreInv
  <2>3. StagedInv(s)
    <3>1. /\ s.base = w.base /\ s.record.block = w.block /\ s.record.outcomes = w.outcomes
          /\ s.record.app_hash = w.db
      OBVIOUS
    <3> HIDE DEF s, w
    <3> QED BY <2>1, <2>2, <3>1 DEF StagedInv, WorkInv, executed
  <2> HIDE DEF s
  <2>4. /\ DOMAIN staged' = Handles /\ DOMAIN work' = Handles /\ work'[h] = None
        /\ \A g \in Handles \ {h} : staged'[g] = staged[g] /\ work'[g] = work[g]
        /\ staged'[h] = s
    BY <2>1 DEF StoreInv
  <2>5. ~Committing(h)'
    BY <2>4 DEF Committing
  <2> QED BY <2>1, <2>3, <2>4, <2>5, HandleOnly
<1>4. CASE discard_staged(h) \/ abort(h) \/ reopen(h) \/ \E b \in Blocks : commit_known(h, b.id)
  <2>1. /\ UNCHANGED <<db, record>> /\ DOMAIN staged' = Handles /\ DOMAIN work' = Handles
        /\ \A g \in Handles \ {h} : staged'[g] = staged[g] /\ work'[g] = work[g]
        /\ work'[h] = None
        /\ staged'[h] # None => staged'[h] = staged[h]
    BY <1>4 DEF discard_staged, abort, reopen, commit_known, StoreInv
  <2>2. ~Committing(h)' /\ (staged'[h] # None => StagedInv(staged'[h]))
    BY <2>1 DEF Committing, StoreInv
  <2> QED BY <2>1, <2>2, HandleOnly
<1>5. ASSUME NEW b \in Blocks, commit(h, b.id) PROVE StoreInv'
  <2> DEFINE s == staged[h]
             w == begin("commit", s.record.block)
  <2>1. /\ UNCHANGED <<db, record, staged>> /\ work' = [work EXCEPT ![h] = w]
        /\ s # None /\ s.base = record /\ ~locked
    BY <1>5 DEF commit
  <2>2. StagedInv(s) /\ Follows(record, s.record.block)
    BY <2>1 DEF StoreInv, StagedInv
  <2>3. WorkInv(w)
    BY <2>2, BeginInv
  <2>4. w.block = s.record.block /\ w.base = record
    BY DEF begin
  <2> HIDE DEF w
  <2>5. /\ DOMAIN staged' = Handles /\ DOMAIN work' = Handles /\ work'[h] = w
        /\ \A g \in Handles \ {h} : staged'[g] = staged[g] /\ work'[g] = work[g]
        /\ staged'[h] = s
    BY <2>1 DEF StoreInv
  <2>6. CommitInv(h)' /\ \A g \in Handles \ {h} : ~Committing(g)
    BY <2>1, <2>4, <2>5 DEF CommitInv, locked, Committing
  <2> QED BY <2>1, <2>2, <2>3, <2>5, <2>6, HandleOnly
<1>6. CASE commit_done(h)
  <2> DEFINE s == staged[h]
  <2>1. /\ Committing(h) /\ executed(work[h]) /\ agrees(h)
        /\ db' = work[h].db /\ record' = s.record
        /\ staged' = [staged EXCEPT ![h] = None] /\ work' = [work EXCEPT ![h] = None]
    BY <1>6 DEF commit_done, Committing
  <2>2. /\ WorkInv(work[h]) /\ CommitInv(h) /\ StagedInv(s)
        /\ \A g \in Handles \ {h} : ~Committing(g)
    BY <2>1 DEF StoreInv, Committing, CommitInv
  <2>3. load_ok' /\ Good(db') /\ record'.block \in Blocks \cup {GenesisBlock}
    BY <2>1, <2>2 DEF load_ok, agrees, WorkInv, StagedInv, Follows
  <2>4. /\ DOMAIN staged' = Handles /\ DOMAIN work' = Handles
        /\ work'[h] = None /\ staged'[h] = None
        /\ \A g \in Handles \ {h} : staged'[g] = staged[g] /\ work'[g] = work[g]
    BY <2>1 DEF StoreInv
  <2>5. /\ \A g \in Handles : staged'[g] # None => StagedInv(staged'[g])
        /\ \A g \in Handles : work'[g] # None => WorkInv(work'[g])
    BY <2>4 DEF StoreInv
  <2>6. \A g \in Handles : ~Committing(g)'
    BY <2>2, <2>4 DEF Committing
  <2> QED BY <2>3, <2>4, <2>5, <2>6 DEF StoreInv
<1> QED BY <1>1, <1>2, <1>3, <1>4, <1>5, <1>6 DEF HandleStep

\* The invariant holds initially.
LEMMA StoreInitial == Init => StoreInv
<1> SUFFICES ASSUME Init PROVE StoreInv
  OBVIOUS
<1>1. /\ db = genesis_db /\ record = create_record
      /\ DOMAIN staged = Handles /\ DOMAIN work = Handles
      /\ \A h \in Handles : staged[h] = None /\ work[h] = None
  BY DEF Init
<1>2. record.block = GenesisBlock /\ record.app_hash = db
  BY <1>1 DEF create_record
<1> QED BY <1>1, <1>2, GenesisGood DEF StoreInv, load_ok, Committing

\* Every step keeps the invariant.
LEMMA StoreInductive == StoreInv /\ [Next]_storeVars => StoreInv'
<1> SUFFICES ASSUME StoreInv, [Next]_storeVars PROVE StoreInv'
  OBVIOUS
<1>1. CASE Next
  BY <1>1, StoreStep DEF Next
<1>2. CASE UNCHANGED storeVars
  BY <1>2 DEF storeVars, StoreInv, load_ok, Committing, CommitInv
<1> QED BY <1>1, <1>2

\* The invariant holds in every reachable state.
LEMMA StoreInvHolds == Spec => []StoreInv
BY StoreInitial, StoreInductive, PTL DEF Spec

-------------------------------------------------------------------------------
(* Theorems about the ordered store.                                       *)

\* The file and every working copy are good.
LEMMA EveryTableGood == StoreInv => \A d \in Tables : Good(d)
BY DEF StoreInv, Tables, WorkInv

\* Block times are numbers.
LEMMA TimesTyped == \A t \in Times : t \in Nat
BY BlocksAssumption DEF Times, IsBlock

(***************************************************************************)
(* Balances stay within the schema's column checks, in the file and in     *)
(* every working copy, and only proposed blocks are staged or executed.    *)
(***************************************************************************)
THEOREM StoreTypeCorrect == Spec => []TypeOK
<1>1. StoreInv => TypeOK
  <2> SUFFICES ASSUME StoreInv PROVE TypeOK
    OBVIOUS
  <2>1. \A d \in Tables : IsTables(d)
    BY EveryTableGood, GoodTables
  <2>2. \A h \in Handles : staged[h] # None => staged[h].record.block \in Blocks
    BY DEF StoreInv, StagedInv, Follows
  <2>3. \A h \in Handles : work[h] # None =>
          work[h].block \in Blocks /\ work[h].kind \in {"stage", "commit"}
    BY DEF StoreInv, WorkInv, Follows
  <2> QED BY <2>1, <2>2, <2>3 DEF TypeOK, StoreInv
<1> QED BY <1>1, StoreInvHolds, PTL

(***************************************************************************)
(* No command, at any time, on any tables the store can hold, makes the    *)
(* accounting check after its transition fail.                             *)
(***************************************************************************)
THEOREM StoreNoFatalVerdict == Spec => []NoFatalVerdict
<1>1. StoreInv => NoFatalVerdict
  <2> SUFFICES ASSUME StoreInv, NEW d \in Tables, NEW c \in Commands, NEW t \in Times
               PROVE  apply_command(d, c, t).code # "Store"
    BY DEF NoFatalVerdict
  <2>1. Good(d) /\ IsCommand(c)
    BY EveryTableGood, CommandsTyped
  <2> QED BY <2>1, ApplyCases
<1> QED BY <1>1, StoreInvHolds, PTL

(***************************************************************************)
(* The execution under the write lock gives what was staged and announced. *)
(***************************************************************************)
THEOREM StoreAnnouncedIsCommitted == Spec => []AnnouncedIsCommitted
<1>1. StoreInv => AnnouncedIsCommitted
  <2> SUFFICES ASSUME StoreInv, NEW h \in Handles, Committing(h), executed(work[h])
               PROVE  agrees(h)
    BY DEF AnnouncedIsCommitted, Committing
  <2>1. WorkInv(work[h]) /\ CommitInv(h) /\ StagedInv(staged[h])
    BY DEF StoreInv, Committing, CommitInv
  <2> QED BY <2>1, ExecutedAgrees DEF CommitInv, agrees
<1> QED BY <1>1, StoreInvHolds, PTL

(***************************************************************************)
(* Whatever a process left behind can be opened again.                     *)
(***************************************************************************)
THEOREM StoreAlwaysReopens == Spec => []AlwaysReopens
<1>1. StoreInv => AlwaysReopens
  BY DEF StoreInv, AlwaysReopens, Good, Balanced
<1> QED BY <1>1, StoreInvHolds, PTL

(***************************************************************************)
(* Every admitted reservation can still be completed, however full the log *)
(* and the accounts are.                                                   *)
(***************************************************************************)
THEOREM StoreCompletionAlwaysAdmitted == Spec => []CompletionAlwaysAdmitted
<1>1. StoreInv => CompletionAlwaysAdmitted
  <2> SUFFICES ASSUME StoreInv, NEW d \in Tables, NEW r \in Pending(d),
                      NEW k \in {"Commit", "Cancel"}
               PROVE  apply_command(d,
                        [id |-> "fresh", payer |-> d.reservations[r].payer, nonce |-> "fresh",
                         kind |-> k, target |-> r, units |-> 0, valid_from |-> 0,
                         expires |-> 1, seal |-> "Ok"], 0).code = "Ok"
    BY DEF CompletionAlwaysAdmitted
  <2>1. Good(d)
    BY EveryTableGood
  <2> QED BY <2>1, GoodCompletion
<1> QED BY <1>1, StoreInvHolds, PTL

(***************************************************************************)
(* An accepted command sent again gets its receipt and changes nothing.    *)
(***************************************************************************)
THEOREM StoreRetryIsHarmless == Spec => []RetryIsHarmless
<1>1. StoreInv => RetryIsHarmless
  BY EveryTableGood, GoodRetry DEF RetryIsHarmless
<1> QED BY <1>1, StoreInvHolds, PTL

(***************************************************************************)
(* Reserved units are paid out at most once, as the log says.              *)
(***************************************************************************)
THEOREM StoreCompletedOnce == Spec => []CompletedOnce
<1>1. StoreInv => CompletedOnce
  BY EveryTableGood, GoodOnce DEF CompletedOnce, About
<1> QED BY <1>1, StoreInvHolds, PTL

\* What a commit makes durable: one whole block on the previous one.
LEMMA SettlesBlock ==
  ASSUME StoreInv, NEW h \in Handles, commit_done(h)
  PROVE  /\ work[h].block \in Blocks
         /\ work[h].block.height = record.block.height + 1
         /\ work[h].block.time >= record.block.time
         /\ record'.block = work[h].block
         /\ db' = ApplyBlock(db, work[h].block)
<1> DEFINE b == work[h].block
<1>1. /\ Committing(h) /\ executed(work[h]) /\ db' = work[h].db /\ record' = staged[h].record
  BY DEF commit_done, Committing
<1>2. WorkInv(work[h]) /\ CommitInv(h)
  BY <1>1 DEF StoreInv, Committing
<1>3. /\ b \in Blocks /\ b.height = record.block.height + 1 /\ record.block.time <= b.time
      /\ work[h].base.app_hash = db /\ Len(work[h].outcomes) = Len(b.commands)
  BY <1>1, <1>2 DEF WorkInv, CommitInv, Follows, StoreInv, load_ok, executed
<1>4. record'.block = b
  BY <1>1, <1>2 DEF CommitInv
<1>5. Len(b.commands) \in Nat
  BY <1>3, CommandsOfBlock
<1>6. Execution(db, b)[Len(b.commands)] = [db |-> work[h].db, outcomes |-> work[h].outcomes]
  BY <1>2, <1>3 DEF WorkInv
<1>7. db' = ApplyBlock(db, b)
  BY <1>1, <1>5, <1>6, ExecutionApplies
<1>8. b.time >= record.block.time
  <2>1. b.time \in Nat
    BY <1>3, BlocksAssumption DEF IsBlock
  <2>2. record.block.time \in Nat
    <3>1. CASE record.block \in Blocks
      BY <3>1, BlocksAssumption DEF IsBlock
    <3>2. CASE record.block = GenesisBlock
      BY <3>2 DEF GenesisBlock
    <3> QED BY <3>1, <3>2 DEF StoreInv
  <2> QED BY <1>3, <2>1, <2>2
<1> QED BY <1>3, <1>4, <1>7, <1>8

(***************************************************************************)
(* The store implements the settled ledger: every step leaves tables and   *)
(* checkpoint alone or settles one whole block on the previous one.        *)
(***************************************************************************)
THEOREM StoreSettlesWholeBlocks == Spec => WholeBlocksInOrder
<1>1. Init => Settled!Init
  BY DEF Init, create_record, Settled!Init, GenesisBlock, Settled!GenesisBlock
<1>2. StoreInv /\ [Next]_storeVars => [Settled!Next]_<<db, record.block>>
  <2> SUFFICES ASSUME StoreInv, [Next]_storeVars PROVE [Settled!Next]_<<db, record.block>>
    OBVIOUS
  <2>1. ASSUME NEW h \in Handles, commit_done(h) PROVE Settled!Next
    BY <2>1, SettlesBlock DEF Settled!Next
  <2>2. ASSUME NEW h \in Handles, HandleStep(h), ~commit_done(h) PROVE UNCHANGED <<db, record>>
    BY <2>2 DEF HandleStep, stage, execute, stage_done, discard_staged, commit_known, commit,
                abort, reopen
  <2>3. CASE UNCHANGED storeVars
    BY <2>3 DEF storeVars
  <2> QED BY <2>1, <2>2, <2>3 DEF Next
<1> QED BY <1>1, <1>2, StoreInvHolds, PTL DEF Spec, WholeBlocksInOrder, Settled!Spec

-------------------------------------------------------------------------------
(* The application: what ties store, engine and decided chain together.    *)

\* What ProcessProposal let into the chain.
ChainInv ==
  /\ chain \in Seq(Blocks)
  /\ Len(chain) <= MaxHeight
  /\ \A i \in 1 .. Len(chain) :
       /\ chain[i].height = i
       /\ chain[i].id # GenesisBlock.id
       /\ Len(chain[i].commands) <= MAX_BLOCK_COMMANDS
       /\ i > 1 => chain[i - 1].time <= chain[i].time

\* The durable ledger is the chain up to the committed height.
SettledInv ==
  /\ height \in 0 .. Len(chain)
  /\ record.block = IF height = 0 THEN GenesisBlock ELSE chain[height]
  /\ db = LedgerOf(SubSeq(chain, 1, height))

\* b is the block after the committed one, on the committed base.
IsNextBlock(base, b) == base = record /\ height < Len(chain) /\ b = chain[height + 1]

\* What is staged or executing is the next decided block.
FlightInv ==
  /\ staged[App] # None => IsNextBlock(staged[App].base, staged[App].record.block)
  /\ work[App] # None => IsNextBlock(work[App].base, work[App].block)
  /\ (work[App] # None /\ work[App].kind = "stage") => staged[App] = None

\* The id left for Commit is that of the staged block or, with nothing
\* staged, of the committed one.
PendingInv ==
  /\ staged[App] # None => pending = staged[App].record.block.id
  /\ (staged[App] = None /\ pending # "none") => height > 0 /\ pending = record.block.id
  /\ disk # "ready" =>
       staged[App] = None /\ work[App] = None /\ pending = "none" /\ height = 0

EngineInv ==
  /\ engine \in {"down", "init", "ready", "resync", "finalizing", "finalized", "committing"}
  /\ engine = "init" => height = 0 /\ work[App] = None
  /\ engine = "resync" => height > 0
  /\ engine \notin {"down", "init"} => disk = "ready"
  /\ engine = "finalized" => work[App] = None /\ pending # "none"
  /\ ~up => engine = "down"

AppInv == ChainInv /\ SettledInv /\ FlightInv /\ PendingInv /\ EngineInv

IsLedgerRun(f, q, m) ==
  f = [n \in 0 .. m |-> IF n = 0 THEN genesis_db ELSE ApplyBlock(f[n - 1], q[n])]

\* The recursive definition of LedgerOf has a solution.
LEMMA LedgerRuns ==
  ASSUME NEW q, Len(q) \in Nat
  PROVE  \E f : IsLedgerRun(f, q, Len(q)) /\ LedgerOf(q) = f[Len(q)]
<1> DEFINE T == {m \in Nat : \E f : IsLedgerRun(f, q, m)}
<1>1. 0 \in T
  <2> DEFINE f == [n \in 0 .. 0 |-> genesis_db]
  <2>1. IsLedgerRun(f, q, 0)
    BY DEF IsLedgerRun
  <2> QED BY <2>1
<1>2. ASSUME NEW m \in T PROVE m + 1 \in T
  <2>1. PICK f : IsLedgerRun(f, q, m)
    OBVIOUS
  <2> DEFINE g == [n \in 0 .. (m + 1) |-> IF n = 0 THEN genesis_db ELSE ApplyBlock(f[n - 1], q[n])]
  <2>2. ASSUME NEW n \in 0 .. (m + 1), n # 0 PROVE g[n - 1] = f[n - 1]
    <3>1. n - 1 \in 0 .. m /\ n - 1 \in 0 .. (m + 1)
      BY <2>2
    <3>2. f[n - 1] = IF n - 1 = 0 THEN genesis_db ELSE ApplyBlock(f[(n - 1) - 1], q[n - 1])
      BY <2>1, <3>1 DEF IsLedgerRun
    <3> QED BY <3>1, <3>2
  <2>3. g = [n \in 0 .. (m + 1) |-> IF n = 0 THEN genesis_db ELSE ApplyBlock(g[n - 1], q[n])]
    BY <2>2
  <2>4. IsLedgerRun(g, q, m + 1)
    BY <2>3 DEF IsLedgerRun
  <2> HIDE DEF g
  <2> QED BY <2>4
<1>3. T = Nat
  <2> HIDE DEF T
  <2>1. T \subseteq Nat
    BY DEF T
  <2> QED BY <1>1, <1>2, <2>1, SetInduction
<1> DEFINE G == CHOOSE f : IsLedgerRun(f, q, Len(q))
<1>4. IsLedgerRun(G, q, Len(q))
  BY <1>3
<1>5. LedgerOf(q) = G[Len(q)]
  BY DEF LedgerOf, IsLedgerRun
<1> QED BY <1>4, <1>5

\* One block more.
LEMMA LedgerOfAppend ==
  ASSUME NEW S, NEW q \in Seq(S), NEW b \in S
  PROVE  LedgerOf(Append(q, b)) = ApplyBlock(LedgerOf(q), b)
<1> DEFINE m == Len(q)
           p == Append(q, b)
<1>1. /\ m \in Nat /\ Len(p) = m + 1 /\ Len(p) \in Nat /\ p[m + 1] = b
      /\ \A n \in 1 .. m : p[n] = q[n]
  OBVIOUS
<1> HIDE DEF m, p
<1>2. PICK f : IsLedgerRun(f, q, m) /\ LedgerOf(q) = f[m]
  BY <1>1, LedgerRuns DEF m
<1>3. PICK g : IsLedgerRun(g, p, m + 1) /\ LedgerOf(p) = g[m + 1]
  BY <1>1, LedgerRuns
<1> DEFINE T == {n \in Nat : n \in 0 .. m => f[n] = g[n]}
<1>4. 0 \in T
  BY <1>1, <1>2, <1>3 DEF IsLedgerRun
<1>5. ASSUME NEW n \in T PROVE n + 1 \in T
  <2> SUFFICES ASSUME n + 1 \in 0 .. m PROVE f[n + 1] = g[n + 1]
    OBVIOUS
  <2>1. n \in 0 .. m /\ n + 1 # 0 /\ (n + 1) - 1 = n /\ n + 1 \in 0 .. (m + 1) /\ n + 1 \in 1 .. m
    BY <1>1
  <2>2. f[n + 1] = ApplyBlock(f[n], q[n + 1])
    BY <1>2, <2>1 DEF IsLedgerRun
  <2>3. g[n + 1] = ApplyBlock(g[n], p[n + 1])
    BY <1>3, <2>1 DEF IsLedgerRun
  <2>4. f[n] = g[n]
    BY <2>1
  <2> QED BY <1>1, <2>1, <2>2, <2>3, <2>4
<1>6. T = Nat
  <2> HIDE DEF T
  <2>1. T \subseteq Nat
    BY DEF T
  <2> QED BY <1>4, <1>5, <2>1, SetInduction
<1>7. f[m] = g[m]
  BY <1>1, <1>6
<1>8. g[m + 1] = ApplyBlock(g[m], p[m + 1])
  <2>1. m + 1 \in 0 .. (m + 1) /\ m + 1 # 0 /\ (m + 1) - 1 = m
    BY <1>1
  <2> QED BY <1>3, <2>1 DEF IsLedgerRun
<1> QED BY <1>1, <1>2, <1>3, <1>7, <1>8 DEF p

\* The ledger before the first block.
LEMMA LedgerOfNothing == LedgerOf(<< >>) = genesis_db
<1>1. Len(<< >>) = 0
  OBVIOUS
<1>2. PICK f : IsLedgerRun(f, << >>, 0) /\ LedgerOf(<< >>) = f[0]
  BY <1>1, LedgerRuns
<1> QED BY <1>2 DEF IsLedgerRun

\* A prefix grows by the next element, and is the same in a longer sequence.
PrefixesGrow(q, S) ==
  \A n \in 0 .. Len(q) : n < Len(q) =>
    /\ SubSeq(q, 1, n) \in Seq(S)
    /\ q[n + 1] \in S
    /\ SubSeq(q, 1, n + 1) = Append(SubSeq(q, 1, n), q[n + 1])
PrefixesStay(q, S) ==
  \A b \in S : \A n \in 0 .. Len(q) : SubSeq(Append(q, b), 1, n) = SubSeq(q, 1, n)

\* Both hold of every sequence.
LEMMA SequencePrefixes ==
  ASSUME NEW S, NEW q \in Seq(S)
  PROVE  PrefixesGrow(q, S) /\ PrefixesStay(q, S)
<1>1. ASSUME NEW n \in 0 .. Len(q), n < Len(q)
      PROVE  /\ SubSeq(q, 1, n) \in Seq(S)
             /\ q[n + 1] \in S
             /\ SubSeq(q, 1, n + 1) = Append(SubSeq(q, 1, n), q[n + 1])
  <2>1. SubSeq(q, 1, n) \in Seq(S) /\ Len(SubSeq(q, 1, n)) = n
    BY <1>1
  <2>2. q[n + 1] \in S
    BY <1>1
  <2>3. Len(SubSeq(q, 1, n + 1)) = n + 1 /\ SubSeq(q, 1, n + 1) \in Seq(S)
    BY <1>1
  <2>4. \A i \in 1 .. (n + 1) : SubSeq(q, 1, n + 1)[i] = Append(SubSeq(q, 1, n), q[n + 1])[i]
    BY <1>1, <2>1
  <2>5. Append(SubSeq(q, 1, n), q[n + 1]) \in Seq(S) /\ Len(Append(SubSeq(q, 1, n), q[n + 1])) = n + 1
    BY <2>1, <2>2
  <2> QED BY <2>1, <2>2, <2>3, <2>4, <2>5, SeqEqual
<1>2. ASSUME NEW b \in S, NEW n \in 0 .. Len(q)
      PROVE  SubSeq(Append(q, b), 1, n) = SubSeq(q, 1, n)
  <2>1. Append(q, b) \in Seq(S) /\ Len(Append(q, b)) = Len(q) + 1
    OBVIOUS
  <2>2. /\ SubSeq(Append(q, b), 1, n) \in Seq(S) /\ Len(SubSeq(Append(q, b), 1, n)) = n
        /\ SubSeq(q, 1, n) \in Seq(S) /\ Len(SubSeq(q, 1, n)) = n
    BY <2>1
  <2>3. \A i \in 1 .. n : SubSeq(Append(q, b), 1, n)[i] = SubSeq(q, 1, n)[i]
    BY <2>1
  <2> QED BY <2>2, <2>3, SeqEqual
<1> QED BY <1>1, <1>2 DEF PrefixesGrow, PrefixesStay

-------------------------------------------------------------------------------
(* The steps of the application.                                           *)

\* The application has the only handle.
LEMMA AppHandle == App \in Handles /\ \A h \in Handles : h = App
BY AbciAssumption

\* Every step of the application is a step of its store, or leaves it alone.
LEMMA AppStoreStep ==
  ASSUME StoreInv, [AbciNext]_vars
  PROVE  [Next]_storeVars
<1>1. ASSUME NEW b \in Blocks, finalize(b) PROVE Next
  BY <1>1, AppHandle DEF finalize, Next, HandleStep
<1>2. CASE Execute \/ finalize_done \/ commit_request_done \/ StoreError
  BY <1>2, AppHandle DEF Execute, finalize_done, commit_request_done, StoreError, Next,
                         HandleStep
<1>3. CASE commit_request
  <2>1. commit(App, pending) /\ staged[App] # None /\ staged[App].record.block.id = pending
    BY <1>3 DEF commit_request, commit
  <2>2. staged[App].record.block \in Blocks
    BY <2>1, AppHandle DEF StoreInv, StagedInv, Follows
  <2> QED BY <2>1, <2>2, AppHandle DEF Next, HandleStep
<1>4. CASE commit_request_known
  <2>1. commit_known(App, pending) /\ record.block.height > 0 /\ record.block.id = pending
    BY <1>4 DEF commit_request_known, commit_known
  <2>2. record.block \in Blocks
    BY <2>1 DEF StoreInv, GenesisBlock
  <2> QED BY <2>1, <2>2, AppHandle DEF Next, HandleStep
<1>5. CASE Open
  BY <1>5, AppHandle DEF Open, Next, HandleStep
<1>6. ASSUME NEW b \in Blocks, finalize_known(b) \/ Decide(b) PROVE UNCHANGED storeVars
  BY <1>6 DEF finalize_known, Decide
<1>7. CASE \/ Info \/ init_chain \/ CrashInCreate \/ CreateFails \/ Latch
           \/ OtherRequestFails \/ Exit \/ Crash \/ EngineRestart
  BY <1>7 DEF Info, init_chain, CrashInCreate, CreateFails, Latch, OtherRequestFails, Exit,
              Crash, EngineRestart
<1>8. CASE UNCHANGED vars
  BY <1>8 DEF vars
<1> QED BY <1>1, <1>2, <1>3, <1>4, <1>5, <1>6, <1>7, <1>8 DEF AbciNext, Handler

\* Facts about the decided blocks.
LEMMA ChainFacts ==
  ASSUME ChainInv, NEW n \in 1 .. Len(chain)
  PROVE  /\ chain[n] \in Blocks /\ validate_block(chain[n])
         /\ chain[n].height = n /\ chain[n].time \in Nat /\ chain[n].id # "none"
<1>1. chain[n] \in Blocks /\ Len(chain) \in Nat /\ n \in Nat /\ n >= 1 /\ n <= Len(chain)
  BY DEF ChainInv
<1>2. n <= MAX_UNITS
  BY <1>1, AbciAssumption, AccountAssumption DEF ChainInv
<1>3. chain[n].height = n /\ validate_block(chain[n])
  BY <1>1, <1>2, AccountAssumption DEF ChainInv, validate_block
<1> QED BY <1>1, <1>3, AbciAssumption, BlocksAssumption DEF IsBlock

\* What the next decided block satisfies with respect to the committed one.
LEMMA SuccessorFacts ==
  ASSUME StoreInv, ChainInv, SettledInv, height < Len(chain)
  PROVE  /\ chain[height + 1] \in Blocks /\ validate_block(chain[height + 1])
         /\ chain[height + 1].height = height + 1
         /\ record.block.time <= chain[height + 1].time
         /\ record.block.id # chain[height + 1].id
         /\ chain[height + 1].id # "none"
<1> DEFINE b == chain[height + 1]
<1>1. height \in Nat /\ height + 1 \in 1 .. Len(chain) /\ Len(chain) \in Nat
  BY DEF SettledInv, ChainInv
<1>2. /\ b \in Blocks /\ validate_block(b) /\ b.height = height + 1
      /\ b.time \in Nat /\ b.id # "none"
  BY <1>1, ChainFacts
<1>3. CASE height = 0
  <2>1. record.block = GenesisBlock
    BY <1>3 DEF SettledInv
  <2> QED BY <1>2, <2>1 DEF validate_block, GenesisBlock
<1>4. CASE height # 0
  <2>1. record.block = chain[height] /\ height \in 1 .. Len(chain) /\ height + 1 > 1
    BY <1>1, <1>4 DEF SettledInv
  <2>2. chain[height] \in Blocks /\ chain[height].height = height
    BY <2>1, ChainFacts
  <2>3. chain[height].id # b.id
    BY <1>1, <1>2, <2>2, AbciAssumption
  <2>4. chain[height].time <= b.time
    <3>1. (height + 1) - 1 = height
      BY <1>1
    <3> QED BY <1>1, <2>1, <3>1 DEF ChainInv
  <2> QED BY <1>2, <2>1, <2>3, <2>4
<1> QED BY <1>3, <1>4

(***************************************************************************)
(* The next decided block is always taken by an idle application.          *)
(***************************************************************************)
LEMMA NextTaken ==
  ASSUME StoreInv, AppInv, work[App] = None, height < Len(chain)
  PROVE  stage_known(App, chain[height + 1]) \/ stage_admits(App, chain[height + 1])
<1>1. ChainInv /\ SettledInv /\ FlightInv
  BY DEF AppInv
<1>2. /\ validate_block(chain[height + 1]) /\ chain[height + 1].height = height + 1
      /\ record.block.time <= chain[height + 1].time
      /\ record.block.id # chain[height + 1].id
  BY <1>1, SuccessorFacts
<1>3. CASE staged[App] # None
  <2>1. staged[App].record.block = chain[height + 1]
    BY <1>1, <1>3 DEF FlightInv, IsNextBlock
  <2> QED BY <1>2, <1>3, <2>1 DEF stage_known
<1>4. CASE staged[App] = None
  BY <1>2, <1>4 DEF stage_admits, StoreInv, height
<1> QED BY <1>3, <1>4

(***************************************************************************)
(* The only request an idle application refuses is InitChain with a block  *)
(* pending.                                                                *)
(***************************************************************************)
LEMMA RefusedAtInit ==
  ASSUME StoreInv, AppInv, work[App] = None, Refused
  PROVE  engine = "init" /\ height = 0 /\ pending # "none"
<1>1. ChainInv /\ SettledInv /\ FlightInv /\ PendingInv /\ EngineInv
  BY DEF AppInv
<1>2. CASE engine = "init" /\ (pending # "none" \/ height # 0)
  BY <1>1, <1>2 DEF EngineInv
<1>3. ASSUME NEW b \in Blocks, Delivered(b), ~stage_known(App, b), ~stage_admits(App, b)
      PROVE  FALSE
  <2>0. height \in Nat /\ Len(chain) \in Nat
    BY <1>1 DEF SettledInv, ChainInv
  <2>1. CASE Len(chain) > height /\ b = chain[height + 1]
    BY <1>3, <2>0, <2>1, NextTaken
  <2>2. CASE engine = "resync" /\ staged[App] = None /\ b = chain[height]
    <3>1. height > 0 /\ height \in 1 .. Len(chain) /\ record.block = chain[height]
      BY <1>1, <2>0, <2>2 DEF EngineInv, SettledInv
    <3>2. validate_block(chain[height])
      BY <1>1, <3>1, ChainFacts
    <3>3. stage_known(App, b)
      BY <2>2, <3>1, <3>2 DEF stage_known, StoreInv
    <3> QED BY <1>3, <3>3
  <2> QED BY <1>3, <2>1, <2>2 DEF Delivered
<1>4. CASE engine = "finalized" /\ ~Committable
  <2>1. pending # "none"
    BY <1>1, <1>4 DEF EngineInv
  <2>2. CASE staged[App] = None
    <3>1. height > 0 /\ record.block.id = pending
      BY <1>1, <2>1, <2>2 DEF PendingInv
    <3> QED BY <1>4, <2>1, <2>2, <3>1 DEF Committable
  <2>3. CASE staged[App] # None
    <3>1. /\ staged[App].base = record /\ staged[App].record.block = chain[height + 1]
          /\ height < Len(chain) /\ pending = staged[App].record.block.id
      BY <1>1, <2>3 DEF FlightInv, IsNextBlock, PendingInv
    <3>2. record.block.id # pending
      BY <1>1, <3>1, SuccessorFacts
    <3> QED BY <1>4, <2>1, <2>3, <3>1, <3>2 DEF Committable
  <2> QED BY <2>2, <2>3
<1>5. ASSUME Len(chain) = height, NEW b \in Blocks, process(Tip, b),
             ~proposal_position(record.block, b)
      PROVE  FALSE
  <2>1. height \in Nat /\ chain \in Seq(Blocks) /\ Len(chain) \in Nat
    BY <1>1 DEF SettledInv, ChainInv
  <2>2. Tip = record.block
    <3>1. CASE height = 0
      BY <1>1, <1>5, <2>1, <3>1 DEF SettledInv, Tip
    <3>2. CASE height # 0
      BY <1>1, <1>5, <2>1, <3>2 DEF SettledInv, Tip, Last
    <3> QED BY <3>1, <3>2
  <2> QED BY <1>5, <2>2 DEF process
<1>6. CASE engine \notin {"down", "init"} /\ disk # "ready"
  BY <1>1, <1>6 DEF EngineInv
<1> QED BY <1>2, <1>3, <1>4, <1>5, <1>6 DEF Refused

-------------------------------------------------------------------------------
(* The invariant of the application is inductive: one lemma per conjunct   *)
(* that no step disturbs, one per group of actions for the others.         *)

\* Steps that leave tables, checkpoint and chain alone.
LEMMA Unsettled ==
  ASSUME AppInv, UNCHANGED <<db, record, chain>>
  PROVE  ChainInv' /\ SettledInv'
BY DEF AppInv, ChainInv, SettledInv, height

\* Steps that leave the calls and the staged block alone as well.
LEMMA Undisturbed ==
  ASSUME AppInv, UNCHANGED <<storeVars, chain>>
  PROVE  ChainInv' /\ SettledInv' /\ FlightInv' /\ height' = height
<1>1. UNCHANGED <<db, record, staged, work, chain>>
  BY DEF storeVars
<1>2. height' = height
  BY <1>1 DEF height
<1>3. FlightInv'
  BY <1>1, <1>2 DEF AppInv, FlightInv, IsNextBlock
<1> QED BY <1>1, <1>2, <1>3, Unsettled

\* A decision makes the chain longer and disturbs nothing before its end.
LEMMA DecideStep ==
  ASSUME AppInv, NEW b \in Blocks, Decide(b)
  PROVE  AppInv'
<1>0. ChainInv /\ SettledInv /\ FlightInv /\ PendingInv /\ EngineInv
  BY DEF AppInv
<1>1. /\ chain' = Append(chain, b) /\ Len(chain) < MaxHeight /\ process(Tip, b)
      /\ UNCHANGED <<db, record, staged, work, disk, up, pending, failed, engine, errors>>
  BY DEF Decide, storeVars, appVars
<1>2. chain \in Seq(Blocks) /\ Len(chain) \in Nat /\ height \in 0 .. Len(chain) /\ height' = height
  BY <1>0, <1>1 DEF ChainInv, SettledInv, height
<1>3. /\ chain' \in Seq(Blocks) /\ Len(chain') = Len(chain) + 1 /\ chain'[Len(chain) + 1] = b
      /\ \A i \in 1 .. Len(chain) : chain'[i] = chain[i]
  BY <1>1, <1>2
<1>4. ChainInv'
  <2>1. Tip.height = Len(chain) /\ (Len(chain) > 0 => Tip = chain[Len(chain)])
    <3>1. CASE chain = << >>
      BY <3>1 DEF Tip, GenesisBlock
    <3>2. CASE chain # << >>
      <4>1. Tip = chain[Len(chain)] /\ Len(chain) \in 1 .. Len(chain)
        BY <1>2, <3>2 DEF Tip, Last
      <4> QED BY <1>0, <4>1 DEF ChainInv
    <3> QED BY <3>1, <3>2
  <2>2. /\ b.height = Len(chain) + 1 /\ b.id # GenesisBlock.id
        /\ Len(b.commands) <= MAX_BLOCK_COMMANDS /\ b.time >= Tip.time
    BY <1>1, <2>1 DEF process, proposal_position
  <2>3. Len(chain') <= MaxHeight
    BY <1>1, <1>2, <1>3, AbciAssumption
  <2>4. ASSUME NEW i \in 1 .. Len(chain')
        PROVE  /\ chain'[i].height = i
               /\ chain'[i].id # GenesisBlock.id
               /\ Len(chain'[i].commands) <= MAX_BLOCK_COMMANDS
               /\ i > 1 => chain'[i - 1].time <= chain'[i].time
    <3>1. CASE i \in 1 .. Len(chain)
      <4>1. chain'[i] = chain[i] /\ (i > 1 => chain'[i - 1] = chain[i - 1])
        BY <1>2, <1>3, <3>1
      <4> QED BY <1>0, <3>1, <4>1 DEF ChainInv
    <3>2. CASE i = Len(chain) + 1
      <4>1. chain'[i] = b
        BY <1>3, <3>2
      <4>2. ASSUME i > 1 PROVE chain'[i - 1].time <= chain'[i].time
        <5>1. i - 1 = Len(chain) /\ Len(chain) \in 1 .. Len(chain) /\ Len(chain) > 0
          BY <1>2, <3>2, <4>2
        <5>2. chain'[i - 1] = Tip /\ Tip = chain[Len(chain)]
          BY <1>3, <2>1, <5>1
        <5>3. Tip.time \in Nat /\ b.time \in Nat
          BY <1>0, <5>1, <5>2, ChainFacts, BlocksAssumption DEF IsBlock
        <5> QED BY <2>2, <4>1, <5>2, <5>3
      <4> QED BY <2>2, <3>2, <4>1, <4>2
    <3> QED BY <1>2, <1>3, <3>1, <3>2
  <2> QED BY <1>3, <2>3, <2>4 DEF ChainInv, GenesisBlock
<1>5. SubSeq(chain', 1, height) = SubSeq(chain, 1, height)
  <2>1. PrefixesStay(chain, Blocks)
    BY <1>2, SequencePrefixes
  <2> QED BY <1>1, <1>2, <2>1 DEF PrefixesStay
<1>6. SettledInv'
  <2>1. height' \in 0 .. Len(chain')
    BY <1>2, <1>3
  <2>2. height # 0 => chain'[height] = chain[height]
    BY <1>2, <1>3
  <2> QED BY <1>0, <1>1, <1>2, <1>5, <2>1, <2>2 DEF SettledInv, GenesisBlock
<1>7. FlightInv'
  <2>1. height < Len(chain) => height < Len(chain') /\ chain'[height + 1] = chain[height + 1]
    BY <1>2, <1>3
  <2> QED BY <1>0, <1>1, <1>2, <2>1 DEF FlightInv, IsNextBlock
<1>8. PendingInv' /\ EngineInv'
  BY <1>0, <1>1, <1>2 DEF PendingInv, EngineInv
<1> QED BY <1>4, <1>6, <1>7, <1>8 DEF AppInv

\* A restarted application has nothing staged and nothing pending.
LEMMA OpenStep ==
  ASSUME StoreInv, AppInv, Open
  PROVE  AppInv'
<1>0. FlightInv /\ PendingInv /\ EngineInv
  BY DEF AppInv
<1>1. /\ ~up /\ up' = TRUE /\ failed' = FALSE /\ pending' = "none"
      /\ UNCHANGED <<db, record, disk, engine, chain, errors>>
  BY DEF Open, storeVars, reopen, envVars
<1>2. staged'[App] = None /\ work'[App] = None
  <2>1. CASE disk = "absent" /\ UNCHANGED storeVars
    BY <1>0, <2>1 DEF PendingInv, storeVars
  <2>2. CASE reopen(App)
    BY <2>2, AppHandle DEF reopen, StoreInv
  <2> QED BY <2>1, <2>2 DEF Open
<1>3. height' = height
  BY <1>1 DEF height
<1>4. FlightInv' /\ PendingInv' /\ EngineInv'
  BY <1>0, <1>1, <1>2, <1>3 DEF FlightInv, PendingInv, EngineInv
<1> QED BY <1>1, <1>4, Unsettled DEF AppInv

\* Handshake, InitChain and the failures that touch no table.
LEMMA OutsideStep ==
  ASSUME StoreInv, AppInv,
         \/ Info \/ init_chain \/ CrashInCreate \/ CreateFails \/ Latch
         \/ OtherRequestFails \/ Exit \/ Crash \/ EngineRestart
  PROVE  AppInv'
<1>0. SettledInv /\ FlightInv /\ PendingInv /\ EngineInv
  BY DEF AppInv
<1>1. UNCHANGED <<storeVars, chain>>
  BY DEF Info, init_chain, CrashInCreate, CreateFails, Latch, OtherRequestFails, Exit, Crash,
         EngineRestart, envVars
<1>2. ChainInv' /\ SettledInv' /\ FlightInv' /\ height' = height /\ height \in Nat
  BY <1>0, <1>1, Undisturbed DEF SettledInv
<1>3. UNCHANGED <<staged, work, record>>
  BY <1>1 DEF storeVars
<1>4. PendingInv' /\ EngineInv'
  <2>1. CASE Info
    BY <1>0, <1>2, <1>3, <2>1
       DEF Info, serving, appVars, envVars, PendingInv, EngineInv
  <2>2. CASE init_chain
    BY <1>0, <1>2, <1>3, <2>2
       DEF init_chain, serving, envVars, PendingInv, EngineInv
  <2>3. CASE CrashInCreate
    BY <1>0, <1>2, <1>3, <2>3 DEF CrashInCreate, PendingInv, EngineInv
  <2>4. CASE CreateFails \/ Latch \/ OtherRequestFails
    BY <1>0, <1>2, <1>3, <2>4
       DEF CreateFails, Latch, OtherRequestFails, envVars, PendingInv, EngineInv
  <2>5. CASE Exit \/ Crash \/ EngineRestart
    BY <1>0, <1>2, <1>3, <2>5
       DEF Exit, Crash, EngineRestart, appVars, envVars, PendingInv, EngineInv
  <2> QED BY <2>1, <2>2, <2>3, <2>4, <2>5
<1> QED BY <1>2, <1>4 DEF AppInv

\* FinalizeBlock.
LEMMA FinalizeStep ==
  ASSUME StoreInv, AppInv, NEW b \in Blocks, finalize(b) \/ finalize_known(b)
  PROVE  AppInv'
<1>0. ChainInv /\ SettledInv /\ FlightInv /\ PendingInv /\ EngineInv
  BY DEF AppInv
<1>1. height \in Nat /\ Len(chain) \in Nat
  BY <1>0 DEF SettledInv, ChainInv
<1>2. up /\ ~failed /\ work[App] = None /\ disk = "ready" /\ Delivered(b)
  BY DEF finalize, finalize_known, serving
<1>3. CASE finalize(b)
  <2>1. /\ staged[App] = None /\ b.height = height + 1
        /\ work' = [work EXCEPT ![App] = begin("stage", b)]
        /\ engine' = "finalizing"
        /\ UNCHANGED <<db, record, staged, disk, up, pending, failed, chain, errors>>
    BY <1>3 DEF finalize, stage, stage_admits, appVars, envVars, height
  <2>2. work'[App].kind = "stage" /\ work'[App].base = record /\ work'[App].block = b
    BY <2>1, AppHandle DEF StoreInv, begin
  <2>3. height < Len(chain) /\ b = chain[height + 1]
    <3>1. CASE engine = "resync" /\ b = chain[height]
      <4>1. height \in 1 .. Len(chain)
        BY <1>0, <1>1, <3>1 DEF EngineInv, SettledInv
      <4>2. b.height = height
        BY <1>0, <3>1, <4>1, ChainFacts
      <4> QED BY <1>1, <2>1, <4>2
    <3> QED BY <1>1, <1>2, <3>1 DEF Delivered
  <2>4. height' = height
    BY <2>1 DEF height
  <2>5. FlightInv'
    BY <2>1, <2>2, <2>3, <2>4 DEF FlightInv, IsNextBlock
  <2>6. PendingInv' /\ EngineInv'
    BY <1>0, <1>2, <2>1, <2>4 DEF PendingInv, EngineInv
  <2> QED BY <2>1, <2>5, <2>6, Unsettled DEF AppInv
<1>4. CASE finalize_known(b)
  <2>1. /\ UNCHANGED <<storeVars, chain>> /\ stage_known(App, b)
        /\ pending' = b.id /\ engine' = "finalized"
        /\ UNCHANGED <<disk, up, failed, errors>>
    BY <1>4 DEF finalize_known, envVars
  <2>2. ChainInv' /\ SettledInv' /\ FlightInv' /\ height' = height
    BY <2>1, Undisturbed
  <2>3. UNCHANGED <<staged, work, record>>
    BY <2>1 DEF storeVars
  <2>4. b.id # "none"
    BY AbciAssumption
  <2>5. /\ staged[App] # None => staged[App].record.block = b
        /\ staged[App] = None => record.block = b /\ height > 0
    <3>1. b.height > 0
      BY <2>1, AccountAssumption DEF stage_known, validate_block
    <3> QED BY <2>1, <3>1 DEF stage_known, height
  <2>6. PendingInv' /\ EngineInv'
    BY <1>0, <1>2, <2>1, <2>2, <2>3, <2>4, <2>5 DEF PendingInv, EngineInv
  <2> QED BY <2>2, <2>6 DEF AppInv
<1> QED BY <1>3, <1>4

\* The execution of the block, and its errors.
LEMMA ExecutionStep ==
  ASSUME StoreInv, AppInv, Execute \/ StoreError
  PROVE  AppInv'
<1>0. FlightInv /\ PendingInv /\ EngineInv
  BY DEF AppInv
<1>1. work[App] # None /\ UNCHANGED <<db, record, staged, disk, up, pending, engine, chain>>
  BY DEF Execute, execute, StoreError, abort, appVars, envVars
<1>2. height' = height
  BY <1>1 DEF height
<1>3. FlightInv'
  <2>1. CASE Execute
    <3>1. /\ work'[App].kind = work[App].kind /\ work'[App].base = work[App].base
          /\ work'[App].block = work[App].block
      BY <2>1, AppHandle DEF Execute, execute, StoreInv
    <3> QED BY <1>0, <1>1, <1>2, <3>1 DEF FlightInv, IsNextBlock
  <2>2. CASE StoreError
    <3>1. work'[App] = None
      BY <2>2, AppHandle DEF StoreError, abort, StoreInv
    <3> QED BY <1>0, <1>1, <1>2, <3>1 DEF FlightInv, IsNextBlock
  <2> QED BY <2>1, <2>2
<1>4. PendingInv'
  BY <1>0, <1>1, <1>2 DEF PendingInv
<1>5. EngineInv'
  BY <1>0, <1>1, <1>2 DEF EngineInv
<1> QED BY <1>1, <1>3, <1>4, <1>5, Unsettled DEF AppInv

\* The end of FinalizeBlock leaves the block staged and its id pending.
LEMMA FinalizedStep ==
  ASSUME StoreInv, AppInv, finalize_done
  PROVE  AppInv'
<1>0. ChainInv /\ SettledInv /\ FlightInv /\ PendingInv /\ EngineInv
  BY DEF AppInv
<1>1. /\ work[App] # None /\ work[App].kind = "stage" /\ up
      /\ pending' = work[App].block.id
      /\ engine' = IF engine = "finalizing" THEN "finalized" ELSE engine
      /\ UNCHANGED <<db, record, disk, up, failed, chain, errors>>
  BY DEF finalize_done, stage_done, envVars
<1>2. /\ work'[App] = None /\ staged'[App].base = work[App].base
      /\ staged'[App].record.block = work[App].block
  BY AppHandle DEF finalize_done, stage_done, StoreInv
<1>3. height' = height
  BY <1>1 DEF height
<1>4. IsNextBlock(work[App].base, work[App].block)
  BY <1>0, <1>1 DEF FlightInv
<1>5. work[App].block.id # "none"
  BY <1>0, <1>4, SuccessorFacts DEF IsNextBlock
<1>6. FlightInv'
  BY <1>1, <1>2, <1>3, <1>4 DEF FlightInv, IsNextBlock
<1>7. staged'[App] # None
  BY AppHandle DEF finalize_done, stage_done, StoreInv, None
<1>8. PendingInv' /\ EngineInv'
  BY <1>0, <1>1, <1>2, <1>3, <1>5, <1>7 DEF PendingInv, EngineInv
<1> QED BY <1>1, <1>6, <1>8, Unsettled DEF AppInv

\* Commit, up to the point where tables and checkpoint become durable.
LEMMA CommitStep ==
  ASSUME StoreInv, AppInv, commit_request \/ commit_request_known
  PROVE  AppInv'
<1>0. ChainInv /\ SettledInv /\ FlightInv /\ PendingInv /\ EngineInv
  BY DEF AppInv
<1>1. /\ up /\ ~failed /\ work[App] = None /\ pending # "none"
      /\ UNCHANGED <<db, record, disk, up, failed, chain, errors>>
  BY DEF commit_request, commit_request_known, commit, commit_known, serving, appVars, envVars
<1>2. height' = height /\ disk = "ready"
  BY <1>0, <1>1 DEF height, PendingInv
<1>3. CASE commit_request
  <2>1. /\ staged[App] # None /\ engine' = "committing" /\ UNCHANGED <<staged, pending>>
        /\ work' = [work EXCEPT ![App] = begin("commit", staged[App].record.block)]
    BY <1>3 DEF commit_request, commit, appVars
  <2>2. /\ work'[App].kind = "commit" /\ work'[App].base = record
        /\ work'[App].block = staged[App].record.block
    BY <2>1, AppHandle DEF StoreInv, begin
  <2>3. FlightInv'
    BY <1>0, <1>1, <1>2, <2>1, <2>2 DEF FlightInv, IsNextBlock
  <2>4. PendingInv' /\ EngineInv'
    BY <1>0, <1>1, <1>2, <2>1 DEF PendingInv, EngineInv
  <2> QED BY <1>1, <2>3, <2>4, Unsettled DEF AppInv
<1>4. CASE commit_request_known
  <2>1. /\ staged'[App] = None /\ work' = work /\ pending' = "none" /\ engine' = "ready"
    BY <1>4, AppHandle DEF commit_request_known, commit_known, StoreInv
  <2>2. FlightInv' /\ PendingInv' /\ EngineInv'
    BY <1>0, <1>1, <1>2, <2>1 DEF FlightInv, PendingInv, EngineInv
  <2> QED BY <1>1, <2>2, Unsettled DEF AppInv
<1> QED BY <1>3, <1>4

\* The commit itself: the ledger is the chain, one block longer.
LEMMA CommittedStep ==
  ASSUME StoreInv, AppInv, commit_request_done
  PROVE  AppInv'
<1>0. ChainInv /\ SettledInv /\ FlightInv /\ PendingInv /\ EngineInv
  BY DEF AppInv
<1>1. /\ commit_done(App) /\ work[App] # None /\ up /\ pending' = "none"
      /\ engine' = IF engine = "committing" THEN "ready" ELSE engine
      /\ UNCHANGED <<disk, up, failed, chain, errors>>
  BY DEF commit_request_done, commit_done, envVars
<1>2. staged'[App] = None /\ work'[App] = None
  BY <1>1, AppHandle DEF commit_done, StoreInv
<1>3. height \in Nat /\ Len(chain) \in Nat /\ chain \in Seq(Blocks)
  BY <1>0 DEF SettledInv, ChainInv
<1>4. work[App].block = chain[height + 1] /\ height < Len(chain)
  BY <1>0, <1>1 DEF FlightInv, IsNextBlock
<1>5. /\ record'.block = chain[height + 1] /\ height' = height + 1
      /\ db' = ApplyBlock(db, chain[height + 1])
  <2>1. /\ work[App].block.height = record.block.height + 1
        /\ record'.block = work[App].block /\ db' = ApplyBlock(db, work[App].block)
    BY <1>1, AppHandle, SettlesBlock
  <2> QED BY <1>4, <2>1 DEF height
<1>6. db' = LedgerOf(SubSeq(chain, 1, height + 1))
  <2>1. /\ SubSeq(chain, 1, height) \in Seq(Blocks) /\ chain[height + 1] \in Blocks
        /\ SubSeq(chain, 1, height + 1) = Append(SubSeq(chain, 1, height), chain[height + 1])
    <3>1. height \in 0 .. Len(chain)
      BY <1>3, <1>4
    <3>2. PrefixesGrow(chain, Blocks)
      BY <1>3, SequencePrefixes
    <3> QED BY <1>4, <3>1, <3>2 DEF PrefixesGrow
  <2>2. LedgerOf(SubSeq(chain, 1, height + 1))
          = ApplyBlock(LedgerOf(SubSeq(chain, 1, height)), chain[height + 1])
    BY <2>1, LedgerOfAppend
  <2> QED BY <1>0, <1>5, <2>2 DEF SettledInv
<1>7. SettledInv'
  <2>1. height' \in 0 .. Len(chain) /\ height' # 0
    BY <1>3, <1>4, <1>5
  <2> QED BY <1>1, <1>5, <1>6, <2>1 DEF SettledInv
<1>8. ChainInv'
  BY <1>0, <1>1 DEF ChainInv
<1>9. FlightInv' /\ PendingInv' /\ EngineInv'
  <2>1. height' > 0
    BY <1>3, <1>5
  <2> QED BY <1>0, <1>1, <1>2, <2>1 DEF FlightInv, PendingInv, EngineInv
<1> QED BY <1>7, <1>8, <1>9 DEF AppInv

\* Every step keeps the invariant.
LEMMA AppInductive == StoreInv /\ AppInv /\ [AbciNext]_vars => AppInv'
<1> SUFFICES ASSUME StoreInv, AppInv, [AbciNext]_vars PROVE AppInv'
  OBVIOUS
<1>1. CASE UNCHANGED vars
  <2>1. UNCHANGED <<storeVars, disk, up, pending, failed, engine, chain, errors>>
    BY <1>1 DEF vars, appVars, envVars
  <2>2. UNCHANGED <<record, staged, work>>
    BY <2>1 DEF storeVars
  <2>3. ChainInv' /\ SettledInv' /\ FlightInv' /\ height' = height
    BY <2>1, Undisturbed
  <2>4. PendingInv' /\ EngineInv'
    BY <2>1, <2>2, <2>3 DEF AppInv, PendingInv, EngineInv
  <2> QED BY <2>3, <2>4 DEF AppInv
<1>2. CASE \E b \in Blocks : Decide(b)
  BY <1>2, DecideStep
<1>3. CASE \E b \in Blocks : finalize(b) \/ finalize_known(b)
  BY <1>3, FinalizeStep
<1>4. CASE Open
  BY <1>4, OpenStep
<1>5. CASE \/ Info \/ init_chain \/ CrashInCreate \/ CreateFails \/ Latch
           \/ OtherRequestFails \/ Exit \/ Crash \/ EngineRestart
  BY <1>5, OutsideStep
<1>6. CASE Execute \/ StoreError
  BY <1>6, ExecutionStep
<1>7. CASE finalize_done
  BY <1>7, FinalizedStep
<1>8. CASE commit_request \/ commit_request_known
  BY <1>8, CommitStep
<1>9. CASE commit_request_done
  BY <1>9, CommittedStep
<1> QED BY <1>1, <1>2, <1>3, <1>4, <1>5, <1>6, <1>7, <1>8, <1>9 DEF AbciNext, Handler

\* The invariant holds initially.
LEMMA AppInitial == AbciInit => StoreInv /\ AppInv
<1> SUFFICES ASSUME AbciInit PROVE StoreInv /\ AppInv
  OBVIOUS
<1>1. StoreInv
  BY StoreInitial DEF AbciInit
<1>2. /\ chain = << >> /\ record.block = GenesisBlock /\ height = 0 /\ db = genesis_db
      /\ staged[App] = None /\ work[App] = None /\ disk = "absent" /\ pending = "none"
      /\ engine = "down" /\ up = FALSE /\ failed = FALSE /\ errors = 0
  BY AppHandle DEF AbciInit, Init, create_record, GenesisBlock, height
<1>3. chain \in Seq(Blocks) /\ Len(chain) = 0 /\ SubSeq(chain, 1, 0) = << >>
  BY <1>2
<1>4. ChainInv
  BY <1>3, AbciAssumption, AccountAssumption DEF ChainInv
<1>5. SettledInv
  <2>1. db = LedgerOf(SubSeq(chain, 1, height))
    BY <1>2, <1>3, LedgerOfNothing, Zenon
  <2> QED BY <1>2, <1>3, <2>1 DEF SettledInv
<1>6. FlightInv /\ PendingInv /\ EngineInv
  BY <1>2 DEF FlightInv, PendingInv, EngineInv
<1> QED BY <1>1, <1>4, <1>5, <1>6 DEF AppInv

\* The invariant holds in every reachable state.
LEMMA AppInvHolds == AbciSpec => [](StoreInv /\ AppInv)
<1>1. StoreInv /\ AppInv /\ [AbciNext]_vars => (StoreInv /\ AppInv)'
  BY AppInductive, AppStoreStep, StoreInductive
<1> QED BY <1>1, AppInitial, PTL DEF AbciSpec

-------------------------------------------------------------------------------
(* The properties of the application.                                      *)

(***************************************************************************)
(* A validator's durable ledger is the decided chain up to its committed   *)
(* height, executed once and in order, through every crash, engine restart *)
(* and database error (Application::finalize_block and commit).            *)
(***************************************************************************)
THEOREM AbciLedgerIsTheChain == AbciSpec => []LedgerIsChain
<1>1. StoreInv /\ AppInv => LedgerIsChain
  <2> SUFFICES ASSUME AppInv PROVE LedgerIsChain
    OBVIOUS
  <2>1. SettledInv /\ Len(chain) \in Nat
    BY DEF AppInv, ChainInv
  <2> QED BY <2>1 DEF SettledInv, LedgerIsChain
<1> QED BY <1>1, AppInvHolds, PTL

(***************************************************************************)
(* What ProcessProposal let the validators decide, FinalizeBlock of an     *)
(* idle application never refuses, a block left staged by an engine        *)
(* restart included.                                                       *)
(***************************************************************************)
THEOREM AbciDecidedIsTaken == AbciSpec => []DecidedIsTaken
<1>1. StoreInv /\ AppInv => DecidedIsTaken
  <2> SUFFICES ASSUME StoreInv, AppInv, serving, Len(chain) > height
               PROVE  stage_known(App, chain[height + 1]) \/ stage_admits(App, chain[height + 1])
    BY DEF DecidedIsTaken
  <2>1. height < Len(chain)
    BY DEF AppInv, ChainInv, SettledInv
  <2> QED BY <2>1, NextTaken DEF serving
<1> QED BY <1>1, AppInvHolds, PTL

(***************************************************************************)
(* Of what the engine sends to a serving application, Application::handle  *)
(* refuses only InitChain after an engine restart between FinalizeBlock    *)
(* and Commit of the first block.                                          *)
(***************************************************************************)
THEOREM AbciEngineRefusedOnlyAtGenesis == AbciSpec => []EngineRefusedOnlyAtGenesis
<1>1. StoreInv /\ AppInv => EngineRefusedOnlyAtGenesis
  BY RefusedAtInit DEF serving, EngineRefusedOnlyAtGenesis
<1> QED BY <1>1, AppInvHolds, PTL

===============================================================================
