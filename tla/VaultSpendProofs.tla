-------------------------- MODULE VaultSpendProofs --------------------------
(***************************************************************************)
(* Theorems about the coordinator's spends, for every network, key,        *)
(* listing, request and schedule: the builder and the validator, and the   *)
(* spend commands against Bitcoin Core.                                    *)
(***************************************************************************)
EXTENDS VaultSpend, FoundationProofs

-----------------------------------------------------------------------------
(* The validator on its own. *)

\* Whoever built it, a spend that validate_built_spend lets through takes coins of
\* the listing worth exactly the amount, the fee and one output back to the vault,
\* and the fee is within every cap (spend.rs:295-447).
THEOREM ValidatorIsSound ==
    ASSUME NEW built, NEW vault, NEW network, NEW available, NEW ask,
           ask.amount_sats \in Nat, ask.fee_sats \in Nat, built.change_sats \in Nat,
           validate_built_spend(built, vault, network, available, ask)
    PROVE  LET tx == built.tx.unsigned
               back == IF Len(tx.outputs) = 2 THEN tx.outputs[2].value ELSE 0
           IN  /\ DOMAIN tx.inputs \subseteq Candidates(available, ask.path)
               /\ \A o \in DOMAIN tx.inputs : available[o].script = vault
               /\ TotalIn(available, DOMAIN tx.inputs) = Need(ask) + back
               /\ tx.outputs[1] = Pay(ask.amount_sats, ask.destination.script)
               /\ Len(tx.outputs) \in {1, 2}
               /\ Len(tx.outputs) = 2 => tx.outputs[2].script = vault
               /\ FeeWithinCaps(ask) /\ FeeWithinRate(tx, ask)
<1> DEFINE tx == built.tx.unsigned
<1>1. DOMAIN tx.inputs \subseteq Candidates(available, ask.path)
    BY DEF validate_built_spend, InputsMatch, Candidates
<1>2. \A o \in DOMAIN tx.inputs : available[o].script = vault
    BY DEF validate_built_spend, InputsMatch
<1>3. TotalIn(available, DOMAIN tx.inputs) \in Int
    BY SpendLimits DEF validate_built_spend, InputsMatch
<1>4. TotalIn(available, DOMAIN tx.inputs) = Need(ask) + built.change_sats
    BY <1>3 DEF validate_built_spend, AmountsMatch, Need
<1>5. built.change_sats = IF Len(tx.outputs) = 2 THEN tx.outputs[2].value ELSE 0
    BY DEF validate_built_spend, OutputsMatch, Pay
<1>6. /\ tx.outputs[1] = Pay(ask.amount_sats, ask.destination.script)
      /\ Len(tx.outputs) \in {1, 2}
      /\ Len(tx.outputs) = 2 => tx.outputs[2].script = vault
    BY DEF validate_built_spend, OutputsMatch, Pay
<1>7. FeeWithinCaps(ask) /\ FeeWithinRate(tx, ask)
    BY DEF validate_built_spend, MetadataMatches, TransactionMatches
<1> QED
    BY <1>1, <1>2, <1>4, <1>5, <1>6, <1>7

-----------------------------------------------------------------------------
(* The builder and the validator. *)

\* What select_coins returns covers the need within the input limit.
LEMMA SelectionCovers ==
    ASSUME NEW listing, NEW path, NEW need \in Nat,
           NEW coins \in select_coins(listing, need, path)
    PROVE  /\ coins \subseteq Candidates(listing, path)
           /\ coins # {}
           /\ Cardinality(coins) <= MaxSelectedInputs
           /\ TotalIn(listing, coins) \in Nat
           /\ TotalIn(listing, coins) \in need..U64Max
BY SpendLimits DEF select_coins

\* Everything build_and_sign returns passes validate_built_spend on the same
\* listing and request, ties in the selection included (spend.rs:81-447).
THEOREM BuilderPassesValidator ==
    ASSUME NEW vault, NEW network, NEW listing, NEW keys, NEW ask,
           ask.amount_sats \in Nat, ask.fee_sats \in Nat,
           \A o \in DOMAIN listing : listing[o].script = vault,
           NEW built \in build_and_sign(vault, network, listing, ask, keys)
    PROVE  validate_built_spend(built, vault, network, listing, ask)
<1>1. PICK coins \in select_coins(listing, Need(ask), ask.path) :
          /\ NotDust(Change(listing, coins, ask), vault)
          /\ FeeWithinRate(Unsigned(vault, listing, coins, ask), ask)
          /\ built = BuiltSpend(vault, listing, coins, ask, keys)
    BY DEF build_and_sign
<1>2. RequestAccepted(vault, network, ask)
    BY DEF build_and_sign
<1> DEFINE change == Change(listing, coins, ask)
           tx == Unsigned(vault, listing, coins, ask)
<1>3. Need(ask) \in Nat
    BY DEF Need
<1>4. /\ coins \subseteq Candidates(listing, ask.path)
      /\ coins # {}
      /\ Cardinality(coins) <= MaxSelectedInputs
      /\ TotalIn(listing, coins) \in Nat
      /\ TotalIn(listing, coins) \in Need(ask)..U64Max
    BY <1>3, SelectionCovers
<1>5. change \in Nat /\ TotalIn(listing, coins) = Need(ask) + change
    BY <1>3, <1>4, SpendLimits DEF Change
<1>6. /\ tx.version = 2 /\ tx.lock_time = 0
      /\ tx.inputs = [o \in coins |-> SequenceOf(vault, ask.path)]
      /\ tx.outputs = Outputs(vault, ask, change)
    BY DEF Unsigned
<1>7. /\ built.tx = Signed(tx, vault, listing, keys)
      /\ built.path = ask.path
      /\ built.fee_sats = ask.fee_sats /\ built.amount_sats = ask.amount_sats
      /\ built.change_sats = change
    BY <1>1 DEF BuiltSpend
<1>8. built.tx.unsigned = tx /\ DOMAIN built.tx.witness = coins
    BY <1>6, <1>7 DEF Signed
<1> HIDE DEF tx, change
<1>9. MetadataMatches(built, vault, network, ask)
    BY <1>2, <1>7 DEF MetadataMatches, RequestAccepted
<1>10. TransactionMatches(built.tx.unsigned, ask)
    BY <1>1, <1>4, <1>6, <1>8 DEF TransactionMatches, tx
<1>11. InputsMatch(built.tx, vault, listing, ask)
    BY <1>4, <1>6, <1>8, SpendLimits DEF InputsMatch, Candidates
<1>12. OutputsMatch(built, vault, network, ask)
    <2>1. DestinationAccepted(network, ask)
        BY <1>2 DEF RequestAccepted
    <2>2. change > 0 => change >= MinimalNonDust(vault)
        BY <1>1 DEF NotDust, change
    <2>3. built.tx.unsigned.outputs = Outputs(vault, ask, change)
        BY <1>6, <1>8
    <2>4. CASE change > 0
        <3>1. built.tx.unsigned.outputs =
                  <<Pay(ask.amount_sats, ask.destination.script), Pay(change, vault)>>
            BY <2>3, <2>4 DEF Outputs
        <3> QED
            BY <1>7, <2>1, <2>2, <2>4, <3>1 DEF OutputsMatch
    <2>5. CASE ~(change > 0)
        <3>1. built.tx.unsigned.outputs = <<Pay(ask.amount_sats, ask.destination.script)>>
            BY <2>3, <2>5 DEF Outputs
        <3> QED
            BY <1>7, <2>1, <2>5, <3>1 DEF OutputsMatch
    <2> QED
        BY <2>4, <2>5
<1>13. AmountsMatch(built, listing, ask)
    <2>1. TotalOut(tx) = ask.amount_sats + change
        BY <1>5, <1>6 DEF TotalOut, Outputs, Pay
    <2>2. Need(ask) = ask.amount_sats + ask.fee_sats
        BY DEF Need
    <2> QED
        BY <1>2, <1>4, <1>5, <1>6, <1>7, <1>8, <2>1, <2>2, SpendLimits
        DEF AmountsMatch, RequestAccepted
<1> QED
    BY <1>9, <1>10, <1>11, <1>12, <1>13 DEF validate_built_spend

-----------------------------------------------------------------------------
(* The selection. *)

Values(listing) == [o \in DOMAIN listing |-> listing[o].value]

\* The total of some coins is a sum of the values of the listing.
LEMMA TotalIsSum ==
    ASSUME NEW listing, IsFiniteSet(DOMAIN listing),
           \A o \in DOMAIN listing : listing[o].value \in Nat,
           NEW coins \in SUBSET DOMAIN listing
    PROVE  /\ IsFiniteSet(coins)
           /\ TotalIn(listing, coins) = SumFunctionOnSet(Values(listing), coins)
           /\ TotalIn(listing, coins) \in Nat
<1> DEFINE value == [o \in coins |-> listing[o].value]
<1>1. IsFiniteSet(coins)
    BY FS_Subset
<1>2. \A o \in coins : Values(listing)[o] \in Nat /\ Values(listing)[o] = value[o]
    BY DEF Values
<1>3. TotalIn(listing, coins) = SumFunctionOnSet(value, coins)
    BY DEF TotalIn
<1> HIDE DEF value
<1>4. SumFunctionOnSet(Values(listing), coins) = SumFunctionOnSet(value, coins)
    BY <1>1, <1>2, SumSame
<1>5. SumFunctionOnSet(Values(listing), coins) \in Nat
    BY <1>1, <1>2, SumStep
<1> QED
    BY <1>1, <1>3, <1>4, <1>5

\* Among as many coins or more, no choice is worth more than the largest.
LEMMA LargestIsMost ==
    ASSUME NEW listing, IsFiniteSet(DOMAIN listing),
           \A o \in DOMAIN listing : listing[o].value \in Nat,
           NEW path, NEW top \in SUBSET Candidates(listing, path), LargestFirst(listing, path, top),
           NEW coins \in SUBSET Candidates(listing, path), Cardinality(coins) <= Cardinality(top)
    PROVE  TotalIn(listing, coins) <= TotalIn(listing, top)
<1> DEFINE f == Values(listing)
           both == top \cap coins
           more == top \ coins
           less == coins \ top
<1>1. top \in SUBSET DOMAIN listing /\ coins \in SUBSET DOMAIN listing
    BY DEF Candidates
<1>2. IsFiniteSet(top) /\ IsFiniteSet(coins)
    BY <1>1, FS_Subset
<1>3. IsFiniteSet(both) /\ IsFiniteSet(more) /\ IsFiniteSet(less)
    BY <1>2, FS_Subset
<1>4. Cardinality(less) <= Cardinality(more)
    <2>1. /\ Cardinality(more) = Cardinality(top) - Cardinality(both)
          /\ Cardinality(less) = Cardinality(coins) - Cardinality(coins \cap top)
        BY <1>2, FS_Difference
    <2>2. coins \cap top = both
        OBVIOUS
    <2>3. /\ Cardinality(top) \in Nat /\ Cardinality(coins) \in Nat /\ Cardinality(both) \in Nat
        BY <1>2, <1>3, FS_CardinalityType
    <2> HIDE DEF both, more, less
    <2> QED
        BY <2>1, <2>2, <2>3
<1>5. \A o \in DOMAIN listing : f[o] \in Nat /\ f[o] = listing[o].value
    BY DEF Values
<1>6. \A x \in less, y \in more : f[x] <= f[y]
    <2> SUFFICES ASSUME NEW x \in less, NEW y \in more PROVE f[x] <= f[y]
        OBVIOUS
    <2>1. x \in Candidates(listing, path) \ top /\ y \in top
        OBVIOUS
    <2>2. listing[y].value >= listing[x].value
        BY <2>1 DEF LargestFirst
    <2>3. x \in DOMAIN listing /\ y \in DOMAIN listing
        BY <1>1
    <2> HIDE DEF f, less, more
    <2> QED
        BY <1>5, <2>2, <2>3
<1>7. /\ both \cup more = top /\ both \cap more = {}
      /\ both \cup less = coins /\ both \cap less = {}
    OBVIOUS
<1>8. /\ \A x \in both \cup more : f[x] \in Nat
      /\ \A x \in both \cup less : f[x] \in Nat
      /\ \A x \in less \cup more : f[x] \in Nat
    BY <1>1, <1>5, <1>7
<1> HIDE DEF f, both, more, less
<1>9. /\ SumFunctionOnSet(f, both \cup more) = SumFunctionOnSet(f, both) + SumFunctionOnSet(f, more)
      /\ SumFunctionOnSet(f, both \cup less) = SumFunctionOnSet(f, both) + SumFunctionOnSet(f, less)
    BY <1>3, <1>7, <1>8, SumDisjoint
<1>10. SumFunctionOnSet(f, less) <= SumFunctionOnSet(f, more)
    BY <1>3, <1>4, <1>6, <1>8, SumDominates
<1>11. /\ SumFunctionOnSet(f, both) \in Nat /\ SumFunctionOnSet(f, more) \in Nat
       /\ SumFunctionOnSet(f, less) \in Nat
    BY <1>3, <1>8, SumStep
<1>12. SumFunctionOnSet(f, both \cup less) <= SumFunctionOnSet(f, both \cup more)
    BY <1>9, <1>10, <1>11
<1>13. SumFunctionOnSet(f, coins) <= SumFunctionOnSet(f, top)
    BY <1>7, <1>12, Zenon
<1> QED
    BY <1>1, <1>13, TotalIsSum DEF f

\* The smallest of a choice comes last in an order that is largest first, and the choice
\* is worth its value more than the rest.
LEMMA SmallestIsLast ==
    ASSUME NEW listing, IsFiniteSet(DOMAIN listing),
           \A o \in DOMAIN listing : listing[o].value \in Nat,
           NEW path, NEW coins \in SUBSET Candidates(listing, path),
           LargestFirst(listing, path, coins), TotalIn(listing, coins) > 0
    PROVE  \E last \in coins :
               /\ LargestFirst(listing, path, coins \ {last})
               /\ TotalIn(listing, coins) = listing[last].value + TotalIn(listing, coins \ {last})
<1> DEFINE all == Candidates(listing, path)
           f == Values(listing)
<1>1. /\ all \subseteq DOMAIN listing /\ coins \in SUBSET DOMAIN listing
      /\ \A o \in all : listing[o].value \in Nat
    BY DEF Candidates
<1>2. coins # {}
    <2>1. SUFFICES ASSUME coins = {} PROVE FALSE
        OBVIOUS
    <2>2. {} \in SUBSET DOMAIN listing /\ SumFunctionOnSet(Values(listing), {}) = 0
        BY SumUnfolds
    <2>3. TotalIn(listing, {}) = 0
        BY <2>2, TotalIsSum
    <2> QED
        BY <2>1, <2>3
<1>3. \A o \in coins : f[o] \in Nat /\ f[o] = listing[o].value
    BY <1>1 DEF Values
<1>4. PICK last \in coins : \A o \in coins : listing[last].value <= listing[o].value
    <2>1. \E x \in coins : \A y \in coins : f[x] <= f[y]
        <3> HIDE DEF f
        <3> QED
            BY <1>2, <1>3, LeastValue
    <2> QED
        BY <1>3, <2>1
<1> DEFINE rest == coins \ {last}
<1>5. LargestFirst(listing, path, rest)
    <2>1. ASSUME NEW o \in rest, NEW other \in all \ rest
          PROVE  listing[o].value >= listing[other].value
        <3>1. o \in coins /\ o \in all
            OBVIOUS
        <3>2. CASE other = last
            BY <1>1, <1>4, <3>1, <3>2
        <3>3. CASE other # last
            BY <3>1, <3>3 DEF LargestFirst
        <3> QED
            BY <3>2, <3>3
    <2> QED
        BY <2>1 DEF LargestFirst
<1>6. TotalIn(listing, coins) = listing[last].value + TotalIn(listing, rest)
    <2>1. IsFiniteSet(coins) /\ TotalIn(listing, coins) = SumFunctionOnSet(f, coins)
        BY <1>1, TotalIsSum
    <2>2. rest \in SUBSET DOMAIN listing
        BY <1>1
    <2>3. TotalIn(listing, rest) = SumFunctionOnSet(f, rest)
        <3> HIDE DEF rest
        <3> QED
            BY <2>2, TotalIsSum DEF f
    <2> HIDE DEF f
    <2>4. SumFunctionOnSet(f, coins) = f[last] + SumFunctionOnSet(f, coins \ {last})
        BY <1>3, <2>1, SumStep
    <2> QED
        BY <1>3, <2>1, <2>3, <2>4
<1> QED
    BY <1>5, <1>6

\* Whenever some choice of spendable coins covers the need within the input limit,
\* and the listing as a whole fits a u64, the largest-first choice covers it: with
\* the fewest coins that do.
THEOREM SelectionIsComplete ==
    ASSUME NEW listing, IsFiniteSet(DOMAIN listing),
           \A o \in DOMAIN listing : listing[o].value \in Nat,
           TotalIn(listing, DOMAIN listing) <= U64Max,
           NEW path, NEW need \in Nat \ {0},
           NEW coins \in SUBSET Candidates(listing, path),
           Cardinality(coins) <= MaxSelectedInputs, TotalIn(listing, coins) >= need
    PROVE  select_coins(listing, need, path) # {}
<1> DEFINE all == Candidates(listing, path)
           Enough == {c \in SUBSET all : /\ LargestFirst(listing, path, c)
                                          /\ TotalIn(listing, c) >= need}
           size == [c \in Enough |-> Cardinality(c)]
<1>1. all \subseteq DOMAIN listing /\ IsFiniteSet(all)
    BY FS_Subset DEF Candidates
<1>2. \A c \in SUBSET all : /\ c \in SUBSET DOMAIN listing
                            /\ IsFiniteSet(c) /\ Cardinality(c) \in Nat
                            /\ TotalIn(listing, c) \in Nat
    <2> SUFFICES ASSUME NEW c \in SUBSET all
                 PROVE  /\ c \in SUBSET DOMAIN listing
                        /\ IsFiniteSet(c) /\ Cardinality(c) \in Nat
                        /\ TotalIn(listing, c) \in Nat
        OBVIOUS
    <2>1. c \in SUBSET DOMAIN listing
        BY <1>1
    <2> QED
        BY <2>1, TotalIsSum, FS_CardinalityType
<1>3. all \in Enough
    <2>1. LargestFirst(listing, path, all)
        BY DEF LargestFirst
    <2>2. /\ SumFunctionOnSet(Values(listing), coins) <= SumFunctionOnSet(Values(listing), all)
        BY <1>1, SumSubset DEF Values
    <2>3. TotalIn(listing, coins) <= TotalIn(listing, all)
        BY <1>1, <2>2, TotalIsSum
    <2>4. TotalIn(listing, all) >= need
        BY <1>2, <2>3
    <2> QED
        BY <2>1, <2>4
<1>4. PICK best \in Enough : \A c \in Enough : Cardinality(best) <= Cardinality(c)
    <2>1. Enough # {}
        BY <1>3
    <2>2. \A c \in Enough : size[c] \in Nat
        BY <1>2
    <2>3. \E x \in Enough : \A y \in Enough : size[x] <= size[y]
        <3> HIDE DEF size, Enough
        <3> QED
            BY <2>1, <2>2, LeastValue
    <2> QED
        BY <2>3
<1>5. best \in SUBSET all /\ LargestFirst(listing, path, best) /\ TotalIn(listing, best) >= need
    OBVIOUS
<1>6. TotalIn(listing, best) > 0
    BY <1>2, <1>5
<1>7. PICK last \in best : LargestFirst(listing, path, best \ {last})
    BY <1>5, <1>6, SmallestIsLast
<1> DEFINE rest == best \ {last}
<1>8. rest \in SUBSET all /\ LargestFirst(listing, path, rest)
    BY <1>5, <1>7
<1>9. Cardinality(rest) = Cardinality(best) - 1
    BY <1>2, <1>5, FS_RemoveElement
<1>10. ~(TotalIn(listing, rest) >= need)
    <2>1. SUFFICES ASSUME TotalIn(listing, rest) >= need PROVE FALSE
        OBVIOUS
    <2>2. rest \in Enough
        BY <1>8, <2>1
    <2>3. Cardinality(best) <= Cardinality(rest) /\ Cardinality(best) \in Nat
        BY <1>2, <1>4, <1>5, <2>2
    <2> HIDE DEF rest
    <2> QED
        BY <1>9, <2>3
<1>11. Cardinality(best) <= MaxSelectedInputs
    <2>1. SUFFICES ASSUME ~(Cardinality(best) <= MaxSelectedInputs) PROVE FALSE
        OBVIOUS
    <2>2. Cardinality(best) \in Nat /\ Cardinality(coins) \in Nat /\ MaxSelectedInputs \in Nat
        BY <1>2, <1>5, SpendLimits
    <2>3. Cardinality(coins) <= Cardinality(rest)
        <3> HIDE DEF rest
        <3> QED
            BY <1>9, <2>1, <2>2
    <2>4. TotalIn(listing, coins) <= TotalIn(listing, rest)
        <3> HIDE DEF rest
        <3> QED
            BY <1>8, <2>3, LargestIsMost
    <2>5. TotalIn(listing, coins) \in Nat /\ TotalIn(listing, rest) \in Nat
        BY <1>2, <1>8
    <2> HIDE DEF rest
    <2> QED
        BY <1>10, <2>4, <2>5
<1>12. TotalIn(listing, best) \in need..U64Max
    <2>1. best \in SUBSET DOMAIN listing
        BY <1>2, <1>5
    <2>2. SumFunctionOnSet(Values(listing), best)
              <= SumFunctionOnSet(Values(listing), DOMAIN listing)
        BY <2>1, SumSubset DEF Values
    <2>3. TotalIn(listing, best) <= TotalIn(listing, DOMAIN listing)
        BY <2>1, <2>2, TotalIsSum
    <2>4. TotalIn(listing, best) \in Nat /\ TotalIn(listing, DOMAIN listing) \in Nat
        BY <2>1, TotalIsSum
    <2> QED
        BY <1>5, <2>3, <2>4, SpendLimits
<1>13. TotalIn(listing, rest) < need
    <2>1. TotalIn(listing, rest) \in Nat
        BY <1>2, <1>8
    <2> HIDE DEF rest
    <2> QED
        BY <1>10, <2>1
<1>14. best \in select_coins(listing, need, path)
    BY <1>5, <1>7, <1>8, <1>11, <1>12, <1>13 DEF select_coins
<1> QED
    BY <1>14

-----------------------------------------------------------------------------
(* What goes with a transaction that leaves the mempool. *)

Grown(g, first, known, N) ==
    g = [n \in 0..N |->
            IF n = 0 THEN first
            ELSE g[n - 1] \cup UNION {Children(t, known) : t \in g[n - 1]}]

\* The recursive function of Descendants exists, up to any number of steps.
LEMMA GrownExists ==
    ASSUME NEW first, NEW known, NEW N \in Nat
    PROVE  \E g : Grown(g, first, known, N)
<1> DEFINE Bad == {n \in Nat : ~\E g : Grown(g, first, known, n)}
<1>1. SUFFICES ASSUME Bad # {} PROVE FALSE
    OBVIOUS
<1>2. PICK n \in Bad : \A m \in Bad : n <= m
    <2>1. Bad \in SUBSET Nat
        OBVIOUS
    <2> HIDE DEF Bad
    <2> QED
        BY <1>1, <2>1, LeastExists
<1>3. CASE n = 0
    <2> DEFINE g == [m \in 0..0 |-> first]
    <2>1. Grown(g, first, known, 0)
        BY DEF Grown
    <2> QED
        BY <1>3, <2>1
<1>4. CASE n # 0
    <2>1. n - 1 \in Nat /\ ~(n <= n - 1)
        BY <1>4
    <2>2. PICK g : Grown(g, first, known, n - 1)
        BY <1>2, <2>1
    <2> DEFINE h == [m \in 0..n |->
                        IF m = 0 THEN first
                        ELSE g[m - 1] \cup UNION {Children(t, known) : t \in g[m - 1]}]
    <2>3. \A m \in 0..(n - 1) : h[m] = g[m]
        <3> SUFFICES ASSUME NEW m \in 0..(n - 1) PROVE h[m] = g[m]
            OBVIOUS
        <3>1. g[m] = IF m = 0 THEN first
                     ELSE g[m - 1] \cup UNION {Children(t, known) : t \in g[m - 1]}
            BY <2>2, Zenon DEF Grown
        <3>2. m \in 0..n
            BY <2>1
        <3> QED
            BY <3>1, <3>2, Zenon
    <2>4. \A m \in 0..n : m # 0 => h[m - 1] = g[m - 1]
        <3> SUFFICES ASSUME NEW m \in 0..n, m # 0 PROVE h[m - 1] = g[m - 1]
            OBVIOUS
        <3>1. m - 1 \in 0..(n - 1)
            BY <2>1
        <3> HIDE DEF h
        <3> QED
            BY <2>3, <3>1
    <2>5. h = [m \in 0..n |->
                  IF m = 0 THEN first
                  ELSE h[m - 1] \cup UNION {Children(t, known) : t \in h[m - 1]}]
        <3> DEFINE k == [m \in 0..n |->
                            IF m = 0 THEN first
                            ELSE h[m - 1] \cup UNION {Children(t, known) : t \in h[m - 1]}]
        <3>1. \A m \in 0..n : h[m] = k[m]
            <4> SUFFICES ASSUME NEW m \in 0..n PROVE h[m] = k[m]
                OBVIOUS
            <4>1. CASE m = 0
                BY <4>1
            <4>2. CASE m # 0
                <5>1. h[m - 1] = g[m - 1]
                    <6> HIDE DEF h
                    <6> QED
                        BY <2>4, <4>2
                <5> DEFINE a == h[m - 1]
                <5>2. h[m] = g[m - 1] \cup UNION {Children(t, known) : t \in g[m - 1]}
                    BY <4>2
                <5>3. k[m] = a \cup UNION {Children(t, known) : t \in a}
                    BY <4>2
                <5> HIDE DEF h, k, a
                <5>4. a = g[m - 1]
                    BY <5>1 DEF a
                <5> QED
                    BY <5>2, <5>3, <5>4, Zenon
            <4> QED
                BY <4>1, <4>2
        <3>2. h = [m \in 0..n |-> h[m]] /\ k = [m \in 0..n |-> k[m]]
            OBVIOUS
        <3> HIDE DEF h, k
        <3>3. h = k
            BY <3>1, <3>2
        <3> QED
            BY <3>3 DEF k
    <2>6. Grown(h, first, known, n)
        BY <2>5 DEF Grown
    <2> QED
        BY <2>6
<1> QED
    BY <1>3, <1>4

\* Descendants is the last of these sets.
LEMMA DescendantsGrow ==
    ASSUME NEW first, NEW known, IsFiniteSet(known)
    PROVE  \E g : /\ Grown(g, first, known, Cardinality(known))
                  /\ Descendants(first, known) = g[Cardinality(known)]
<1>1. Cardinality(known) \in Nat
    BY FS_CardinalityType
<1>2. \E g : Grown(g, first, known, Cardinality(known))
    BY <1>1, GrownExists
<1> QED
    BY <1>2, Zenon DEF Descendants, Grown

\* One step of the growth.
LEMMA GrownStep ==
    ASSUME NEW first, NEW known, NEW N \in Nat, NEW g, Grown(g, first, known, N)
    PROVE  /\ g[0] = first
           /\ \A n \in 0..N : n # 0 => /\ n - 1 \in 0..N
                                       /\ g[n] = g[n - 1]
                                              \cup UNION {Children(t, known) : t \in g[n - 1]}
<1>1. \A n \in 0..N : g[n] = IF n = 0 THEN first
                             ELSE g[n - 1] \cup UNION {Children(t, known) : t \in g[n - 1]}
    BY Zenon DEF Grown
<1>2. 0 \in 0..N /\ \A n \in 0..N : n # 0 => n - 1 \in 0..N
    OBVIOUS
<1>3. g[0] = first
    BY <1>1, <1>2
<1> QED
    BY <1>1, <1>2, <1>3, Zenon

\* Nothing leaves a set that the first are in and that keeps the children.
LEMMA GrowthStaysIn ==
    ASSUME NEW first, NEW known, NEW N \in Nat, NEW g, Grown(g, first, known, N),
           NEW F, first \subseteq F, \A t \in F : Children(t, known) \subseteq F,
           NEW n \in 0..N
    PROVE  g[n] \subseteq F
<1> DEFINE Bad == {m \in 0..N : ~(g[m] \subseteq F)}
<1>1. SUFFICES ASSUME Bad # {} PROVE FALSE
    OBVIOUS
<1>2. PICK m \in Bad : \A k \in Bad : m <= k
    <2>1. Bad \in SUBSET Nat
        OBVIOUS
    <2> HIDE DEF Bad
    <2> QED
        BY <1>1, <2>1, LeastExists
<1>3. m # 0
    <2>1. g[0] \subseteq F
        BY GrownStep
    <2> QED
        BY <2>1
<1>4. m - 1 \in 0..N /\ ~(m <= m - 1)
    BY <1>3
<1>5. g[m - 1] \subseteq F
    BY <1>2, <1>4
<1>6. g[m] = g[m - 1] \cup UNION {Children(t, known) : t \in g[m - 1]}
    BY <1>3, GrownStep
<1>7. UNION {Children(t, known) : t \in g[m - 1]} \subseteq F
    BY <1>5
<1>8. g[m] \subseteq F
    BY <1>5, <1>6, <1>7, Zenon
<1> QED
    BY <1>8

\* The growth only adds.
LEMMA GrowthAdds ==
    ASSUME NEW first, NEW known, NEW N \in Nat, NEW g, Grown(g, first, known, N),
           NEW n \in 0..N, NEW k \in 0..N, n <= k
    PROVE  g[n] \subseteq g[k]
<1> DEFINE Bad == {m \in 0..N : n <= m /\ ~(g[n] \subseteq g[m])}
<1>1. SUFFICES ASSUME Bad # {} PROVE FALSE
    OBVIOUS
<1>2. PICK m \in Bad : \A j \in Bad : m <= j
    <2>1. Bad \in SUBSET Nat
        OBVIOUS
    <2> HIDE DEF Bad
    <2> QED
        BY <1>1, <2>1, LeastExists
<1>3. m # n /\ m # 0
    OBVIOUS
<1>4. m - 1 \in 0..N /\ n <= m - 1 /\ ~(m <= m - 1)
    BY <1>3
<1>5. g[n] \subseteq g[m - 1]
    BY <1>2, <1>4
<1>6. g[m - 1] \subseteq g[m]
    <2>1. g[m] = g[m - 1] \cup UNION {Children(t, known) : t \in g[m - 1]}
        BY <1>3, GrownStep
    <2> QED
        BY <2>1, Zenon
<1> QED
    BY <1>5, <1>6

\* What goes is the least set with the first in it that keeps the children.
LEMMA DescendantsStayIn ==
    ASSUME NEW first, NEW known, IsFiniteSet(known),
           NEW F, first \subseteq F, \A t \in F : Children(t, known) \subseteq F
    PROVE  Descendants(first, known) \subseteq F
<1> DEFINE N == Cardinality(known)
<1>1. N \in Nat
    BY FS_CardinalityType
<1>2. PICK g : Grown(g, first, known, N) /\ Descendants(first, known) = g[N]
    BY DescendantsGrow
<1> HIDE DEF N
<1>3. N \in 0..N
    BY <1>1
<1>4. g[N] \subseteq F
    BY <1>1, <1>2, <1>3, GrowthStaysIn
<1> QED
    BY <1>2, <1>4 DEF N

\* As many steps as there are transactions are enough: the set keeps the children.
LEMMA DescendantsAreClosed ==
    ASSUME NEW known, IsFiniteSet(known), NEW first \in SUBSET known
    PROVE  LET gone == Descendants(first, known)
           IN  /\ first \subseteq gone /\ gone \subseteq known
               /\ \A t \in gone : Children(t, known) \subseteq gone
<1> DEFINE N == Cardinality(known)
           gone == Descendants(first, known)
<1>1. N \in Nat
    BY FS_CardinalityType
<1>2. PICK g : Grown(g, first, known, N) /\ gone = g[N]
    BY DescendantsGrow
<1>3. \A t \in known : Children(t, known) \subseteq known
    BY DEF Children
<1>4. \A n \in 0..N : g[n] \subseteq known
    <2> HIDE DEF N
    <2> QED
        BY <1>1, <1>2, <1>3, GrowthStaysIn
<1>5. first \subseteq gone /\ gone \subseteq known
    <2>1. g[0] = first /\ 0 \in 0..N /\ N \in 0..N /\ 0 <= N
        BY <1>1, <1>2, GrownStep
    <2>2. g[0] \subseteq g[N]
        <3> HIDE DEF N
        <3> QED
            BY <1>1, <1>2, <2>1, GrowthAdds
    <2> QED
        BY <1>2, <1>4, <2>1, <2>2
<1>6. ASSUME NEW n \in 0..N, n # 0, g[n] = g[n - 1]
      PROVE  \A t \in gone : Children(t, known) \subseteq gone
    <2> DEFINE stop == g[n - 1]
    <2>1. g[n] = stop \cup UNION {Children(t, known) : t \in stop} /\ n - 1 \in 0..N
        BY <1>1, <1>2, <1>6, GrownStep
    <2>2. \A t \in stop : Children(t, known) \subseteq stop
        <3>1. stop = stop \cup UNION {Children(t, known) : t \in stop}
            BY <1>6, <2>1
        <3> HIDE DEF stop
        <3>2. UNION {Children(t, known) : t \in stop} \subseteq stop
            BY <3>1, Zenon
        <3> QED
            BY <3>2
    <2>3. first \subseteq stop /\ stop \subseteq gone
        <3>1. g[0] = first
            BY <1>1, <1>2, GrownStep
        <3> HIDE DEF N, stop
        <3>2. 0 \in 0..N /\ N \in 0..N /\ 0 <= n - 1 /\ n - 1 <= N
            BY <1>1, <2>1
        <3>3. n - 1 \in 0..N
            BY <2>1
        <3>4. g[0] \subseteq g[n - 1]
            BY <1>1, <1>2, <3>2, <3>3, GrowthAdds
        <3>5. g[n - 1] \subseteq g[N]
            BY <1>1, <1>2, <3>2, <3>3, GrowthAdds
        <3> QED
            BY <1>2, <3>1, <3>4, <3>5 DEF stop
    <2>4. gone \subseteq stop
        <3> HIDE DEF stop
        <3> QED
            BY <2>2, <2>3, DescendantsStayIn
    <2>5. gone = stop
        BY <2>3, <2>4
    <2> HIDE DEF gone, stop
    <2> QED
        BY <2>2, <2>5
<1>7. ASSUME \A n \in 0..N : n # 0 => g[n] # g[n - 1], first # {}
      PROVE  FALSE
    <2> DEFINE Bad == {n \in 0..N : ~(Cardinality(g[n]) >= n + 1)}
    <2>1. \A n \in 0..N : IsFiniteSet(g[n]) /\ Cardinality(g[n]) \in Nat
        BY <1>4, FS_Subset, FS_CardinalityType
    <2>2. Bad = {}
        <3>1. SUFFICES ASSUME Bad # {} PROVE FALSE
            OBVIOUS
        <3>2. PICK n \in Bad : \A m \in Bad : n <= m
            <4>1. Bad \in SUBSET Nat
                BY <1>1
            <4> HIDE DEF Bad
            <4> QED
                BY <3>1, <4>1, LeastExists
        <3>3. CASE n = 0
            <4>1. g[0] = first /\ IsFiniteSet(g[0]) /\ Cardinality(g[0]) \in Nat
                BY <1>1, <1>2, <2>1, <3>3, GrownStep
            <4>2. Cardinality(g[0]) # 0
                BY <1>7, <4>1, FS_EmptySet
            <4> QED
                BY <3>3, <4>1, <4>2
        <3>4. CASE n # 0
            <4>1. n - 1 \in 0..N /\ ~(n <= n - 1) /\ n \in 0..N
                BY <1>1, <3>4
            <4>2. Cardinality(g[n - 1]) >= n
                BY <3>2, <4>1
            <4>3. g[n - 1] \subseteq g[n] /\ g[n - 1] # g[n]
                <5>1. g[n] = g[n - 1] \cup UNION {Children(t, known) : t \in g[n - 1]}
                    <6> HIDE DEF Bad, N
                    <6> QED
                        BY <1>1, <1>2, <3>4, <4>1, GrownStep
                <5>2. g[n - 1] \subseteq g[n]
                    BY <5>1, Zenon
                <5> QED
                    BY <1>7, <3>4, <4>1, <5>2
            <4>4. /\ Cardinality(g[n - 1]) <= Cardinality(g[n])
                  /\ Cardinality(g[n - 1]) # Cardinality(g[n])
                BY <2>1, <4>1, <4>3, FS_Subset
            <4>5. Cardinality(g[n - 1]) \in Nat /\ Cardinality(g[n]) \in Nat
                BY <2>1, <4>1
            <4> QED
                BY <4>1, <4>2, <4>4, <4>5
        <3> QED
            BY <3>3, <3>4
    <2>3. Cardinality(g[N]) >= N + 1
        BY <1>1, <2>2
    <2>4. Cardinality(g[N]) <= N /\ Cardinality(g[N]) \in Nat
        BY <1>1, <1>4, <2>1, FS_Subset
    <2> QED
        BY <1>1, <2>3, <2>4
<1>8. ASSUME first = {} PROVE gone = {}
    <2>1. first \subseteq {} /\ \A t \in {} : Children(t, known) \subseteq {}
        BY <1>8
    <2> HIDE DEF gone
    <2>2. Descendants(first, known) \subseteq {}
        BY <2>1, DescendantsStayIn
    <2> QED
        BY <2>2 DEF gone
<1>9. \A t \in gone : Children(t, known) \subseteq gone
    BY <1>6, <1>7, <1>8
<1> QED
    BY <1>5, <1>9

-----------------------------------------------------------------------------
(* The inductive invariant.  A transaction of the model is a deposit or a   *)
(* spend as the command signs it, so that its unsigned part decides it; the *)
(* set that Core knows is closed under parents; and a command remembers     *)
(* coins that nothing spent when it listed them.                            *)

\* The outputs of a transaction: finitely many, counted from 1, each an amount.
PaysAmounts(t) ==
    /\ IsFiniteSet(DOMAIN t.unsigned.outputs)
    /\ \A n \in DOMAIN t.unsigned.outputs :
           n # 0 /\ t.unsigned.outputs[n].value \in 1..U64Max

\* Every coin at the sequence and with the two keys of one path, and for the value
\* that its output has.
SignedOn(t, path) ==
    /\ t = [unsigned |-> t.unsigned, witness |-> t.witness]
    /\ t.unsigned.inputs = [o \in Inputs(t) |-> SequenceOf(TheVault, path)]
    /\ t.witness = [o \in Inputs(t) |-> [signers |-> LoadedKeys(path),
                                         value |-> Output(o).value]]

SpendsVault(t) ==
    /\ Inputs(t) # {}
    /\ \A o \in Inputs(t) : o.vout # 0 /\ Output(o).script = TheVault
    /\ \E path \in {"Primary", "Recovery"} : SignedOn(t, path)
    /\ PaysAmounts(t)

Modelled(t) == t \in Deposits \/ SpendsVault(t)

\* Every coin of the model that a transaction spends was created by another.
HasParents(txs) ==
    \A u \in txs : \A o \in Inputs(u) : o.vout # 0 => \E t \in txs : o \in Creates(t)

ChainInv ==
    /\ IsFiniteSet(Known)
    /\ \A t \in Known : Modelled(t) /\ depth[t] \in 0..MaxDepth
    /\ HasParents(Known)

\* A listing of coins that nothing known at the time spends.
ListingOk(listing, known) ==
    /\ IsFiniteSet(DOMAIN listing)
    /\ \A o \in DOMAIN listing :
           /\ listing[o] \in [value : 1..U64Max, script : {TheVault},
                              spendable_primary : {TRUE}, spendable_recovery : BOOLEAN]
           /\ listing[o].value = Output(o).value
           /\ Output(o).script = TheVault /\ o.vout # 0
           /\ \A u \in known : o \notin Inputs(u)

\* What a command holds: its stage, its request, its listing, what it signed, and
\* what Core knew when it listed.
CommandOk(stage, ask, listing, tx, known) ==
    /\ stage = "idle" => known = {}
    /\ \A t \in known : Modelled(t)
    /\ HasParents(known)
    /\ IF stage = "listed"
       THEN ask \in SpendRequest /\ ListingOk(listing, known)
       ELSE ask = None /\ listing = None
    /\ IF stage \in {"validated", "accepted"}
       THEN /\ SpendsVault(tx)
            /\ \A u \in known : Inputs(tx) \cap Inputs(u) = {}
       ELSE tx = None

CommandInv ==
    /\ at \in [Procs -> {"idle", "listed", "validated", "accepted"}]
    /\ DOMAIN req = Procs /\ DOMAIN utxos = Procs /\ DOMAIN signed = Procs /\ DOMAIN seen = Procs
    /\ \A p \in Procs : CommandOk(at[p], req[p], utxos[p], signed[p], seen[p])

SpendInv ==
    /\ ChainInv /\ CommandInv
    /\ present \subseteq Roles /\ trouble \in 0..MaxTrouble

\* The delay is a positive 16-bit number: the recovery sequence is the delay itself.
LEMMA DelayFits ==
    /\ TheVault.csv_blocks \in Nat /\ TheVault.csv_blocks > 0
    /\ SequenceOf(TheVault, "Recovery") = TheVault.csv_blocks
    /\ SequenceOf(TheVault, "Primary") = RbfNoLocktime
    /\ SequenceOf(TheVault, "Recovery") # RbfNoLocktime
    /\ MaxDepth \in Nat /\ MaxDepth > 0
<1> DEFINE csv == TheVault.csv_blocks
<1>1. csv \in CsvRange
    BY VaultAssumption, Zenon DEF MeetsNetwork, DescriptorAccepted
<1>2. csv \in Nat /\ csv > 0 /\ csv < 65536
    <2> HIDE DEF csv
    <2> QED
        BY <1>1 DEF CsvRange
<1>3. csv % 65536 = csv
    <2> HIDE DEF csv
    <2> QED
        BY <1>2
<1>4. MaxDepth = csv + MaxTrouble
    BY DEF MaxDepth
<1>5. /\ SequenceOf(TheVault, "Recovery") = csv % 65536
      /\ SequenceOf(TheVault, "Primary") = RbfNoLocktime
    BY DEF SequenceOf
<1>6. MaxTrouble \in Nat
    BY RequestsAssumption
<1>7. csv # RbfNoLocktime
    <2> HIDE DEF csv
    <2> QED
        BY <1>2 DEF RbfNoLocktime
<1>8. MaxDepth \in Nat /\ MaxDepth > 0
    <2> HIDE DEF csv
    <2> QED
        BY <1>2, <1>4, <1>6
<1> QED
    BY <1>2, <1>3, <1>5, <1>7, <1>8

\* Whatever the model holds pays amounts.
LEMMA ModelledPays == \A t : Modelled(t) => PaysAmounts(t)
BY DepositsAssumption DEF Modelled, SpendsVault, PaysAmounts

\* The unsigned part decides a transaction, as a txid does with segregated witnesses.
LEMMA UnsignedIsUnique ==
    ASSUME NEW t, NEW u, Modelled(t), Modelled(u), t.unsigned = u.unsigned
    PROVE  t = u
<1>1. Inputs(t) = Inputs(u)
    BY DEF Inputs
<1>2. CASE t \in Deposits /\ u \in Deposits
    BY <1>2, DepositsAssumption
<1>3. ASSUME NEW d \in Deposits, NEW s, SpendsVault(s), Inputs(d) = Inputs(s) PROVE FALSE
    BY <1>3, DepositsAssumption DEF SpendsVault, Inputs
<1>4. CASE SpendsVault(t) /\ SpendsVault(u)
    <2>1. PICK path \in {"Primary", "Recovery"} : SignedOn(t, path)
        BY <1>4 DEF SpendsVault
    <2>2. PICK other \in {"Primary", "Recovery"} : SignedOn(u, other)
        BY <1>4 DEF SpendsVault
    <2>3. PICK o : o \in Inputs(t)
        BY <1>4 DEF SpendsVault
    <2>4. t.unsigned.inputs[o] = SequenceOf(TheVault, path)
        BY <2>1, <2>3 DEF SignedOn
    <2>5. u.unsigned.inputs[o] = SequenceOf(TheVault, other)
        BY <1>1, <2>2, <2>3 DEF SignedOn
    <2>6. path = other
        <3>1. SequenceOf(TheVault, path) = SequenceOf(TheVault, other)
            BY <2>4, <2>5
        <3>2. SequenceOf(TheVault, "Recovery") # SequenceOf(TheVault, "Primary")
            BY DelayFits
        <3>3. CASE path = "Primary" /\ other = "Recovery"
            BY <3>1, <3>2, <3>3
        <3>4. CASE path = "Recovery" /\ other = "Primary"
            BY <3>1, <3>2, <3>4
        <3> QED
            BY <3>3, <3>4
    <2>7. t.witness = u.witness
        BY <1>1, <2>1, <2>2, <2>6, Zenon DEF SignedOn
    <2> QED
        BY <2>1, <2>2, <2>7, Zenon DEF SignedOn
<1> QED
    BY <1>1, <1>2, <1>3, <1>4 DEF Modelled

\* The signatures of a path are those of its two keys.
LEMMA PathKeys ==
    ASSUME NEW path
    PROVE  LoadedKeys(path) \cap {TheVault.keys[r] : r \in Roles} = LoadedKeys(path)
BY DEF LoadedKeys, KeyRoles, Roles

\* A coin that Core knows has a creator that it knows.
LEMMA CreatorIsKnown ==
    ASSUME NEW o \in Coins
    PROVE  /\ Creator(o) \in Known /\ Creator(o).unsigned = o.txid
           /\ o = [txid |-> o.txid, vout |-> o.vout]
           /\ o.vout \in DOMAIN o.txid.outputs
<1>1. PICK t \in Known : \E n \in DOMAIN t.unsigned.outputs : o = Coin(t, n)
    BY DEF Coins, Creates
<1>2. PICK n \in DOMAIN t.unsigned.outputs : o = Coin(t, n)
    BY <1>1
<1>3. /\ o.txid = t.unsigned /\ o.vout = n
      /\ o = [txid |-> o.txid, vout |-> o.vout]
    BY <1>2 DEF Coin
<1>4. Creator(o) \in Known /\ Creator(o).unsigned = o.txid
    BY <1>3, Zenon DEF Creator
<1> QED
    BY <1>2, <1>3, <1>4

\* What list_utxos returns at any moment is a proper listing of unspent coins.
LEMMA ListingIsOk == ChainInv => ListingOk(list_utxos, Known)
<1> SUFFICES ASSUME ChainInv PROVE ListingOk(list_utxos, Known)
    OBVIOUS
<1>1. IsFiniteSet(Coins)
    <2>1. ASSUME NEW t \in Known PROVE IsFiniteSet(Creates(t))
        <3>1. IsFiniteSet(DOMAIN t.unsigned.outputs)
            BY ModelledPays DEF ChainInv, PaysAmounts
        <3> DEFINE g == [n \in DOMAIN t.unsigned.outputs |-> Coin(t, n)]
        <3>2. IsFiniteSet({g[n] : n \in DOMAIN t.unsigned.outputs})
            <4> HIDE DEF g
            <4> QED
                BY <3>1, ImageIsFinite
        <3>3. {g[n] : n \in DOMAIN t.unsigned.outputs} = Creates(t)
            BY DEF Creates
        <3> QED
            BY <3>2, <3>3
    <2> DEFINE created == [t \in Known |-> Creates(t)]
    <2>2. IsFiniteSet({created[t] : t \in Known})
        <3> HIDE DEF created
        <3> QED
            BY ImageIsFinite DEF ChainInv
    <2>3. \A S \in {created[t] : t \in Known} : IsFiniteSet(S)
        BY <2>1
    <2>4. Coins = UNION {created[t] : t \in Known}
        BY DEF Coins
    <2> HIDE DEF created
    <2> QED
        BY <2>2, <2>3, <2>4, FS_UNION
<1>2. DOMAIN list_utxos = Unspent
    BY DEF list_utxos
<1>3. Unspent \subseteq Coins
    BY DEF Unspent
<1>4. IsFiniteSet(DOMAIN list_utxos)
    BY <1>1, <1>2, <1>3, FS_Subset
<1>5. ASSUME NEW o \in Unspent
      PROVE  /\ list_utxos[o] \in [value : 1..U64Max, script : {TheVault},
                                   spendable_primary : {TRUE}, spendable_recovery : BOOLEAN]
             /\ list_utxos[o].value = Output(o).value
             /\ Output(o).script = TheVault /\ o.vout # 0
             /\ \A u \in Known : o \notin Inputs(u)
    <2>1. list_utxos[o] = Listed(o, depth[Creator(o)])
        BY DEF list_utxos
    <2>2. /\ Creator(o) \in Known /\ Creator(o).unsigned = o.txid
          /\ o.vout \in DOMAIN o.txid.outputs
        BY <1>3, CreatorIsKnown
    <2>3. depth[Creator(o)] \in 0..MaxDepth /\ PaysAmounts(Creator(o))
        BY <2>2, ModelledPays DEF ChainInv
    <2>4. Output(o).value \in 1..U64Max /\ o.vout # 0
        BY <2>2, <2>3 DEF PaysAmounts, Output
    <2>5. Output(o).script = TheVault /\ \A u \in Known : o \notin Inputs(u)
        BY DEF Unspent
    <2> QED
        BY <2>1, <2>3, <2>4, <2>5 DEF Listed
<1> QED
    BY <1>2, <1>4, <1>5 DEF ListingOk

\* The operator recovers an amount that fits a u64.
LEMMA SweepsAreRequests == Sweeps \subseteq SpendRequest
<1> SUFFICES ASSUME NEW c, TotalIn(list_utxos, c) \in SweepFee..U64Max
             PROVE  [destination |-> Recipient, path |-> "Recovery", fee_sats |-> SweepFee,
                     amount_sats |-> TotalIn(list_utxos, c) - SweepFee] \in SpendRequest
    BY DEF Sweeps
<1> QED
    BY RequestsAssumption, SpendLimits DEF SpendRequest

\* What the builder returns for a process, and with which keys.
LEMMA BuildsForPath ==
    ASSUME CommandInv, NEW p \in Procs, at[p] = "listed", NEW built \in Builds(p)
    PROVE  /\ req[p] \in SpendRequest /\ ListingOk(utxos[p], seen[p])
           /\ built \in build_and_sign(TheVault, Network, utxos[p], req[p],
                                       LoadedKeys(req[p].path))
<1>1. req[p] \in SpendRequest /\ ListingOk(utxos[p], seen[p])
    BY DEF CommandInv, CommandOk
<1>2. req[p].path \in {"Primary", "Recovery"}
    BY <1>1 DEF SpendRequest
<1>3. req[p].path = "Recovery" => [req[p] EXCEPT !.path = "Recovery"] = req[p]
    BY <1>1 DEF SpendRequest
<1> QED
    BY <1>1, <1>2, <1>3 DEF Builds, sign_recovery_with_keys

\* What the builder returns spends coins of the listing as the model says.
LEMMA BuiltSpendsVault ==
    ASSUME NEW listing, NEW known, ListingOk(listing, known), NEW ask \in SpendRequest,
           NEW built \in build_and_sign(TheVault, Network, listing, ask, LoadedKeys(ask.path))
    PROVE  SpendsVault(built.tx) /\ Inputs(built.tx) \subseteq DOMAIN listing
<1> DEFINE keys == LoadedKeys(ask.path)
<1>1. built \in build_and_sign(TheVault, Network, listing, ask, keys)
    OBVIOUS
<1> HIDE DEF keys
<1>2. PICK coins \in select_coins(listing, Need(ask), ask.path) :
          built = BuiltSpend(TheVault, listing, coins, ask, keys)
    BY <1>1 DEF build_and_sign
<1>3. RequestAccepted(TheVault, Network, ask)
    BY <1>1 DEF build_and_sign
<1>4. /\ ask.amount_sats \in 1..U64Max /\ ask.fee_sats \in Nat /\ Need(ask) \in Nat
      /\ ask.path \in {"Primary", "Recovery"}
    BY <1>3, SpendLimits DEF SpendRequest, RequestAccepted, Need
<1>5. /\ coins \subseteq Candidates(listing, ask.path)
      /\ coins # {}
      /\ TotalIn(listing, coins) \in Nat
      /\ TotalIn(listing, coins) \in Need(ask)..U64Max
    BY <1>4, SelectionCovers
<1> DEFINE change == Change(listing, coins, ask)
           raw == Unsigned(TheVault, listing, coins, ask)
           tx == built.tx
<1>6. change \in 0..U64Max
    BY <1>4, <1>5, SpendLimits DEF Change
<1>7. /\ raw.inputs = [o \in coins |-> SequenceOf(TheVault, ask.path)]
      /\ raw.outputs = Outputs(TheVault, ask, change)
    BY DEF Unsigned
<1>8. tx = [unsigned |-> raw,
            witness |-> [o \in DOMAIN raw.inputs |-> Witness(TheVault, listing, o, keys)]]
    BY <1>2 DEF BuiltSpend, Signed
<1> HIDE DEF raw, change
<1>9. tx.unsigned = raw /\ Inputs(tx) = coins
    BY <1>7, <1>8 DEF Inputs
<1>10. coins \subseteq DOMAIN listing
    BY <1>5 DEF Candidates
<1>11. \A o \in coins : /\ o.vout # 0 /\ Output(o).script = TheVault
                        /\ listing[o].value = Output(o).value
    BY <1>10 DEF ListingOk
<1>12. SignedOn(tx, ask.path)
    <2>1. \A o \in coins : Witness(TheVault, listing, o, keys) =
                               [signers |-> LoadedKeys(ask.path), value |-> Output(o).value]
        <3> SUFFICES ASSUME NEW o \in coins
                     PROVE  Witness(TheVault, listing, o, keys) =
                               [signers |-> LoadedKeys(ask.path), value |-> Output(o).value]
            OBVIOUS
        <3>1. keys \cap {TheVault.keys[r] : r \in Roles} = LoadedKeys(ask.path)
            BY PathKeys DEF keys
        <3>2. listing[o].value = Output(o).value
            BY <1>11
        <3> QED
            BY <3>1, <3>2, Zenon DEF Witness
    <2>2. tx.witness = [o \in coins |-> Witness(TheVault, listing, o, keys)]
        BY <1>7, <1>8
    <2>3. tx.witness = [o \in coins |-> [signers |-> LoadedKeys(ask.path),
                                         value |-> Output(o).value]]
        BY <2>1, <2>2
    <2>4. tx = [unsigned |-> tx.unsigned, witness |-> tx.witness]
        BY <1>8
    <2> QED
        BY <1>7, <1>9, <2>3, <2>4 DEF SignedOn
<1>13. PaysAmounts(tx)
    <2>1. IsFiniteSet({1}) /\ IsFiniteSet({1} \cup {2})
        BY FS_Singleton, FS_AddElement
    <2>2. CASE change > 0
        <3>1. raw.outputs = <<Pay(ask.amount_sats, ask.destination.script), Pay(change, TheVault)>>
            BY <1>7, <2>2 DEF Outputs
        <3>2. /\ DOMAIN raw.outputs = {1} \cup {2}
              /\ raw.outputs[1].value = ask.amount_sats /\ raw.outputs[2].value = change
            BY <3>1 DEF Pay
        <3> QED
            BY <1>4, <1>6, <1>9, <2>1, <2>2, <3>2 DEF PaysAmounts
    <2>3. CASE ~(change > 0)
        <3>1. raw.outputs = <<Pay(ask.amount_sats, ask.destination.script)>>
            BY <1>7, <2>3 DEF Outputs
        <3>2. DOMAIN raw.outputs = {1} /\ raw.outputs[1].value = ask.amount_sats
            BY <3>1 DEF Pay
        <3> QED
            BY <1>4, <1>9, <2>1, <3>2 DEF PaysAmounts
    <2> QED
        BY <2>2, <2>3
<1> QED
    BY <1>4, <1>5, <1>9, <1>10, <1>11, <1>12, <1>13 DEF SpendsVault

-----------------------------------------------------------------------------
(* Every step keeps the invariant. *)

\* Nothing runs at first, and Core knows the deposits.
LEMMA InitSpend == Init => SpendInv
<1> SUFFICES ASSUME Init PROVE SpendInv
    OBVIOUS
<1>1. Known = Deposits /\ \A t \in Known : depth[t] = 0
    BY DEF Init, Known
<1>2. ChainInv
    <2>1. HasParents(Deposits)
        BY DepositsAssumption DEF HasParents, Inputs
    <2> QED
        BY <1>1, <2>1, DelayFits, DepositsAssumption DEF ChainInv, Modelled
<1>3. CommandOk("idle", None, None, None, {})
    BY DEF CommandOk, HasParents
<1>4. CommandInv
    BY <1>3 DEF Init, CommandInv
<1> QED
    BY <1>2, <1>4, RequestsAssumption DEF Init, SpendInv

\* A process that ends forgets everything, and the others go on.
LEMMA EndKeeps == ASSUME CommandInv, NEW p \in Procs, End(p) PROVE CommandInv'
<1>1. CommandOk("idle", None, None, None, {})
    BY DEF CommandOk, HasParents
<1>2. ASSUME NEW q \in Procs
      PROVE  CommandOk(at'[q], req'[q], utxos'[q], signed'[q], seen'[q])
    <2>1. CASE q = p
        <3>1. /\ at'[q] = "idle" /\ req'[q] = None /\ utxos'[q] = None /\ signed'[q] = None
              /\ seen'[q] = {}
            BY <2>1 DEF End, CommandInv
        <3> QED
            BY <1>1, <3>1
    <2>2. CASE q # p
        <3>1. /\ at'[q] = at[q] /\ req'[q] = req[q] /\ utxos'[q] = utxos[q]
              /\ signed'[q] = signed[q] /\ seen'[q] = seen[q]
            BY <2>2 DEF End, CommandInv
        <3> QED
            BY <3>1 DEF CommandInv
    <2> QED
        BY <2>1, <2>2
<1>3. /\ at' \in [Procs -> {"idle", "listed", "validated", "accepted"}]
      /\ DOMAIN req' = Procs /\ DOMAIN utxos' = Procs /\ DOMAIN signed' = Procs
      /\ DOMAIN seen' = Procs
    BY DEF End, CommandInv
<1> QED
    BY <1>2, <1>3 DEF CommandInv

\* A process that lists remembers coins that nothing spends yet.
LEMMA ListKeeps ==
    ASSUME ChainInv, CommandInv, NEW p \in Procs, NEW r \in SpendRequest, List(p, r)
    PROVE  CommandInv'
<1>1. CommandOk("listed", r, list_utxos, None, Known)
    <2>1. (\A t \in Known : Modelled(t)) /\ HasParents(Known)
        BY DEF ChainInv
    <2> QED
        BY <2>1, ListingIsOk DEF CommandOk
<1>2. ASSUME NEW q \in Procs
      PROVE  CommandOk(at'[q], req'[q], utxos'[q], signed'[q], seen'[q])
    <2>1. CASE q = p
        <3>1. at'[q] = "listed" /\ req'[q] = r /\ utxos'[q] = list_utxos /\ seen'[q] = Known
            BY <2>1 DEF List, CommandInv
        <3>2. CommandOk("idle", req[q], utxos[q], signed[q], seen[q])
            BY <2>1 DEF List, CommandInv
        <3>3. signed'[q] = None
            BY <3>2 DEF CommandOk, List
        <3> QED
            BY <1>1, <3>1, <3>3
    <2>2. CASE q # p
        <3>1. /\ at'[q] = at[q] /\ req'[q] = req[q] /\ utxos'[q] = utxos[q]
              /\ signed'[q] = signed[q] /\ seen'[q] = seen[q]
            BY <2>2 DEF List, CommandInv
        <3> QED
            BY <3>1 DEF CommandInv
    <2> QED
        BY <2>1, <2>2
<1>3. /\ at' \in [Procs -> {"idle", "listed", "validated", "accepted"}]
      /\ DOMAIN req' = Procs /\ DOMAIN utxos' = Procs /\ DOMAIN signed' = Procs
      /\ DOMAIN seen' = Procs
    BY DEF List, CommandInv
<1> QED
    BY <1>2, <1>3 DEF CommandInv

\* A process that builds holds a spend of the vault in place of the listing.
LEMMA BuildKeeps ==
    ASSUME CommandInv, NEW p \in Procs, Build(p)
    PROVE  CommandInv'
<1>1. at[p] = "listed"
    BY DEF Build
<1>2. PICK built \in Builds(p) : signed' = [signed EXCEPT ![p] = built.tx]
    BY DEF Build
<1>3. SpendsVault(built.tx) /\ Inputs(built.tx) \subseteq DOMAIN utxos[p]
    BY <1>1, BuildsForPath, BuiltSpendsVault
<1>4. CommandOk("listed", req[p], utxos[p], signed[p], seen[p])
    BY <1>1 DEF CommandInv
<1>5. CommandOk("validated", None, None, built.tx, seen[p])
    <2>1. \A u \in seen[p] : Inputs(built.tx) \cap Inputs(u) = {}
        BY <1>3, <1>4 DEF CommandOk, ListingOk
    <2> QED
        BY <1>3, <1>4, <2>1 DEF CommandOk
<1>6. ASSUME NEW q \in Procs
      PROVE  CommandOk(at'[q], req'[q], utxos'[q], signed'[q], seen'[q])
    <2>1. CASE q = p
        <3>1. /\ at'[q] = "validated" /\ req'[q] = None /\ utxos'[q] = None
              /\ signed'[q] = built.tx /\ seen'[q] = seen[p]
            BY <1>2, <2>1 DEF Build, CommandInv
        <3> QED
            BY <1>5, <3>1
    <2>2. CASE q # p
        <3>1. /\ at'[q] = at[q] /\ req'[q] = req[q] /\ utxos'[q] = utxos[q]
              /\ signed'[q] = signed[q] /\ seen'[q] = seen[q]
            BY <1>2, <2>2 DEF Build, CommandInv
        <3> QED
            BY <3>1 DEF CommandInv
    <2> QED
        BY <2>1, <2>2
<1>7. /\ at' \in [Procs -> {"idle", "listed", "validated", "accepted"}]
      /\ DOMAIN req' = Procs /\ DOMAIN utxos' = Procs /\ DOMAIN signed' = Procs
      /\ DOMAIN seen' = Procs
    BY <1>2 DEF Build, CommandInv
<1> QED
    BY <1>6, <1>7 DEF CommandInv

\* A spend that Core would take is held until it is sent.
LEMMA TestAcceptKeeps ==
    ASSUME CommandInv, NEW p \in Procs, TestAccept(p)
    PROVE  CommandInv'
<1>1. CASE CoreAccepts(signed[p])
    <2>1. at[p] = "validated"
        BY DEF TestAccept
    <2>2. at' = [at EXCEPT ![p] = "accepted"] /\ UNCHANGED <<req, utxos, signed, seen>>
        BY <1>1 DEF TestAccept
    <2>3. CommandOk("accepted", req[p], utxos[p], signed[p], seen[p])
        <3>1. CommandOk("validated", req[p], utxos[p], signed[p], seen[p])
            BY <2>1 DEF CommandInv
        <3> QED
            BY <3>1 DEF CommandOk
    <2>4. \A q \in Procs : CommandOk(at'[q], req'[q], utxos'[q], signed'[q], seen'[q])
        BY <2>2, <2>3 DEF CommandInv
    <2> QED
        BY <2>2, <2>4 DEF CommandInv
<1>2. CASE ~CoreAccepts(signed[p])
    BY <1>2, EndKeeps DEF TestAccept
<1> QED
    BY <1>1, <1>2

\* What the commands hold does not depend on anything else.
LEMMA CommandStays == ASSUME CommandInv, UNCHANGED command PROVE CommandInv'
BY DEF CommandInv, command

\* What leaves the mempool takes its children with it: parents stay known.
LEMMA ShrinkKeeps ==
    ASSUME ChainInv, NEW first \in SUBSET Known, NEW depths, DOMAIN depths = Known,
           \A t \in Known : depths[t] \in 0..MaxDepth,
           depth' = Without(depths, Descendants(first, Known))
    PROVE  ChainInv'
<1> DEFINE gone == Descendants(first, Known)
<1>1. /\ gone \subseteq Known
      /\ \A t \in gone : Children(t, Known) \subseteq gone
    BY DescendantsAreClosed DEF ChainInv
<1> HIDE DEF gone
<1>2. Known' = Known \ gone /\ \A t \in Known' : depth'[t] = depths[t]
    BY DEF Known, Without, gone
<1>3. IsFiniteSet(Known')
    <2>1. Known' \in SUBSET Known
        BY <1>2
    <2> QED
        BY <2>1, FS_Subset DEF ChainInv
<1>4. \A t \in Known' : Modelled(t) /\ depth'[t] \in 0..MaxDepth
    BY <1>2 DEF ChainInv
<1>5. HasParents(Known')
    <2> SUFFICES ASSUME NEW u \in Known', NEW o \in Inputs(u), o.vout # 0
                 PROVE  \E t \in Known' : o \in Creates(t)
        BY DEF HasParents
    <2>1. u \in Known /\ u \notin gone
        BY <1>2
    <2>2. PICK t \in Known : o \in Creates(t)
        BY <2>1 DEF ChainInv, HasParents
    <2>3. u \in Children(t, Known)
        BY <2>1, <2>2 DEF Children
    <2>4. t \notin gone
        BY <1>1, <2>1, <2>3
    <2> QED
        BY <1>2, <2>2, <2>4
<1> QED
    BY <1>3, <1>4, <1>5 DEF ChainInv

\* A spend that Core takes replaces a set that is closed under children: whatever
\* stays, and the spend itself, still has its parents.
LEMMA SendKeeps ==
    ASSUME ChainInv, CommandInv, NEW p \in Procs, Send(p)
    PROVE  ChainInv'
<1> DEFINE t == signed[p]
           first == Spenders(Inputs(t), Mempool \ {t})
           gone == Evicted(t)
<1>1. CASE ~CoreAccepts(t)
    <2>1. depth' = depth
        BY <1>1 DEF Send
    <2> QED
        BY <2>1 DEF ChainInv, Known
<1>2. CASE CoreAccepts(t)
    <2>1. depth' = [x \in (Known \ gone) \cup {t} |-> IF x \in Known THEN depth[x] ELSE 0]
        BY <1>2 DEF Send
    <2>2. /\ t \notin Known
          /\ Inputs(t) \subseteq UNION {Creates(u) : u \in Known \ gone}
        BY <1>2 DEF CoreAccepts
    <2>3. SpendsVault(t)
        <3>1. at[p] = "accepted"
            BY DEF Send
        <3>2. CommandOk("accepted", req[p], utxos[p], signed[p], seen[p])
            BY <3>1 DEF CommandInv
        <3> QED
            BY <3>2 DEF CommandOk
    <2>4. first \in SUBSET Known
        BY DEF Spenders, Mempool
    <2>5. /\ gone \subseteq Known
          /\ \A x \in gone : Children(x, Known) \subseteq gone
        <3> HIDE DEF first
        <3>1. gone = Descendants(first, Known)
            BY DEF Evicted, first
        <3> QED
            BY <2>4, <3>1, DescendantsAreClosed DEF ChainInv
    <2> HIDE DEF gone, t, first
    <2>6. /\ Known' = (Known \ gone) \cup {t}
          /\ \A x \in Known' : depth'[x] = IF x \in Known THEN depth[x] ELSE 0
        BY <2>1 DEF Known
    <2>7. IsFiniteSet(Known')
        <3>1. Known \ gone \in SUBSET Known
            OBVIOUS
        <3>2. IsFiniteSet(Known \ gone)
            BY <3>1, FS_Subset DEF ChainInv
        <3> QED
            BY <2>6, <3>2, FS_AddElement
    <2>8. \A x \in Known' : Modelled(x) /\ depth'[x] \in 0..MaxDepth
        BY <2>3, <2>6, DelayFits DEF ChainInv, Modelled
    <2>9. HasParents(Known')
        <3> SUFFICES ASSUME NEW u \in Known', NEW o \in Inputs(u), o.vout # 0
                     PROVE  \E x \in Known' : o \in Creates(x)
            BY DEF HasParents
        <3>1. CASE u = t
            BY <2>2, <2>6, <3>1
        <3>2. CASE u # t
            <4>1. u \in Known /\ u \notin gone
                BY <2>6, <3>2
            <4>2. PICK x \in Known : o \in Creates(x)
                BY <4>1 DEF ChainInv, HasParents
            <4>3. u \in Children(x, Known)
                BY <4>1, <4>2 DEF Children
            <4>4. x \notin gone
                BY <2>5, <4>1, <4>3
            <4> QED
                BY <2>6, <4>2, <4>4
        <3> QED
            BY <3>1, <3>2
    <2> QED
        BY <2>7, <2>8, <2>9 DEF ChainInv
<1> QED
    BY <1>1, <1>2

\* A block counts up to the bound and no further.
LEMMA MineKeeps ==
    ASSUME ChainInv, trouble \in 0..MaxTrouble, NEW mined, Mine(mined)
    PROVE  ChainInv'
<1>1. depth' = [t \in Known |->
                   IF depth[t] > 0
                   THEN IF depth[t] < MaxDepth - trouble THEN depth[t] + 1 ELSE depth[t]
                   ELSE IF t \in mined THEN 1 ELSE 0]
    BY DEF Mine
<1>2. Known' = Known
    BY <1>1 DEF Known
<1>3. \A t \in Known : depth'[t] \in 0..MaxDepth
    <2> SUFFICES ASSUME NEW t \in Known PROVE depth'[t] \in 0..MaxDepth
        OBVIOUS
    <2>1. depth[t] \in 0..MaxDepth
        BY DEF ChainInv
    <2> QED
        BY <1>1, <2>1, DelayFits, RequestsAssumption
<1> QED
    BY <1>2, <1>3 DEF ChainInv

\* A block that is disconnected counts down, and what is early goes with its children.
LEMMA DisconnectKeeps == ASSUME ChainInv, Disconnect PROVE ChainInv'
<1> DEFINE depths == [t \in Known |-> IF depth[t] > 0 THEN depth[t] - 1 ELSE 0]
           early == {t \in Known : depths[t] = 0 /\ ~\A o \in Inputs(t) \cap Coins :
                                       LockMet(t, o, depths)}
<1>1. depth' = Without(depths, Descendants(early, Known))
    BY DEF Disconnect
<1>2. DOMAIN depths = Known /\ \A t \in Known : depths[t] \in 0..MaxDepth
    <2> SUFFICES ASSUME NEW t \in Known PROVE depths[t] \in 0..MaxDepth
        OBVIOUS
    <2>1. depth[t] \in 0..MaxDepth
        BY DEF ChainInv
    <2> QED
        BY <2>1, DelayFits
<1>3. early \in SUBSET Known
    OBVIOUS
<1> HIDE DEF depths, early
<1> QED
    BY <1>1, <1>2, <1>3, ShrinkKeeps

\* No step of a command, of Core or of the operator breaks the invariant.
LEMMA NextSpend == SpendInv /\ [Next]_vars => SpendInv'
<1> SUFFICES ASSUME SpendInv, [Next]_vars PROVE SpendInv'
    OBVIOUS
<1>1. ChainInv /\ CommandInv /\ present \subseteq Roles /\ trouble \in 0..MaxTrouble
    BY DEF SpendInv
<1>2. UNCHANGED depth => ChainInv'
    BY <1>1 DEF ChainInv, Known
<1>3. ASSUME NEW p \in Procs, Step(p) PROVE SpendInv'
    <2>1. CASE Build(p)
        <3>1. UNCHANGED <<depth, present, trouble>>
            BY <2>1 DEF Build
        <3> QED
            BY <1>1, <1>2, <2>1, <3>1, BuildKeeps DEF SpendInv
    <2>2. CASE BuildFails(p)
        <3>1. End(p) /\ UNCHANGED <<depth, present, trouble>>
            BY <2>2 DEF BuildFails
        <3> QED
            BY <1>1, <1>2, <3>1, EndKeeps DEF SpendInv
    <2>3. CASE TestAccept(p)
        <3>1. UNCHANGED <<depth, present, trouble>>
            BY <2>3 DEF TestAccept
        <3> QED
            BY <1>1, <1>2, <2>3, <3>1, TestAcceptKeeps DEF SpendInv
    <2>4. CASE Send(p)
        <3>1. End(p) /\ UNCHANGED <<present, trouble>>
            BY <2>4 DEF Send
        <3> QED
            BY <1>1, <2>4, <3>1, EndKeeps, SendKeeps DEF SpendInv
    <2> QED
        BY <1>3, <2>1, <2>2, <2>3, <2>4 DEF Step
<1>4. ASSUME NEW p \in Procs, Recover(p) PROVE SpendInv'
    <2>1. PICK r \in Sweeps : List(p, r)
        BY <1>4 DEF Recover
    <2>2. r \in SpendRequest
        BY SweepsAreRequests
    <2>3. UNCHANGED <<depth, present, trouble>>
        BY <1>4, <2>1 DEF Recover, List
    <2> QED
        BY <1>1, <1>2, <2>1, <2>2, <2>3, ListKeeps DEF SpendInv
<1>5. ASSUME NEW mined, Mine(mined) PROVE SpendInv'
    <2>1. UNCHANGED command /\ UNCHANGED <<present, trouble>>
        BY <1>5 DEF Mine
    <2> QED
        BY <1>1, <1>5, <2>1, MineKeeps, CommandStays DEF SpendInv
<1>6. CASE Trouble
    <2>1. trouble' \in 0..MaxTrouble
        BY <1>1, <1>6, RequestsAssumption DEF Trouble
    <2>2. ASSUME NEW p \in Procs, Kill(p) \/ PrintOnly(p) PROVE SpendInv'
        <3>1. End(p) /\ UNCHANGED <<depth, present>>
            BY <2>2 DEF Kill, PrintOnly
        <3> QED
            BY <1>1, <1>2, <2>1, <3>1, EndKeeps DEF SpendInv
    <2>3. ASSUME NEW p \in Procs, NEW r \in Requests, List(p, r) PROVE SpendInv'
        <3>1. r \in SpendRequest
            BY RequestsAssumption
        <3>2. UNCHANGED <<depth, present>>
            BY <2>3 DEF List
        <3> QED
            BY <1>1, <1>2, <2>1, <2>3, <3>1, <3>2, ListKeeps DEF SpendInv
    <2>4. ASSUME NEW t \in Mempool \ Deposits, Drop(t) PROVE SpendInv'
        <3>1. depth' = Without(depth, Descendants({t}, Known)) /\ UNCHANGED <<present, command>>
            BY <2>4 DEF Drop
        <3>2. {t} \in SUBSET Known /\ DOMAIN depth = Known
            BY DEF Mempool, Known
        <3>3. \A u \in Known : depth[u] \in 0..MaxDepth
            BY <1>1 DEF ChainInv
        <3>4. ChainInv'
            BY <1>1, <3>1, <3>2, <3>3, ShrinkKeeps
        <3> QED
            BY <1>1, <2>1, <3>1, <3>4, CommandStays DEF SpendInv
    <2>5. CASE Disconnect
        <3>1. UNCHANGED <<present, command>>
            BY <2>5 DEF Disconnect
        <3> QED
            BY <1>1, <2>1, <2>5, <3>1, DisconnectKeeps, CommandStays DEF SpendInv
    <2>6. CASE LoseOverride
        <3>1. present' \subseteq present /\ UNCHANGED depth /\ UNCHANGED command
            BY <2>6 DEF LoseOverride
        <3> QED
            BY <1>1, <1>2, <2>1, <3>1, CommandStays DEF SpendInv
    <2> QED
        BY <1>6, <2>2, <2>3, <2>4, <2>5, <2>6 DEF Trouble
<1>7. CASE UNCHANGED vars
    <2>1. UNCHANGED <<depth, present, trouble>> /\ UNCHANGED command
        BY <1>7 DEF vars
    <2> QED
        BY <1>1, <1>2, <2>1, CommandStays DEF SpendInv
<1> QED
    BY <1>3, <1>4, <1>5, <1>6, <1>7 DEF Next

\* In every state of every behaviour the invariant holds.
THEOREM SpendInvariant == Spec => []SpendInv
BY InitSpend, NextSpend, PTL DEF Spec

-----------------------------------------------------------------------------
(* What the invariant gives. *)

\* Confirmations stay within their bound, requests and listings hold u64 amounts of
\* the vault, every input of what a command holds is signed, and a process that is
\* idle holds nothing (wallet.rs:134-160, spend.rs:81-218).
THEOREM SpendTypes == Spec => []TypeOK
<1>1. SpendInv => TypeOK
    <2> SUFFICES ASSUME SpendInv PROVE TypeOK
        OBVIOUS
    <2>1. ASSUME NEW t \in Known
          PROVE  /\ depth[t] \in 0..MaxDepth
                 /\ \A n \in DOMAIN t.unsigned.outputs :
                        t.unsigned.outputs[n].value \in 1..U64Max
        BY ModelledPays DEF SpendInv, ChainInv, PaysAmounts
    <2>2. ASSUME NEW p \in Procs
          PROVE  /\ IF at[p] = "listed"
                    THEN /\ req[p] \in SpendRequest
                         /\ \A o \in DOMAIN utxos[p] :
                                utxos[p][o] \in [value : 1..U64Max, script : {TheVault},
                                                 spendable_primary : {TRUE},
                                                 spendable_recovery : BOOLEAN]
                    ELSE req[p] = None /\ utxos[p] = None
                 /\ IF at[p] \in {"validated", "accepted"}
                    THEN DOMAIN signed[p].witness = Inputs(signed[p])
                    ELSE signed[p] = None
                 /\ seen[p] # {} => at[p] # "idle"
        <3>1. CommandOk(at[p], req[p], utxos[p], signed[p], seen[p])
            BY DEF SpendInv, CommandInv
        <3>2. SpendsVault(signed[p]) => DOMAIN signed[p].witness = Inputs(signed[p])
            <4> SUFFICES ASSUME SpendsVault(signed[p])
                         PROVE  DOMAIN signed[p].witness = Inputs(signed[p])
                OBVIOUS
            <4>1. PICK path : SignedOn(signed[p], path)
                BY DEF SpendsVault
            <4>2. signed[p].witness = [o \in Inputs(signed[p]) |->
                                          [signers |-> LoadedKeys(path), value |-> Output(o).value]]
                BY <4>1 DEF SignedOn
            <4> QED
                BY <4>2
        <3> QED
            BY <3>1, <3>2 DEF CommandOk, ListingOk
    <2> QED
        BY <2>1, <2>2 DEF TypeOK, SpendInv, CommandInv
<1> QED
    BY <1>1, SpendInvariant, PTL

\* In every state of every behaviour, what the builder can return for a process
\* passes the validator: the command never prints "does not match" for a spend
\* that it built (bin/tesaurus.rs:244-263).
THEOREM SpendNeverRefusesItself == Spec => []BuiltPassesValidation
<1>1. SpendInv => BuiltPassesValidation
    <2> SUFFICES ASSUME SpendInv, NEW p \in Procs, at[p] = "listed",
                        NEW built \in Builds(p)
                 PROVE  Valid(p, built)
        BY DEF BuiltPassesValidation
    <2>1. /\ req[p] \in SpendRequest /\ ListingOk(utxos[p], seen[p])
          /\ built \in build_and_sign(TheVault, Network, utxos[p], req[p],
                                      LoadedKeys(req[p].path))
        BY BuildsForPath DEF SpendInv
    <2>2. req[p].amount_sats \in Nat /\ req[p].fee_sats \in Nat
        BY <2>1, SpendLimits DEF SpendRequest
    <2>3. \A o \in DOMAIN utxos[p] : utxos[p][o].script = TheVault
        BY <2>1 DEF ListingOk
    <2> QED
        BY <2>1, <2>2, <2>3, BuilderPassesValidator DEF Valid
<1> QED
    BY <1>1, SpendInvariant, PTL

\* In every state of every behaviour, when some choice of the coins that a command
\* listed covers its need within the input limit, the command finds one too: an
\* exchange argument over the largest-first order (spend.rs:250-280).
THEOREM SelectionNeverMissesFunds == Spec => []SelectionFindsFunds
<1>1. SpendInv => SelectionFindsFunds
    <2> SUFFICES ASSUME SpendInv, NEW p \in Procs, at[p] = "listed",
                        RequestAccepted(TheVault, Network, req[p]),
                        TotalIn(utxos[p], DOMAIN utxos[p]) <= U64Max,
                        NEW coins \in SUBSET Candidates(utxos[p], req[p].path),
                        Cardinality(coins) <= MaxSelectedInputs,
                        TotalIn(utxos[p], coins) >= Need(req[p])
                 PROVE  select_coins(utxos[p], Need(req[p]), req[p].path) # {}
        BY DEF SelectionFindsFunds
    <2>1. CommandOk("listed", req[p], utxos[p], signed[p], seen[p])
        BY DEF SpendInv, CommandInv
    <2>2. req[p] \in SpendRequest /\ ListingOk(utxos[p], seen[p])
        BY <2>1 DEF CommandOk
    <2>3. IsFiniteSet(DOMAIN utxos[p]) /\ \A o \in DOMAIN utxos[p] : utxos[p][o].value \in Nat
        <3>1. \A o \in DOMAIN utxos[p] : utxos[p][o].value \in 1..U64Max
            BY <2>2 DEF ListingOk
        <3>2. \A n \in 1..U64Max : n \in Nat
            BY SpendLimits
        <3> QED
            BY <2>2, <3>1, <3>2, Zenon DEF ListingOk
    <2>4. Need(req[p]) \in Nat /\ Need(req[p]) > 0
        BY <2>2, SpendLimits DEF SpendRequest, RequestAccepted, Need
    <2> QED
        BY <2>3, <2>4, SelectionIsComplete
<1> QED
    BY <1>1, SpendInvariant, PTL

\* A spend whose coins are there, unspent and mature as its path asks, is one that Core
\* takes when it pays the relay fee.
LEMMA FreshIsAccepted ==
    ASSUME ChainInv, NEW t, SpendsVault(t), Fee(t) >= MinRelayRate * Size(t),
           \A o \in Inputs(t) :
               /\ o \in DOMAIN list_utxos
               /\ t.unsigned.inputs[o] # RbfNoLocktime => list_utxos[o].spendable_recovery
    PROVE  CoreAccepts(t)
<1>1. ChainInv /\ SpendsVault(t)
    OBVIOUS
<1>2. \A o \in Inputs(t) :
          /\ o \in Coins
          /\ \A u \in Known : o \notin Inputs(u)
          /\ t.unsigned.inputs[o] # RbfNoLocktime => depth[Creator(o)] >= TheVault.csv_blocks
    BY DEF list_utxos, Unspent, Listed
<1>3. t \notin Known
    BY <1>1, <1>2 DEF SpendsVault
<1>4. \A known \in SUBSET Known : Spenders(Inputs(t), known) = {}
    BY <1>2 DEF Spenders
<1>5. Evicted(t) = {}
    <2>1. Spenders(Inputs(t), Mempool \ {t}) = {}
        BY <1>4 DEF Mempool
    <2>2. Descendants({}, Known) \subseteq {}
        BY <1>1, DescendantsStayIn DEF ChainInv
    <2> QED
        BY <2>1, <2>2 DEF Evicted
<1>6. Inputs(t) \subseteq UNION {Creates(u) : u \in Known \ {}}
    BY <1>2 DEF Coins
<1>7. ASSUME NEW o \in Inputs(t) PROVE LockMet(t, o, depth) /\ ScriptMet(t, o)
    <2>1. PICK path \in {"Primary", "Recovery"} : SignedOn(t, path)
        BY <1>1 DEF SpendsVault
    <2>2. /\ t.unsigned.inputs[o] = SequenceOf(TheVault, path)
          /\ t.witness[o].signers = LoadedKeys(path)
          /\ t.witness[o].value = Output(o).value
        BY <2>1 DEF SignedOn
    <2>3. Output(o).script = TheVault
        BY <1>1 DEF SpendsVault
    <2>4. depth[Creator(o)] \in 0..MaxDepth
        BY <1>1, <1>2, CreatorIsKnown DEF ChainInv
    <2>5. CASE path = "Primary"
        <3>1. t.unsigned.inputs[o] = RbfNoLocktime
            BY <2>2, <2>5, DelayFits
        <3>2. LockMet(t, o, depth)
            BY <2>4, <3>1, DelayFits DEF LockMet, RbfNoLocktime
        <3>3. /\ TheVault.keys[Primary] \in t.witness[o].signers
              /\ TheVault.keys[Override] \in t.witness[o].signers
            BY <2>2, <2>5 DEF LoadedKeys, KeyRoles
        <3> QED
            BY <2>2, <2>3, <3>2, <3>3 DEF ScriptMet, Satisfied
    <2>6. CASE path = "Recovery"
        <3>1. t.unsigned.inputs[o] = TheVault.csv_blocks
            BY <2>2, <2>6, DelayFits
        <3>2. LockMet(t, o, depth)
            BY <1>2, <3>1, DelayFits DEF LockMet
        <3>3. /\ TheVault.keys[Primary] \in t.witness[o].signers
              /\ TheVault.keys[Agent] \in t.witness[o].signers
            BY <2>2, <2>6 DEF LoadedKeys, KeyRoles
        <3>4. t.unsigned.inputs[o] >= Output(o).script.csv_blocks
            BY <2>3, <3>1, DelayFits
        <3> QED
            BY <2>2, <2>3, <3>2, <3>3, <3>4 DEF ScriptMet, Satisfied
    <2> QED
        BY <2>5, <2>6
<1>8. Spenders(Inputs(t), Known \ Mempool) = {}
    BY <1>4
<1> QED
    BY <1>3, <1>5, <1>6, <1>7, <1>8 DEF CoreAccepts

\* In every state of every behaviour, a spend whose coins are still there and still
\* mature is one that Core takes, if it pays the relay fee: sequence, keys, values and
\* maturity of the listing are those of consensus (wallet.rs:134-160, spend.rs:142-218).
THEOREM FreshSpendGoesThrough == Spec => []FreshSpendIsAccepted
<1>1. SpendInv => FreshSpendIsAccepted
    <2> SUFFICES ASSUME SpendInv, NEW p \in Procs, at[p] \in {"validated", "accepted"},
                        Fee(signed[p]) >= MinRelayRate * Size(signed[p]),
                        \A o \in Inputs(signed[p]) :
                            /\ o \in DOMAIN list_utxos
                            /\ signed[p].unsigned.inputs[o] # RbfNoLocktime =>
                                   list_utxos[o].spendable_recovery
                 PROVE  CoreAccepts(signed[p])
        BY DEF FreshSpendIsAccepted
    <2>1. ChainInv /\ SpendsVault(signed[p])
        <3>1. CommandOk(at[p], req[p], utxos[p], signed[p], seen[p])
            BY DEF SpendInv, CommandInv
        <3> QED
            BY <3>1 DEF SpendInv, CommandOk
    <2> QED
        BY <2>1, FreshIsAccepted
<1> QED
    BY <1>1, SpendInvariant, PTL

\* In every step, what a spend pushes out of the mempool was unknown to Core when the
\* command listed its coins: what it knew then, and all that this builds on, spends
\* none of the coins and is no child of what goes (wallet.rs:134-160, spend.rs:449-473).
THEOREM NothingSeenIsReplaced == Spec => OnlyRacesReplace
<1> DEFINE Harmless ==
        \A p \in Procs : Send(p) => seen[p] \cap (DOMAIN depth \ DOMAIN depth') = {}
<1>1. SpendInv => Harmless
    <2> SUFFICES ASSUME SpendInv, NEW p \in Procs, Send(p)
                 PROVE  seen[p] \cap (DOMAIN depth \ DOMAIN depth') = {}
        OBVIOUS
    <2> DEFINE t == signed[p]
               first == Spenders(Inputs(t), Mempool \ {t})
               late == Known \ seen[p]
    <2>1. ChainInv /\ CommandOk("accepted", req[p], utxos[p], signed[p], seen[p])
        BY DEF SpendInv, CommandInv, Send
    <2>2. CASE ~CoreAccepts(t)
        BY <2>2 DEF Send
    <2>3. CASE CoreAccepts(t)
        <3>1. first \subseteq late
            BY <2>1 DEF CommandOk, Spenders, Mempool
        <3>2. ASSUME NEW x \in late PROVE Children(x, Known) \subseteq late
            <4> SUFFICES ASSUME NEW u \in Known, u \in seen[p],
                                NEW o \in Inputs(u), o \in Creates(x)
                         PROVE  FALSE
                BY DEF Children
            <4>1. Modelled(x) /\ PaysAmounts(x)
                BY <2>1, ModelledPays DEF ChainInv
            <4>2. PICK n \in DOMAIN x.unsigned.outputs : o = Coin(x, n)
                BY DEF Creates
            <4>3. o.vout # 0 /\ o.txid = x.unsigned
                BY <4>1, <4>2 DEF PaysAmounts, Coin
            <4>4. PICK y \in seen[p] : o \in Creates(y)
                BY <2>1, <4>3 DEF CommandOk, HasParents
            <4>5. o.txid = y.unsigned
                BY <4>4 DEF Creates, Coin
            <4>6. Modelled(y)
                BY <2>1 DEF CommandOk
            <4>7. x = y
                BY <4>1, <4>3, <4>5, <4>6, UnsignedIsUnique
            <4> QED
                BY <4>4, <4>7
        <3>3. Evicted(t) = Descendants(first, Known)
            BY DEF Evicted
        <3> HIDE DEF first, late
        <3>4. Evicted(t) \subseteq late
            BY <2>1, <3>1, <3>2, <3>3, DescendantsStayIn DEF ChainInv
        <3>5. DOMAIN depth' = (Known \ Evicted(t)) \cup {t}
            BY <2>3 DEF Send
        <3>6. DOMAIN depth \ DOMAIN depth' \subseteq Evicted(t)
            BY <3>5 DEF Known
        <3> QED
            BY <3>4, <3>6 DEF late
    <2> QED
        BY <2>2, <2>3
<1>2. SpendInv => [Harmless]_vars
    BY <1>1
<1>3. [][Harmless]_vars <=> OnlyRacesReplace
    BY DEF OnlyRacesReplace
<1> QED
    BY <1>2, <1>3, SpendInvariant, PTL

\* Listed for the vault's own recovery, the coins of a sweep are a selection that covers
\* it exactly: the builder leaves no change.
LEMMA SweepIsBuilt ==
    ASSUME ChainInv, NEW r \in Sweeps, RequestAccepted(TheVault, Network, r), FeeFits(SweepFee)
    PROVE  \E c \in SUBSET DOMAIN list_utxos :
               /\ c # {} /\ IsFiniteSet(c)
               /\ TotalIn(list_utxos, c) = Need(r) /\ Change(list_utxos, c, r) = 0
               /\ BuiltSpend(TheVault, list_utxos, c, r, LoadedKeys("Recovery"))
                      \in build_and_sign(TheVault, Network, list_utxos, r, LoadedKeys("Recovery"))
               /\ Cardinality(c) \in 1..MaxSelectedInputs
<1> DEFINE listing == list_utxos
           all == Candidates(listing, "Recovery")
           keys == LoadedKeys("Recovery")
<1>1. PICK c \in SUBSET all :
          /\ TotalIn(listing, c) \in SweepFee..U64Max
          /\ Cardinality(c) <= MaxSelectedInputs
          /\ LargestFirst(listing, "Recovery", c)
          /\ r = [destination |-> Recipient, path |-> "Recovery", fee_sats |-> SweepFee,
                  amount_sats |-> TotalIn(listing, c) - SweepFee]
    BY DEF Sweeps
<1>2. r \in SpendRequest
    BY SweepsAreRequests
<1>3. /\ IsFiniteSet(DOMAIN listing)
      /\ \A o \in DOMAIN listing : listing[o].value \in Nat /\ listing[o].value > 0
    <2>1. \A o \in DOMAIN listing : listing[o].value \in 1..U64Max
        BY ListingIsOk DEF ListingOk
    <2>2. \A n \in 1..U64Max : n \in Nat /\ n > 0
        BY SpendLimits
    <2> QED
        BY <2>1, <2>2, ListingIsOk DEF ListingOk
<1> HIDE DEF listing
<1>4. c \in SUBSET DOMAIN listing /\ TotalIn(listing, c) \in Nat /\ IsFiniteSet(c)
    <2>1. c \in SUBSET DOMAIN listing
        BY DEF Candidates
    <2> QED
        BY <1>3, <2>1, TotalIsSum
<1>5. Need(r) = TotalIn(listing, c) /\ TotalIn(listing, c) > 0
    BY <1>1, <1>4, RequestsAssumption DEF Need, RequestAccepted
<1>6. PICK last \in c :
          /\ LargestFirst(listing, "Recovery", c \ {last})
          /\ TotalIn(listing, c) = listing[last].value + TotalIn(listing, c \ {last})
    BY <1>1, <1>3, <1>5, SmallestIsLast
<1>7. TotalIn(listing, c \ {last}) < Need(r)
    <2>1. c \ {last} \in SUBSET DOMAIN listing
        BY <1>4
    <2>2. TotalIn(listing, c \ {last}) \in Nat
        BY <1>3, <2>1, TotalIsSum
    <2>3. listing[last].value \in Nat /\ listing[last].value > 0
        BY <1>3, <1>4
    <2> QED
        BY <1>5, <1>6, <2>2, <2>3
<1>8. c \in select_coins(listing, Need(r), "Recovery")
    <2>1. TotalIn(listing, c) \in Need(r)..U64Max
        BY <1>1, <1>4, <1>5
    <2> QED
        BY <1>1, <1>6, <1>7, <2>1 DEF select_coins
<1>9. Change(listing, c, r) = 0
    BY <1>4, <1>5 DEF Change
<1>10. Cardinality(c) \in 1..MaxSelectedInputs
    <2>1. Cardinality(c) \in Nat /\ Cardinality(c) # 0
        BY <1>4, <1>6, FS_CardinalityType, FS_EmptySet
    <2> QED
        BY <1>1, <2>1, SpendLimits
<1>11. FeeWithinRate(Unsigned(TheVault, listing, c, r), r)
    <2> DEFINE tx == Unsigned(TheVault, listing, c, r)
    <2>1. DOMAIN tx.inputs = c /\ tx.outputs = <<Pay(r.amount_sats, r.destination.script)>>
        BY <1>9 DEF Unsigned, Outputs
    <2>2. Len(tx.outputs) = 1
        BY <2>1
    <2>3. r.fee_sats = SweepFee
        BY <1>1
    <2>4. SweepFee <= VSize(Cardinality(c), 1) * MaxFeeRate
        BY <1>10 DEF FeeFits
    <2> HIDE DEF tx
    <2> QED
        BY <2>1, <2>2, <2>3, <2>4 DEF FeeWithinRate, tx
<1>12. Satisfied(TheVault, keys, TRUE)
    BY DEF Satisfied, LoadedKeys, KeyRoles
<1>13. r.path = "Recovery"
    BY <1>1
<1>14. BuiltSpend(TheVault, listing, c, r, keys)
           \in build_and_sign(TheVault, Network, listing, r, keys)
    <2>1. NotDust(Change(listing, c, r), TheVault)
        BY <1>9 DEF NotDust
    <2>2. c \in {d \in select_coins(listing, Need(r), r.path) :
                     /\ NotDust(Change(listing, d, r), TheVault)
                     /\ FeeWithinRate(Unsigned(TheVault, listing, d, r), r)}
        BY <1>8, <1>11, <1>13, <2>1
    <2>3. Satisfied(TheVault, keys, r.path = "Recovery")
        BY <1>12, <1>13
    <2> HIDE DEF keys
    <2> QED
        BY <2>2, <2>3 DEF build_and_sign
<1> QED
    BY <1>4, <1>5, <1>6, <1>9, <1>10, <1>14 DEF listing

\* In every state of every behaviour the recovery of all there is to recover is built,
\* validated and taken by Core at once: the safety that lies under RecoveryCompletes
\* (wallet.rs:156, spend.rs:118-247).
THEOREM RecoveryStaysOpen == Spec => []RecoveryIsOpen
<1>1. SpendInv => RecoveryIsOpen
    <2> SUFFICES ASSUME SpendInv, NEW r \in Sweeps, RequestAccepted(TheVault, Network, r),
                        FeeFits(SweepFee)
                 PROVE  \E built \in sign_recovery_with_keys(TheVault, Network, list_utxos, r,
                                                             LoadedKeys("Recovery")) :
                            /\ validate_built_spend(built, TheVault, Network, list_utxos, r)
                            /\ CoreAccepts(built.tx)
        BY DEF RecoveryIsOpen
    <2> DEFINE listing == list_utxos
               keys == LoadedKeys("Recovery")
    <2>1. ChainInv /\ r \in SpendRequest /\ ListingOk(listing, Known)
        BY SweepsAreRequests, ListingIsOk DEF SpendInv
    <2>2. r.path = "Recovery" /\ r.fee_sats = SweepFee /\ [r EXCEPT !.path = "Recovery"] = r
        BY DEF Sweeps
    <2>3. PICK c \in SUBSET DOMAIN listing :
              /\ c # {} /\ IsFiniteSet(c)
              /\ TotalIn(listing, c) = Need(r) /\ Change(listing, c, r) = 0
              /\ BuiltSpend(TheVault, listing, c, r, keys)
                     \in build_and_sign(TheVault, Network, listing, r, keys)
              /\ Cardinality(c) \in 1..MaxSelectedInputs
        BY <2>1, SweepIsBuilt
    <2> DEFINE built == BuiltSpend(TheVault, listing, c, r, keys)
               t == built.tx
    <2>4. built \in sign_recovery_with_keys(TheVault, Network, listing, r, keys)
        BY <2>2, <2>3 DEF sign_recovery_with_keys
    <2>5. validate_built_spend(built, TheVault, Network, listing, r)
        <3>1. r.amount_sats \in Nat /\ r.fee_sats \in Nat
            BY <2>1, SpendLimits DEF SpendRequest
        <3>2. \A o \in DOMAIN listing : listing[o].script = TheVault
            BY <2>1 DEF ListingOk
        <3> HIDE DEF built, listing, keys
        <3> QED
            BY <2>3, <3>1, <3>2, BuilderPassesValidator DEF built
    <2>6. SpendsVault(t)
        <3> HIDE DEF listing
        <3> QED
            BY <2>1, <2>2, <2>3, BuiltSpendsVault
    <2>7. /\ Inputs(t) = c
          /\ t.unsigned.outputs = <<Pay(r.amount_sats, r.destination.script)>>
        BY <2>3 DEF BuiltSpend, Signed, Unsigned, Outputs, Inputs
    <2> HIDE DEF t, built
    <2>8. Size(t) = VSize(Cardinality(c), 1)
        BY <2>7 DEF Size
    <2>9. Fee(t) = SweepFee
        <3>1. [o \in Inputs(t) |-> Output(o).value] = [o \in c |-> listing[o].value]
            BY <2>1, <2>3, <2>7 DEF ListingOk
        <3>2. InTotal(t) = TotalIn(listing, c)
            BY <2>7, <3>1 DEF InTotal, TotalIn
        <3>3. TotalOut(t.unsigned) = r.amount_sats + 0
            BY <2>7 DEF TotalOut, Pay
        <3>4. r.amount_sats \in Nat /\ SweepFee \in Nat
            BY <2>1, SpendLimits, RequestsAssumption DEF SpendRequest
        <3> QED
            BY <2>2, <2>3, <3>2, <3>3, <3>4 DEF Fee, Need
    <2>10. \A o \in Inputs(t) : o \in DOMAIN list_utxos /\ list_utxos[o].spendable_recovery
        <3>1. c \subseteq Candidates(listing, "Recovery")
            <4>1. InputsMatch(t, TheVault, listing, r)
                BY <2>5 DEF validate_built_spend, t
            <4> QED
                BY <2>2, <2>7, <4>1 DEF InputsMatch, Candidates, Inputs
        <3> QED
            BY <2>7, <3>1 DEF Candidates, Spendable
    <2>11. CoreAccepts(t)
        <3>1. MinRelayRate * Size(t) <= Fee(t)
            BY <2>3, <2>8, <2>9 DEF FeeFits
        <3>2. Fee(t) >= MinRelayRate * Size(t)
            BY <3>1
        <3> QED
            BY <2>1, <2>6, <2>10, <3>2, FreshIsAccepted
    <2> QED
        BY <2>4, <2>5, <2>11 DEF t
<1> QED
    BY <1>1, SpendInvariant, PTL
=============================================================================
