------------------------ MODULE TokenContract_proofs ------------------------
(***************************************************************************)
(* Proofs about TokenContract, for every value of the constants that       *)
(* satisfies ConstantsAssumption: type correctness, NoOverdraft (no       *)
(* balance or total supply ever goes negative, which needs add's overflow  *)
(* test to be right for the whole word, not only for small values), and   *)
(* SupplyMoves (each committed transaction mints or burns, moves tokens    *)
(* between two balances, or aliases a balance with the supply key or a     *)
(* hash lock), with no assumption on the keys a caller names.              *)
(***************************************************************************)
EXTENDS TokenContract, TLAPS

USE ConstantsAssumption

-----------------------------------------------------------------------------
(* Lemmas on the Go int arithmetic. *)

LEMMA WrapRange ==
    ASSUME NEW x \in Int
    PROVE  Wrap(x) \in GoInt
BY DEF Wrap, GoInt, MinInt, Modulus

(* A sum that fits the word is not changed by wrapping. *)
LEMMA WrapId ==
    ASSUME NEW x \in GoInt
    PROVE  Wrap(x) = x
BY DEF Wrap, GoInt, MinInt, Modulus

(* add() of two non-negative words succeeds only when it does not wrap.    *)
LEMMA AddNonNeg ==
    ASSUME NEW b \in 0..MaxInt, NEW q \in 0..MaxInt, AddOK(b, q)
    PROVE  AddSum(b, q) = b + q
<1>1. CASE b + q <= MaxInt
  BY <1>1, WrapId DEF AddSum, GoInt, MinInt
<1>2. CASE b + q > MaxInt
  <2>0. q + b \in Int /\ q + b > MaxInt /\ q + b <= 2 * MaxInt
    BY <1>2
  <2>1. Wrap(q + b) = q + b - Modulus
    <3>1. (q + b) - MinInt \in Modulus..(2 * Modulus - 1)
      BY <2>0 DEF MinInt, Modulus
    <3>2. ((q + b) - MinInt) % Modulus = (q + b) - MinInt - Modulus
      BY <3>1 DEF Modulus
    <3>. QED  BY <3>2 DEF Wrap, MinInt, Modulus
  <2>2. AddSum(b, q) < q
    BY <2>1 DEF AddSum, Modulus
  <2>. QED  BY <2>2 DEF AddOK
<1>. QED  BY <1>1, <1>2

(* What a successful transferHelper has checked. *)
LEMMA TransferOKFacts ==
    ASSUME NEW f, NEW t, NEW v, TransferOK(f, t, v)
    PROVE  /\ f # t
           /\ v >= 0
           /\ state[f].kind # "nil"
           /\ SubOK(Atoi(state[f]), v)
           /\ AddOK(Atoi(state[t]), v)
BY Zenon DEF TransferOK

LEMMA AtoiType ==
    ASSUME NEW v \in Values
    PROVE  Atoi(v) \in GoInt
BY DEF Atoi, Values, Nil, IntVal, HTLCVal, GoInt, MinInt

-----------------------------------------------------------------------------
(* Type correctness. *)

LEMMA TransferWritesType ==
    ASSUME TypeOK, NEW f \in Keys, NEW t \in Keys, NEW v \in Int,
           TransferOK(f, t, v)
    PROVE  TransferWrites(f, t, v) \in [Keys -> Values]
<1>1. Atoi(state[f]) \in GoInt /\ Atoi(state[t]) \in GoInt
  BY AtoiType DEF TypeOK, Keys
<1>2. Atoi(state[f]) - v \in GoInt
  BY <1>1 DEF TransferOK, SubOK, GoInt, MinInt
<1>3. AddSum(Atoi(state[t]), v) \in GoInt
  BY <1>1, WrapRange DEF AddSum, GoInt
<1>. QED  BY <1>2, <1>3 DEF TransferWrites, TypeOK, Values, IntVal, Keys

LEMMA InitTypeOK == Init => TypeOK
BY DEF Init, TypeOK, NoTx, Values, Nil, Keys, GoInt, MinInt

LEMMA NextTypeOK == TypeOK /\ [Next]_vars => TypeOK'
<1> SUFFICES ASSUME TypeOK, [Next]_vars PROVE TypeOK'
  OBVIOUS
<1>. Amounts \subseteq GoInt
  BY DEF GoInt, MinInt
<1>. Clients \subseteq Keys
  BY DEF Keys
<1>1. ASSUME NEW c \in Clients, NEW r \in Keys, NEW a \in Amounts,
             NEW h \in HashLocks, NEW tl \in TimeLocks \cup {BadTime},
             NEW pw \in Passwords,
             TransferConditional(c, r, a, h, tl, pw)
      PROVE  TypeOK'
  <2>1. TransferWrites(c, r, a) \in [Keys -> Values]
    BY <1>1, TransferWritesType DEF TransferConditional
  <2>2. [sender |-> c, recipient |-> r, amount |-> a, hashLock |-> h,
         timeLock |-> tl, claimed |-> FALSE, reverted |-> FALSE,
         claimPassword |-> pw] \in HTLCRecs
    BY <1>1 DEF TransferConditional, ParseTimeLockOK, HTLCRecs
  <2>. QED  BY ZenonT(30), <1>1, <2>1, <2>2 DEF TransferConditional, Committed, TypeOK,
                                   Values, HTLCVal, Keys, Fns
<1>2. ASSUME NEW c \in Clients, NEW h \in HashLocks, NEW pw \in Passwords,
             Claim(c, h, pw)
      PROVE  TypeOK'
  <2>. DEFINE r == state[h].htlc
  <2>1. r \in HTLCRecs
    BY <1>2 DEF Claim, IsHTLC, TypeOK, Values, Nil, IntVal, HTLCVal, Keys
  <2>2. TransferWrites(c, r.recipient, r.amount) \in [Keys -> Values]
    BY <1>2, <2>1, TransferWritesType DEF Claim, HTLCRecs, GoInt
  <2>3. [r EXCEPT !.claimed = TRUE] \in HTLCRecs
    BY ZenonT(30), <2>1 DEF HTLCRecs
  <2>. QED  BY ZenonT(30), <1>2, <2>2, <2>3 DEF Claim, Committed, TypeOK, Values,
                                   HTLCVal, Keys, Fns
<1>3. ASSUME NEW c \in Clients, NEW h \in HashLocks, Revert(c, h)
      PROVE  TypeOK'
  <2>. DEFINE r == state[h].htlc
  <2>1. r \in HTLCRecs
    BY <1>3 DEF Revert, IsHTLC, TypeOK, Values, Nil, IntVal, HTLCVal, Keys
  <2>2. TransferWrites(r.recipient, c, r.amount) \in [Keys -> Values]
    BY <1>3, <2>1, TransferWritesType DEF Revert, HTLCRecs, GoInt
  <2>3. [r EXCEPT !.reverted = TRUE] \in HTLCRecs
    BY ZenonT(30), <2>1 DEF HTLCRecs
  <2>. QED  BY ZenonT(30), <1>3, <2>2, <2>3 DEF Revert, Committed, TypeOK, Values,
                                   HTLCVal, Keys, Fns
<1>4. ASSUME NEW c \in Clients, NEW a \in Amounts, Mint(c, a)
      PROVE  TypeOK'
  <2>1. /\ AddSum(Atoi(state[c]), a) \in GoInt
        /\ AddSum(Atoi(state[TotalSupplyKey]), a) \in GoInt
    BY WrapRange, AtoiType DEF AddSum, TypeOK, Keys, GoInt
  <2>. QED  BY ZenonT(30), <1>4, <2>1 DEF Mint, Committed, TypeOK, Values, IntVal, Keys, Fns
<1>5. ASSUME NEW c \in Clients, NEW a \in Amounts, Burn(c, a)
      PROVE  TypeOK'
  <2>1. /\ Atoi(state[c]) \in GoInt
        /\ Atoi(state[TotalSupplyKey]) \in GoInt
    BY AtoiType DEF TypeOK, Keys
  <2>2. /\ Atoi(state[c]) - a \in GoInt
        /\ Atoi(state[TotalSupplyKey]) - a \in GoInt
    BY <1>5, <2>1 DEF Burn, SubOK, GoInt, MinInt
  <2>. QED  BY ZenonT(30), <1>5, <2>2 DEF Burn, Committed, TypeOK, Values, IntVal, Keys, Fns
<1>6. ASSUME NEW c \in Clients, NEW s \in Keys, NEW r \in Keys,
             NEW a \in Amounts, Transfer(c, s, r, a)
      PROVE  TypeOK'
  BY <1>6, TransferWritesType DEF Transfer, Committed, TypeOK, Fns, GoInt
<1>7. ASSUME NEW c \in Clients, NEW s \in Clients, NEW a \in Amounts,
             Approve(c, s, a)
      PROVE  TypeOK'
  BY <1>7 DEF Approve, Committed, TypeOK, Fns
<1>8. ASSUME NEW c \in Clients, NEW f \in Clients, NEW t \in Keys,
             NEW a \in Amounts, TransferFrom(c, f, t, a)
      PROVE  TypeOK'
  <2>1. allowance[<<f, c>>] - a \in GoInt
    BY <1>8 DEF TransferFrom, SubOK, TypeOK, GoInt, MinInt
  <2>. QED  BY <1>8, <2>1, TransferWritesType DEF TransferFrom, Committed,
                                                  TypeOK, Fns, GoInt
<1>9. CASE Tick
  BY <1>9 DEF Tick, TypeOK
<1>10. CASE UNCHANGED vars
  BY <1>10 DEF vars, TypeOK
<1>. QED  BY <1>1, <1>2, <1>3, <1>4, <1>5, <1>6, <1>7, <1>8, <1>9, <1>10 DEF Next

(* The chaincode's world state, allowances, clock and last transaction     *)
(* always have their types.                                                 *)
THEOREM TypeCorrect == Spec => []TypeOK
BY InitTypeOK, NextTypeOK, PTL DEF Spec

-----------------------------------------------------------------------------
(* No overdraft.  NoOverdraft is inductive together with TypeOK: every     *)
(* int a step writes is a difference that sub() allowed, a sum of two      *)
(* non-negative words that add() allowed (AddNonNeg), or an HTLC.          *)

Inv == TypeOK /\ NoOverdraft

LEMMA AtoiNonNeg ==
    ASSUME TypeOK, NoOverdraft, NEW k \in Keys
    PROVE  Atoi(state[k]) \in 0..MaxInt
<1>1. Atoi(state[k]) \in GoInt
  BY AtoiType DEF TypeOK
<1>. QED  BY <1>1 DEF Atoi, NoOverdraft, GoInt

LEMMA TransferWritesNonNeg ==
    ASSUME TypeOK, NoOverdraft, NEW f \in Keys, NEW t \in Keys,
           NEW v \in GoInt, TransferOK(f, t, v)
    PROVE  \A k \in Keys : TransferWrites(f, t, v)[k].kind = "int"
                               => TransferWrites(f, t, v)[k].n >= 0
<1>1. Atoi(state[f]) \in 0..MaxInt /\ Atoi(state[t]) \in 0..MaxInt
  BY AtoiNonNeg DEF Keys
<1>2. v \in 0..MaxInt
  BY DEF TransferOK, GoInt
<1>3. AddSum(Atoi(state[t]), v) = Atoi(state[t]) + v
  BY <1>1, <1>2, AddNonNeg, TransferOKFacts
<1>4. Atoi(state[f]) - v >= 0
  <2>1. SubOK(Atoi(state[f]), v)
    BY TransferOKFacts
  <2>. QED  BY <1>1, <2>1 DEF SubOK, GoInt, MinInt
<1>. DEFINE w == TransferWrites(f, t, v)
<1>5. SUFFICES ASSUME NEW k \in Keys, w[k].kind = "int" PROVE w[k].n >= 0
  OBVIOUS
<1>6. CASE k = t
  BY <1>1, <1>2, <1>3, <1>6 DEF TransferWrites, IntVal, TypeOK, Keys
<1>7. CASE k = f
  BY <1>4, <1>7 DEF TransferWrites, TransferOK, IntVal, TypeOK, Keys
<1>8. CASE k # t /\ k # f
  BY <1>5, <1>8 DEF TransferWrites, TypeOK, NoOverdraft
<1>. QED  BY <1>6, <1>7, <1>8

LEMMA InitInv == Init => Inv
BY InitTypeOK DEF Inv, Init, NoOverdraft, Nil

LEMMA NextNoOverdraft == Inv /\ [Next]_vars => NoOverdraft'
<1> SUFFICES ASSUME TypeOK, NoOverdraft, [Next]_vars PROVE NoOverdraft'
  BY DEF Inv
<1>. Amounts \subseteq GoInt
  BY DEF GoInt, MinInt
<1>. Clients \subseteq Keys
  BY DEF Keys
<1>1. ASSUME NEW c \in Clients, NEW r \in Keys, NEW a \in Amounts,
             NEW h \in HashLocks, NEW tl \in TimeLocks \cup {BadTime},
             NEW pw \in Passwords,
             TransferConditional(c, r, a, h, tl, pw)
      PROVE  NoOverdraft'
  BY <1>1, TransferWritesNonNeg DEF TransferConditional, NoOverdraft, HTLCVal, Keys
<1>2. ASSUME NEW c \in Clients, NEW h \in HashLocks, NEW pw \in Passwords,
             Claim(c, h, pw)
      PROVE  NoOverdraft'
  <2>. DEFINE r == state[h].htlc
  <2>1. r \in HTLCRecs
    BY <1>2 DEF Claim, IsHTLC, TypeOK, Values, Nil, IntVal, HTLCVal, Keys
  <2>. QED  BY <1>2, <2>1, TransferWritesNonNeg
            DEF Claim, NoOverdraft, HTLCVal, HTLCRecs, Keys
<1>3. ASSUME NEW c \in Clients, NEW h \in HashLocks, Revert(c, h)
      PROVE  NoOverdraft'
  <2>. DEFINE r == state[h].htlc
  <2>1. r \in HTLCRecs
    BY <1>3 DEF Revert, IsHTLC, TypeOK, Values, Nil, IntVal, HTLCVal, Keys
  <2>. QED  BY <1>3, <2>1, TransferWritesNonNeg
            DEF Revert, NoOverdraft, HTLCVal, HTLCRecs, Keys
<1>4. ASSUME NEW c \in Clients, NEW a \in Amounts, Mint(c, a)
      PROVE  NoOverdraft'
  <2>1. Atoi(state[c]) \in 0..MaxInt /\ Atoi(state[TotalSupplyKey]) \in 0..MaxInt
    BY AtoiNonNeg DEF Keys
  <2>2. a \in 0..MaxInt
    BY <1>4 DEF Mint, GoInt
  <2>3. /\ AddSum(Atoi(state[c]), a) = Atoi(state[c]) + a
        /\ AddSum(Atoi(state[TotalSupplyKey]), a) = Atoi(state[TotalSupplyKey]) + a
    BY <1>4, <2>1, <2>2, AddNonNeg DEF Mint
  <2>4. c # TotalSupplyKey
    OBVIOUS
  <2>. QED  BY <1>4, <2>1, <2>2, <2>3, <2>4 DEF Mint, NoOverdraft, IntVal, TypeOK, Keys
<1>5. ASSUME NEW c \in Clients, NEW a \in Amounts, Burn(c, a)
      PROVE  NoOverdraft'
  <2>1. Atoi(state[c]) \in 0..MaxInt /\ Atoi(state[TotalSupplyKey]) \in 0..MaxInt
    BY AtoiNonNeg DEF Keys
  <2>. QED  BY <1>5, <2>1 DEF Burn, SubOK, NoOverdraft, IntVal, TypeOK, Keys
<1>6. ASSUME NEW c \in Clients, NEW s \in Keys, NEW r \in Keys,
             NEW a \in Amounts, Transfer(c, s, r, a)
      PROVE  NoOverdraft'
  BY <1>6, TransferWritesNonNeg DEF Transfer, NoOverdraft
<1>7. ASSUME NEW c \in Clients, NEW s \in Clients, NEW a \in Amounts,
             Approve(c, s, a)
      PROVE  NoOverdraft'
  BY <1>7 DEF Approve, NoOverdraft
<1>8. ASSUME NEW c \in Clients, NEW f \in Clients, NEW t \in Keys,
             NEW a \in Amounts, TransferFrom(c, f, t, a)
      PROVE  NoOverdraft'
  BY <1>8, TransferWritesNonNeg DEF TransferFrom, NoOverdraft
<1>9. CASE Tick
  BY <1>9 DEF Tick, NoOverdraft
<1>10. CASE UNCHANGED vars
  BY <1>10 DEF vars, NoOverdraft
<1>. QED  BY <1>1, <1>2, <1>3, <1>4, <1>5, <1>6, <1>7, <1>8, <1>9, <1>10 DEF Next

(* No balance and no total supply is ever negative, whatever the word      *)
(* width, the clients and the amounts they pass: sub() rejects an          *)
(* overdraft and add() rejects every sum that would wrap.                  *)
THEOREM NoOverdraftHolds == Spec => []NoOverdraft
<1>1. Init => Inv
  BY InitInv
<1>2. Inv /\ [Next]_vars => Inv'
  BY NextTypeOK, NextNoOverdraft DEF Inv
<1>. QED  BY <1>1, <1>2, PTL DEF Spec, Inv

-----------------------------------------------------------------------------
(* How value moves.  Every committed transaction either changes one       *)
(* balance and the supply by the same amount, or moves value between two  *)
(* balance keys, or is one of the aliasing calls that name the supply key *)
(* as an account or store an HTLC where a balance is.  The proof rests on  *)
(* NoOverdraft: add() of two non-negative words does not wrap (AddNonNeg), *)
(* so a credit adds exactly the amount debited.                            *)

(* Every key decodes to a word.                                            *)
LEMMA AtoiAll ==
    ASSUME TypeOK
    PROVE  \A k \in Keys : Atoi(state[k]) \in GoInt
BY AtoiType DEF TypeOK

LEMMA AtoiIntVal ==
    ASSUME NEW x
    PROVE  Atoi(IntVal(x)) = x
BY DEF Atoi, IntVal

LEMMA AtoiHTLC ==
    ASSUME NEW r
    PROVE  Atoi(HTLCVal(r)) = 0
BY DEF Atoi, HTLCVal

(* What transferHelper writes, as numbers: from loses v, to gains v, and   *)
(* every other key keeps its value.                                        *)
LEMMA TransferWritesDelta ==
    ASSUME TypeOK, NoOverdraft, NEW f \in Keys, NEW t \in Keys,
           NEW v \in GoInt, TransferOK(f, t, v)
    PROVE  /\ Atoi(TransferWrites(f, t, v)[f]) = Atoi(state[f]) - v
           /\ Atoi(TransferWrites(f, t, v)[t]) = Atoi(state[t]) + v
           /\ \A k \in Keys \ {f, t} : TransferWrites(f, t, v)[k] = state[k]
<1>1. Atoi(state[f]) \in 0..MaxInt /\ Atoi(state[t]) \in 0..MaxInt
  BY AtoiNonNeg
<1>2. v \in 0..MaxInt
  BY DEF TransferOK, GoInt
<1>3. AddSum(Atoi(state[t]), v) = Atoi(state[t]) + v
  BY <1>1, <1>2, AddNonNeg, TransferOKFacts
<1>4. f # t
  BY TransferOKFacts
<1>. QED  BY <1>3, <1>4 DEF TransferWrites, IntVal, Atoi, TypeOK

(* A step whose balances and supply read as transferHelper wrote them is   *)
(* a move between two balance keys.                                        *)
LEMMA MovedByTransfer ==
    ASSUME TypeOK, NoOverdraft, NEW f \in BalanceKeys, NEW t \in BalanceKeys,
           NEW v \in GoInt, TransferOK(f, t, v),
           \A k \in Keys : Atoi(state'[k]) = Atoi(TransferWrites(f, t, v)[k])
    PROVE  Moved(f, t)
<1>. f \in Keys /\ t \in Keys /\ TotalSupplyKey \in Keys
  BY DEF BalanceKeys, Keys
<1>1. /\ Atoi(TransferWrites(f, t, v)[f]) = Atoi(state[f]) - v
      /\ Atoi(TransferWrites(f, t, v)[t]) = Atoi(state[t]) + v
      /\ \A k \in Keys \ {f, t} : TransferWrites(f, t, v)[k] = state[k]
  BY TransferWritesDelta
<1>2. f # t
  BY TransferOKFacts
<1>3. \A k \in Keys : Atoi(state[k]) \in GoInt
  BY AtoiAll
<1>4. Delta(f) = -v /\ Delta(t) = v
  BY <1>1, <1>3 DEF Delta, GoInt
<1>5. Delta(TotalSupplyKey) = 0
  BY <1>1, <1>3 DEF Delta, GoInt, BalanceKeys
<1>6. \A o \in BalanceKeys \ {f, t} : Delta(o) = 0
  BY <1>1, <1>3 DEF Delta, GoInt, BalanceKeys
<1>. QED  BY <1>2, <1>4, <1>5, <1>6, <1>3 DEF Moved, Delta, GoInt

(* A step that leaves the world state alone changes no balance.            *)
LEMMA NoMove ==
    ASSUME TypeOK, state' = state
    PROVE  SupplyStep
<1>1. PICK c \in Clients : TRUE
  OBVIOUS
<1>2. \A k \in Keys : Atoi(state[k]) \in GoInt
  BY AtoiAll
<1>3. MintedOrBurnt(c)
  BY <1>2 DEF MintedOrBurnt, Delta, Keys, BalanceKeys, GoInt
<1>. QED  BY <1>3 DEF SupplyStep

LEMMA NextSupplyStep == Inv /\ [Next]_vars => [SupplyStep \/ Aliasing]_vars
<1> SUFFICES ASSUME TypeOK, NoOverdraft, [Next]_vars
             PROVE  [SupplyStep \/ Aliasing]_vars
  BY DEF Inv
<1>. Amounts \subseteq GoInt
  BY DEF GoInt, MinInt
<1>. Clients \subseteq BalanceKeys /\ HashLocks \subseteq Keys
  BY DEF BalanceKeys, Keys
<1>. BalanceKeys \subseteq Keys
  BY DEF BalanceKeys
<1>. TotalSupplyKey \in Keys
  BY DEF Keys
<1>. \A k \in Keys : k # TotalSupplyKey => k \in BalanceKeys
  BY DEF BalanceKeys
<1>. \A k \in Keys : Atoi(state[k]) \in GoInt
  BY AtoiAll
<1>. DOMAIN state = Keys
  BY DEF TypeOK
<1>1. ASSUME NEW c \in Clients, NEW r \in Keys, NEW a \in Amounts,
             NEW h \in HashLocks, NEW tl \in TimeLocks \cup {BadTime},
             NEW pw \in Passwords,
             TransferConditional(c, r, a, h, tl, pw)
      PROVE  SupplyStep \/ Aliasing
  <2>1. CASE KeyAliased({c, r}, h)
    <3>1. tl \in TimeLocks
      BY <1>1 DEF TransferConditional, ParseTimeLockOK
    <3>. QED  BY <1>1, <2>1, <3>1 DEF Aliasing
  <2>2. CASE ~KeyAliased({c, r}, h)
    <3>1. r # TotalSupplyKey /\ h \notin {c, r} /\ Atoi(state[h]) = 0
      BY <2>2 DEF KeyAliased
    <3>0. PICK rec : state' = [TransferWrites(c, r, a) EXCEPT ![h] = HTLCVal(rec)]
      BY <1>1 DEF TransferConditional
    <3>2. \A k \in Keys : Atoi(state'[k]) = Atoi(TransferWrites(c, r, a)[k])
      <4>1. DOMAIN TransferWrites(c, r, a) = Keys
        BY DEF TransferWrites
      <4>2. TransferWrites(c, r, a)[h] = state[h]
        BY <3>1 DEF TransferWrites
      <4>3. Atoi(state'[h]) = 0
        BY <3>0, <4>1, AtoiHTLC
      <4>. QED  BY <3>0, <3>1, <4>1, <4>2, <4>3
    <3>3. TransferOK(c, r, a) /\ c \in BalanceKeys /\ r \in BalanceKeys
      BY <1>1, <3>1 DEF TransferConditional
    <3>4. Moved(c, r)
      BY <3>2, <3>3, MovedByTransfer
    <3>. QED  BY <3>3, <3>4 DEF SupplyStep
  <2>. QED  BY <2>1, <2>2
<1>2. ASSUME NEW c \in Clients, NEW h \in HashLocks, NEW pw \in Passwords,
             Claim(c, h, pw)
      PROVE  SupplyStep \/ Aliasing
  <2>. DEFINE r == state[h].htlc
  <2>1. r \in HTLCRecs /\ Atoi(state[h]) = 0
    BY <1>2 DEF Claim, IsHTLC, TypeOK, Values, Nil, IntVal, HTLCVal, Keys, Atoi
  <2>2. CASE KeyAliased({c, r.recipient}, h)
    BY <1>2, <2>2 DEF Aliasing
  <2>3. CASE ~KeyAliased({c, r.recipient}, h)
    <3>1. r.recipient \in BalanceKeys /\ h \notin {c, r.recipient}
      BY <2>1, <2>3 DEF KeyAliased, HTLCRecs
    <3>2. PICK rec : state' = [TransferWrites(c, r.recipient, r.amount) EXCEPT
                                  ![h] = HTLCVal(rec)]
      BY <1>2 DEF Claim
    <3>3. \A k \in Keys : Atoi(state'[k])
                            = Atoi(TransferWrites(c, r.recipient, r.amount)[k])
      <4>1. DOMAIN TransferWrites(c, r.recipient, r.amount) = Keys
        BY DEF TransferWrites
      <4>2. TransferWrites(c, r.recipient, r.amount)[h] = state[h]
        BY <3>1 DEF TransferWrites
      <4>3. Atoi(state'[h]) = 0
        BY <3>2, <4>1, AtoiHTLC
      <4>. QED  BY <2>1, <3>2, <4>1, <4>2, <4>3
    <3>4. Moved(c, r.recipient)
      <4>1. TransferOK(c, r.recipient, r.amount) /\ r.amount \in GoInt
        BY <1>2, <2>1 DEF Claim, HTLCRecs
      <4>. QED  BY <3>1, <3>3, <4>1, MovedByTransfer
    <3>. QED  BY <3>1, <3>4 DEF SupplyStep
  <2>. QED  BY <2>2, <2>3
<1>3. ASSUME NEW c \in Clients, NEW h \in HashLocks, Revert(c, h)
      PROVE  SupplyStep \/ Aliasing
  <2>. DEFINE r == state[h].htlc
  <2>1. r \in HTLCRecs /\ Atoi(state[h]) = 0
    BY <1>3 DEF Revert, IsHTLC, TypeOK, Values, Nil, IntVal, HTLCVal, Keys, Atoi
  <2>2. CASE KeyAliased({c, r.recipient}, h)
    BY <1>3, <2>2 DEF Aliasing
  <2>3. CASE ~KeyAliased({c, r.recipient}, h)
    <3>1. r.recipient \in BalanceKeys /\ h \notin {r.recipient, c}
      BY <2>1, <2>3 DEF KeyAliased, HTLCRecs
    <3>2. PICK rec : state' = [TransferWrites(r.recipient, c, r.amount) EXCEPT
                                  ![h] = HTLCVal(rec)]
      BY <1>3 DEF Revert
    <3>3. \A k \in Keys : Atoi(state'[k])
                            = Atoi(TransferWrites(r.recipient, c, r.amount)[k])
      <4>1. DOMAIN TransferWrites(r.recipient, c, r.amount) = Keys
        BY DEF TransferWrites
      <4>2. TransferWrites(r.recipient, c, r.amount)[h] = state[h]
        BY <3>1 DEF TransferWrites
      <4>3. Atoi(state'[h]) = 0
        BY <3>2, <4>1, AtoiHTLC
      <4>. QED  BY <2>1, <3>2, <4>1, <4>2, <4>3
    <3>4. Moved(r.recipient, c)
      <4>1. TransferOK(r.recipient, c, r.amount) /\ r.amount \in GoInt
        BY <1>3, <2>1 DEF Revert, HTLCRecs
      <4>. QED  BY <3>1, <3>3, <4>1, MovedByTransfer
    <3>. QED  BY <3>1, <3>4 DEF SupplyStep
  <2>. QED  BY <2>2, <2>3
<1>4. ASSUME NEW c \in Clients, NEW a \in Amounts, Mint(c, a)
      PROVE  SupplyStep
  <2>1. Atoi(state[c]) \in 0..MaxInt /\ Atoi(state[TotalSupplyKey]) \in 0..MaxInt
    BY AtoiNonNeg DEF Keys
  <2>2. a \in 0..MaxInt
    BY <1>4 DEF Mint, GoInt
  <2>3. /\ AddSum(Atoi(state[c]), a) = Atoi(state[c]) + a
        /\ AddSum(Atoi(state[TotalSupplyKey]), a) = Atoi(state[TotalSupplyKey]) + a
    BY <1>4, <2>1, <2>2, AddNonNeg DEF Mint
  <2>4. /\ state'[c] = IntVal(Atoi(state[c]) + a)
        /\ state'[TotalSupplyKey] = IntVal(Atoi(state[TotalSupplyKey]) + a)
        /\ \A o \in BalanceKeys \ {c} : state'[o] = state[o]
    BY <1>4, <2>3 DEF Mint, BalanceKeys
  <2>5. MintedOrBurnt(c)
    BY <2>4, AtoiIntVal DEF MintedOrBurnt, Delta, BalanceKeys, GoInt
  <2>. QED  BY <2>5 DEF SupplyStep
<1>5. ASSUME NEW c \in Clients, NEW a \in Amounts, Burn(c, a)
      PROVE  SupplyStep
  <2>1. /\ state'[c] = IntVal(Atoi(state[c]) - a)
        /\ state'[TotalSupplyKey] = IntVal(Atoi(state[TotalSupplyKey]) - a)
        /\ \A o \in BalanceKeys \ {c} : state'[o] = state[o]
    BY <1>5 DEF Burn, BalanceKeys
  <2>2. MintedOrBurnt(c)
    BY <2>1, AtoiIntVal DEF MintedOrBurnt, Delta, BalanceKeys, GoInt
  <2>. QED  BY <2>2 DEF SupplyStep
<1>6. ASSUME NEW c \in Clients, NEW s \in Keys, NEW r \in Keys,
             NEW a \in Amounts, Transfer(c, s, r, a)
      PROVE  SupplyStep \/ Aliasing
  <2>1. CASE TotalSupplyKey \in {s, r}
    BY <1>6, <2>1 DEF Aliasing
  <2>2. CASE TotalSupplyKey \notin {s, r}
    <3>1. Moved(s, r)
      BY <1>6, <2>2, MovedByTransfer DEF Transfer
    <3>. QED  BY <2>2, <3>1 DEF SupplyStep
  <2>. QED  BY <2>1, <2>2
<1>7. ASSUME NEW c \in Clients, NEW s \in Clients, NEW a \in Amounts,
             Approve(c, s, a)
      PROVE  SupplyStep
  BY <1>7, NoMove DEF Approve
<1>8. ASSUME NEW c \in Clients, NEW f \in Clients, NEW t \in Keys,
             NEW a \in Amounts, TransferFrom(c, f, t, a)
      PROVE  SupplyStep \/ Aliasing
  <2>1. CASE t = TotalSupplyKey
    BY <1>8, <2>1 DEF Aliasing
  <2>2. CASE t # TotalSupplyKey
    <3>1. Moved(f, t)
      BY <1>8, <2>2, MovedByTransfer DEF TransferFrom
    <3>. QED  BY <2>2, <3>1 DEF SupplyStep
  <2>. QED  BY <2>1, <2>2
<1>9. CASE Tick
  BY <1>9, NoMove DEF Tick
<1>10. CASE UNCHANGED vars
  BY <1>10 DEF vars
<1>. QED  BY <1>1, <1>2, <1>3, <1>4, <1>5, <1>6, <1>7, <1>8, <1>9, <1>10 DEF Next

(* For every value of the constants, hash locks that coincide with account *)
(* IDs included, each committed transaction is a Mint or Burn that changes *)
(* one balance and the total supply by the same amount, or a               *)
(* transferHelper move in which one balance key gains exactly what another *)
(* loses, or one of the aliasing calls: "totalSupply" named as an account, *)
(* or an HTLC stored over a balance or over an account of the same call.  *)
(* So add()'s and sub()'s checks keep the supply equal to the sum of the   *)
(* balances, and only the unchecked key space breaks it.                   *)
THEOREM SupplyMoves == Spec => SupplyMovesUnlessAliased
<1>1. Init => Inv
  BY InitInv
<1>2. Inv /\ [Next]_vars => Inv'
  BY NextTypeOK, NextNoOverdraft DEF Inv
<1>3. Inv /\ [Next]_vars => [SupplyStep \/ Aliasing]_vars
  BY NextSupplyStep
<1>. QED  BY <1>1, <1>2, <1>3, PTL DEF Spec, SupplyMovesUnlessAliased

=============================================================================
