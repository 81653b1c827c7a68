--------------------------- MODULE TokenContract ---------------------------
(***************************************************************************)
(* The ERC-20 / hash-time-lock chaincode of test-erc-20/chaincode          *)
(* (token_contract.go).                                                    *)
(*                                                                         *)
(* The chaincode keeps everything in the channel's world state, one flat   *)
(* key space: an account balance under the client ID, the total supply     *)
(* under "totalSupply", an HTLC record under the caller-chosen hashLock,   *)
(* and allowances under composite keys (which start with 0x00 and so can   *)
(* never collide with a simple key: they are a separate map here).         *)
(*                                                                         *)
(* Every exported function is one action.  Fabric executes a function      *)
(* against a snapshot, and a function that returns an error is never      *)
(* committed: every early return is therefore a conjunct of the guard,    *)
(* and a successful call writes all of its PutStates at once, in program  *)
(* order (a later write to the same key wins, as in EXCEPT).  MVCC         *)
(* validation serialises committed transactions, so actions interleave    *)
(* atomically.  Read-only functions (BalanceOf, Allowance, ...) change no  *)
(* state and are not actions.                                              *)
(***************************************************************************)
EXTENDS Integers

CONSTANTS
    Clients,        \* client identities: GetID() of a caller, and its account key
    Org1Clients,    \* the clients whose GetMSPID() is "Org1MSP"
    HashLocks,      \* hashLock strings callers pass to the HTLC functions
    Passwords,      \* claimPassword strings
    TimeLocks,      \* time locks that time.Parse(RFC3339, .) accepts, as instants
    BadTime,        \* a timeLock string that time.Parse rejects
    Amounts,        \* the int arguments callers pass
    MaxInt,         \* Go's math.MaxInt: int is a two's-complement word
    MaxTime,        \* bound on the wall clock read by time.Now()
    TotalSupplyKey  \* the key "totalSupply"

VARIABLES
    state,      \* the world state: key -> stored value
    allowance,  \* allowance[owner, spender]: the value under the composite key
    now,        \* the wall clock time.Now() reads
    lastTx      \* function and creator of the last committed transaction

vars == <<state, allowance, now, lastTx>>

(* Before any transaction: no function, and an arbitrary caller. *)
NoTx == [fn |-> "none", caller |-> CHOOSE c \in Clients : TRUE]

ASSUME ConstantsAssumption ==
    /\ MaxInt \in Nat \ {0}
    /\ MaxTime \in Nat
    /\ Org1Clients \subseteq Clients
    /\ TimeLocks \subseteq Nat
    /\ BadTime \notin TimeLocks
    /\ Amounts \subseteq (-MaxInt - 1)..MaxInt
    /\ TotalSupplyKey \notin Clients
    /\ Clients # {}

-----------------------------------------------------------------------------
(* Go's int: a word of w bits, MaxInt = 2^(w-1) - 1; arithmetic wraps.     *)
MinInt == -MaxInt - 1
Modulus == 2 * (MaxInt + 1)
GoInt == MinInt..MaxInt
Wrap(x) == ((x - MinInt) % Modulus) + MinInt

Keys == Clients \cup HashLocks \cup {TotalSupplyKey}

(* The keys that hold a balance when they hold an int.                    *)
BalanceKeys == Keys \ {TotalSupplyKey}

(* The HTLC struct, stored JSON-encoded under its hashLock.               *)
HTLCRecs == [sender : Clients, recipient : Keys, amount : GoInt,
             hashLock : HashLocks, timeLock : TimeLocks,
             claimed : BOOLEAN, reverted : BOOLEAN, claimPassword : Passwords]

(* What GetState can return: nothing, an Itoa-encoded int, or an HTLC.    *)
Nil == [kind |-> "nil"]
IntVal(i) == [kind |-> "int", n |-> i]
HTLCVal(r) == [kind |-> "htlc", htlc |-> r]
Values == {Nil} \cup {IntVal(i) : i \in GoInt} \cup {HTLCVal(r) : r \in HTLCRecs}

(* strconv.Atoi(string(bytes)) with its error ignored: nil bytes and a    *)
(* JSON-encoded HTLC both decode to 0.                                     *)
Atoi(v) == IF v.kind = "int" THEN v.n ELSE 0

(* add(b, q): the wrapped sum and the code's overflow test.               *)
AddSum(b, q) == Wrap(q + b)
AddOKUnchecked(b, q) == TRUE
AddOK(b, q) ==
    ~(((AddSum(b, q) < q) \/ (AddSum(b, q) < b)) <=> (b >= 0 /\ q >= 0))

(* sub(b, q): fails unless 0 < q <= b; the difference cannot wrap.        *)
SubOK(b, q) == q > 0 /\ b >= q

(* transferHelper(from, to, value): its error returns, then its writes.   *)
TransferOK(from, to, value) ==
    LET fb == Atoi(state[from])
        tb == Atoi(state[to])
    IN  /\ from # to
        /\ value >= 0
        /\ state[from].kind # "nil"
        /\ ~(fb < value)
        /\ SubOK(fb, value)
        /\ AddOK(tb, value)
TransferWritesFromBalance(from, to, value) ==
    [state EXCEPT ![from] = IntVal(Atoi(state[from]) - value),
                  ![to]   = IntVal(AddSum(Atoi(state[from]), value))]
TransferWrites(from, to, value) ==
    [state EXCEPT ![from] = IntVal(Atoi(state[from]) - value),
                  ![to]   = IntVal(AddSum(Atoi(state[to]), value))]

(* time.Parse(time.RFC3339, timeLock) succeeds.                           *)
ParseTimeLockIgnored(tl) == TRUE
ParseTimeLockOK(tl) == tl # BadTime

(* GetHashTimeLock(hashLock) succeeds: the key holds an HTLC (nil is "not  *)
(* found", an int fails json.Unmarshal).                                   *)
IsHTLC(h) == state[h].kind = "htlc"

-----------------------------------------------------------------------------
Init ==
    /\ state = [k \in Keys |-> Nil]
    /\ allowance = [p \in Clients \X Clients |-> 0]
    /\ now = 0
    /\ lastTx = NoTx

Committed(fn, c) == lastTx' = [fn |-> fn, caller |-> c]

(* TransferConditional: pays recipient at once, then records the HTLC.    *)
TransferConditional(c, recipient, amount, h, tl, pw) ==
    /\ c \in Org1Clients
    /\ TransferOK(c, recipient, amount)
    /\ ParseTimeLockOK(tl)
    /\ state' = [TransferWrites(c, recipient, amount) EXCEPT
                    ![h] = HTLCVal([sender |-> c, recipient |-> recipient,
                                    amount |-> amount, hashLock |-> h,
                                    timeLock |-> tl, claimed |-> FALSE,
                                    reverted |-> FALSE, claimPassword |-> pw])]
    /\ Committed("TransferConditional", c)
    /\ UNCHANGED <<allowance, now>>

(* Claim: the caller pays the HTLC's recipient, and the HTLC is marked     *)
(* claimed.                                                                 *)
Claim(c, h, pw) ==
    /\ c \in Org1Clients
    /\ IsHTLC(h)
    /\ LET r == state[h].htlc IN
       /\ ~r.claimed
       /\ ~r.reverted
       /\ r.claimPassword = pw
       /\ ~(now < r.timeLock)
       /\ TransferOK(c, r.recipient, r.amount)
       /\ state' = [TransferWrites(c, r.recipient, r.amount) EXCEPT
                       ![h] = HTLCVal([r EXCEPT !.claimed = TRUE])]
    /\ Committed("Claim", c)
    /\ UNCHANGED <<allowance, now>>

(* Revert: the HTLC's recipient pays the caller, and the HTLC is marked    *)
(* reverted.                                                                *)
Revert(c, h) ==
    /\ c \in Org1Clients
    /\ IsHTLC(h)
    /\ LET r == state[h].htlc IN
       /\ ~r.claimed
       /\ ~r.reverted
       /\ ~(now < r.timeLock)
       /\ TransferOK(r.recipient, c, r.amount)
       /\ state' = [TransferWrites(r.recipient, c, r.amount) EXCEPT
                       ![h] = HTLCVal([r EXCEPT !.reverted = TRUE])]
    /\ Committed("Revert", c)
    /\ UNCHANGED <<allowance, now>>

Mint(c, amount) ==
    LET bal == Atoi(state[c])
        tot == Atoi(state[TotalSupplyKey])
    IN  /\ c \in Org1Clients
        /\ amount > 0
        /\ AddOK(bal, amount)
        /\ AddOK(tot, amount)
        /\ state' = [state EXCEPT ![c] = IntVal(AddSum(bal, amount)),
                                  ![TotalSupplyKey] = IntVal(AddSum(tot, amount))]
        /\ Committed("Mint", c)
        /\ UNCHANGED <<allowance, now>>

Burn(c, amount) ==
    LET bal == Atoi(state[c])
        tot == Atoi(state[TotalSupplyKey])
    IN  /\ c \in Org1Clients
        /\ amount > 0
        /\ state[c].kind # "nil"
        /\ SubOK(bal, amount)
        /\ state[TotalSupplyKey].kind # "nil"
        /\ SubOK(tot, amount)
        /\ state' = [state EXCEPT ![c] = IntVal(bal - amount),
                                  ![TotalSupplyKey] = IntVal(tot - amount)]
        /\ Committed("Burn", c)
        /\ UNCHANGED <<allowance, now>>

(* Transfer takes the sender as an argument; the caller is never checked.  *)
Transfer(c, sender, recipient, amount) ==
    /\ TransferOK(sender, recipient, amount)
    /\ state' = TransferWrites(sender, recipient, amount)
    /\ Committed("Transfer", c)
    /\ UNCHANGED <<allowance, now>>

Approve(c, spender, value) ==
    /\ allowance' = [allowance EXCEPT ![<<c, spender>>] = value]
    /\ Committed("Approve", c)
    /\ UNCHANGED <<state, now>>

TransferFrom(c, from, to, value) ==
    LET cur == allowance[<<from, c>>] IN
    /\ ~(cur < value)
    /\ TransferOK(from, to, value)
    /\ SubOK(cur, value)
    /\ state' = TransferWrites(from, to, value)
    /\ allowance' = [allowance EXCEPT ![<<from, c>>] = cur - value]
    /\ Committed("TransferFrom", c)
    /\ UNCHANGED now

(* The wall clock advances, up to the bound MaxTime.                      *)
Tick ==
    /\ now < MaxTime
    /\ now' = now + 1
    /\ UNCHANGED <<state, allowance, lastTx>>

(* The account arguments of Transfer (sender, recipient), of               *)
(* TransferConditional (recipient) and of TransferFrom (to) are strings     *)
(* the caller chooses and no function checks: they range over every key   *)
(* of the world state, "totalSupply" and the hash locks included.  A        *)
(* string that is no key acts as the account of a client that never        *)
(* calls.  TransferFrom's from is a client: the allowance it needs can     *)
(* only have been approved by a caller.                                    *)
Next ==
    \/ \E c \in Clients :
         \/ \E r \in Keys, a \in Amounts, h \in HashLocks,
               tl \in TimeLocks \cup {BadTime}, pw \in Passwords :
              TransferConditional(c, r, a, h, tl, pw)
         \/ \E h \in HashLocks, pw \in Passwords : Claim(c, h, pw)
         \/ \E h \in HashLocks : Revert(c, h)
         \/ \E a \in Amounts : Mint(c, a) \/ Burn(c, a)
         \/ \E s, r \in Keys, a \in Amounts : Transfer(c, s, r, a)
         \/ \E s \in Clients, a \in Amounts : Approve(c, s, a)
         \/ \E f \in Clients, t \in Keys, a \in Amounts : TransferFrom(c, f, t, a)
    \/ Tick

Spec == Init /\ [][Next]_vars

-----------------------------------------------------------------------------
Fns == {"TransferConditional", "Claim", "Revert", "Mint", "Burn",
        "Transfer", "Approve", "TransferFrom"}

TypeOK ==
    /\ state \in [Keys -> Values]
    /\ allowance \in [Clients \X Clients -> GoInt]
    /\ now \in 0..MaxTime
    /\ lastTx \in [fn : Fns \cup {"none"}, caller : Clients]

(* No overdraft and no wrap-around: every integer in the world state (a    *)
(* balance or the total supply) is non-negative.  It rests on sub's        *)
(* b >= q test and on add's overflow test in every function that writes    *)
(* a balance (transferHelper, Mint, Burn).                                 *)
NoOverdraft == \A k \in Keys : state[k].kind = "int" => state[k].n >= 0

(* How a committed transaction may move value, the step that keeps the    *)
(* total supply equal to the sum of the balances: either one account and   *)
(* the total supply change by the same amount (Mint, Burn) and no other    *)
(* balance moves, or the total supply stays and one balance key gains      *)
(* exactly what another loses (transferHelper in Transfer, TransferFrom,   *)
(* TransferConditional, Claim, Revert).  It rests on add's overflow test   *)
(* and sub's checks.  The chaincode keeps balances, the supply and the     *)
(* HTLCs in one key space and never checks which kind of key an argument   *)
(* names, so the step fails exactly for the calls in Aliasing: one that    *)
(* names "totalSupply" as an account (token_contract.go:398-406, 50, 576, *)
(* and an HTLC whose recipient it is), or that stores an HTLC (line 92)    *)
(* under a key holding a balance or under an account the same call pays    *)
(* or charges.                                                              *)
Delta(k) == Atoi(state'[k]) - Atoi(state[k])
MintedOrBurnt(c) ==
    /\ Delta(TotalSupplyKey) = Delta(c)
    /\ \A o \in BalanceKeys \ {c} : Delta(o) = 0
Moved(f, t) ==
    /\ f # t
    /\ Delta(TotalSupplyKey) = 0
    /\ Delta(t) = -Delta(f)
    /\ \A o \in BalanceKeys \ {f, t} : Delta(o) = 0
SupplyStep ==
    \/ \E c \in Clients : MintedOrBurnt(c)
    \/ \E f, t \in BalanceKeys : Moved(f, t)
KeyAliased(accounts, h) ==
    \/ TotalSupplyKey \in accounts
    \/ h \in accounts
    \/ Atoi(state[h]) # 0
Aliasing ==
    \/ \E c \in Clients, r \in Keys, a \in Amounts, h \in HashLocks,
          tl \in TimeLocks, pw \in Passwords :
          TransferConditional(c, r, a, h, tl, pw) /\ KeyAliased({c, r}, h)
    \/ \E c \in Clients, h \in HashLocks, pw \in Passwords :
          Claim(c, h, pw) /\ KeyAliased({c, state[h].htlc.recipient}, h)
    \/ \E c \in Clients, h \in HashLocks :
          Revert(c, h) /\ KeyAliased({c, state[h].htlc.recipient}, h)
    \/ \E c \in Clients, s, r \in Keys, a \in Amounts :
          Transfer(c, s, r, a) /\ TotalSupplyKey \in {s, r}
    \/ \E c, f \in Clients, a \in Amounts :
          TransferFrom(c, f, TotalSupplyKey, a)
SupplyMovesUnlessAliased == [][SupplyStep \/ Aliasing]_vars

(* Only the owner of an account, or a spender through TransferFrom, can    *)
(* lower its balance: Transfer's comment says it moves tokens "from client  *)
(* account to recipient account".                                          *)
NoUnauthorizedDebit ==
    [][\A a \in Clients :
          Atoi(state'[a]) < Atoi(state[a]) =>
              \/ lastTx'.caller = a
              \/ lastTx'.fn = "TransferFrom"]_vars

(* An HTLC is settled once: Claim and Revert refuse an HTLC already        *)
(* claimed or reverted, so a settled record must never change again.  It  *)
(* is about TransferConditional, which stores its HTLC under the given    *)
(* hashLock without looking at what the key holds.                         *)
SettledHTLCFinal ==
    [][\A h \in HashLocks :
          IsHTLC(h) /\ (state[h].htlc.claimed \/ state[h].htlc.reverted)
              => state'[h] = state[h]]_vars

(* transferHelper's comment: "transfer of 0 is allowed in ERC-20".  From   *)
(* an account that has a balance to another account, Transfer of 0 can    *)
(* always commit (add never overflows on 0).                               *)
ZeroTransferAccepted ==
    \A c, s, r \in Clients :
        s # r /\ state[s].kind = "int" => ENABLED Transfer(c, s, r, 0)

=============================================================================
