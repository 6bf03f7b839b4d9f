------------------------------ MODULE Tokens_proofs ------------------------------
(***************************************************************************)
(* What appending blocks can do to a token (cori-biscuit/src/token.rs): it *)
(* takes rights away and gives none, whoever appends and however often.    *)
(***************************************************************************)
EXTENDS Tokens, TLAPS

\* Times are numbers of seconds.
Blocks == Seq([tenant : STRING, expiry : SUBSET Nat])
Token(token) == token = [key |-> token.key, role |-> token.role, blocks |-> token.blocks]
                /\ token.blocks \in Blocks

\* `later' is `token' after any number of attenuations.
Extends(later, token) ==
    /\ later.key = token.key /\ later.role = token.role
    /\ Len(token.blocks) <= Len(later.blocks)
    /\ \A i \in DOMAIN token.blocks : later.blocks[i] = token.blocks[i]

LEMMA AttenuateExtends ==
    ASSUME NEW token, Token(token), NEW tenant \in STRING, NEW expiry \in SUBSET Nat
    PROVE  Token(Attenuate(token, tenant, expiry)) /\ Extends(Attenuate(token, tenant, expiry), token)
<1>. DEFINE block == [tenant |-> tenant, expiry |-> expiry]
            later == Attenuate(token, tenant, expiry)
<1>1. block \in [tenant : STRING, expiry : SUBSET Nat] /\ token.blocks \in Blocks
  BY DEF Token
<1>2. later = [key |-> token.key, role |-> token.role, blocks |-> Append(token.blocks, block)]
  <2>1. [token EXCEPT !.blocks = Append(token.blocks, block)]
          = [key |-> token.key, role |-> token.role, blocks |-> Append(token.blocks, block)]
    BY DEF Token
  <2>. QED BY <2>1 DEF Attenuate
<1>3. /\ Append(token.blocks, block) \in Blocks
      /\ Len(Append(token.blocks, block)) = Len(token.blocks) + 1
      /\ Len(token.blocks) \in Nat /\ DOMAIN token.blocks = 1..Len(token.blocks)
      /\ \A i \in 1..Len(token.blocks) : Append(token.blocks, block)[i] = token.blocks[i]
  <2>. HIDE DEF block
  <2>. QED BY <1>1 DEF Blocks
<1>. HIDE DEF later, block
<1>4. Token(later) /\ Extends(later, token)
  BY <1>1, <1>2, <1>3 DEF Token, Extends
<1>. QED BY <1>4 DEF later

LEMMA ExtendsTransitive ==
    ASSUME NEW first, NEW second, NEW third, Token(first), Token(second), Token(third),
           Extends(second, first), Extends(third, second)
    PROVE  Extends(third, first)
<1>1. /\ DOMAIN first.blocks = 1..Len(first.blocks) /\ Len(first.blocks) \in Nat
      /\ DOMAIN second.blocks = 1..Len(second.blocks) /\ Len(second.blocks) \in Nat
      /\ Len(third.blocks) \in Nat
  BY DEF Token, Blocks
<1>. QED BY <1>1 DEF Extends

(***************************************************************************)
(* Attenuation only narrows.  What a token with blocks appended verifies   *)
(* as, at any time and under any key, the token it was made from verifies  *)
(* as too, with the same role and, once a tenant was named, the same       *)
(* tenant: a second tenant changes nothing, and a later expiry does not    *)
(* outlive an earlier one (verify, extract_tenant_from_blocks).            *)
(***************************************************************************)
THEOREM AttenuationNarrows ==
    ASSUME NEW token, Token(token), NEW later, Token(later), Extends(later, token),
           NEW key, NEW now \in Nat, NEW verdict \in Verify(later, key, now)
    PROVE  \E original \in Verify(token, key, now) :
              /\ original.role = verdict.role
              /\ original.tenant = {} \/ original.tenant = verdict.tenant
<1>1. /\ DOMAIN token.blocks = 1..Len(token.blocks) /\ Len(token.blocks) \in Nat
      /\ DOMAIN later.blocks = 1..Len(later.blocks) /\ Len(later.blocks) \in Nat
  BY DEF Token, Blocks
<1>2. Parses(later, key) /\ ChecksHold(later, now)
      /\ verdict = [role |-> later.role, tenant |-> TenantOf(later)]
  BY DEF Verify
<1>3. Parses(token, key)
  BY <1>2 DEF Parses, Extends
<1>4. ChecksHold(token, now)
  <2>1. \A i \in DOMAIN token.blocks : i \in DOMAIN later.blocks /\ later.blocks[i] = token.blocks[i]
    BY <1>1 DEF Extends
  <2>. QED BY <1>2, <2>1 DEF ChecksHold
<1>5. TenantOf(token) = {} \/ TenantOf(token) = TenantOf(later)
  <2>1. CASE token.blocks = <<>>
    BY <2>1 DEF TenantOf
  <2>2. CASE token.blocks # <<>>
    <3>1. 1 \in DOMAIN token.blocks
      BY <1>1, <2>2 DEF Token, Blocks
    <3>2. later.blocks[1] = token.blocks[1] /\ later.blocks # <<>>
      BY <1>1, <3>1 DEF Extends
    <3>. QED BY <2>2, <3>2 DEF TenantOf
  <2>. QED BY <2>1, <2>2
<1>. DEFINE original == [role |-> token.role, tenant |-> TenantOf(token)]
<1>6. original \in Verify(token, key, now)
  BY <1>3, <1>4 DEF Verify
<1>7. original.role = verdict.role
  BY <1>2 DEF Extends
<1>8. original.tenant = {} \/ original.tenant = verdict.tenant
  BY <1>2, <1>5
<1>. QED BY <1>6, <1>7, <1>8
=============================================================================
