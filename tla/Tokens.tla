--------------------------------- MODULE Tokens ---------------------------------
(***************************************************************************)
(* Role tokens and agent tokens (cori-biscuit/src/token.rs).               *)
(*                                                                         *)
(* A biscuit is an authority block under the minting key, and blocks that  *)
(* were appended since.  Of the authority block only the role is read      *)
(* back; of the others, the tenant and the time until which it holds.  The *)
(* signatures are the biscuit library's: a token parses under the public   *)
(* key of the pair that minted it and under no other.                      *)
(***************************************************************************)
EXTENDS Naturals, Sequences

MintRoleToken(key, role) == [key |-> key, role |-> role, blocks |-> <<>>]

Parses(token, key) == token.key = key

\* attenuate: whoever has the private key may append another tenant.  expiry is
\* an option.
Attenuate(token, tenant, expiry) ==
    [token EXCEPT !.blocks = Append(token.blocks, [tenant |-> tenant, expiry |-> expiry])]

\* The checks of every block: time($time), $time < expires_at.
ChecksHold(token, now) ==
    \A i \in DOMAIN token.blocks : \A e \in token.blocks[i].expiry : now < e

\* extract_tenant_from_blocks: the first block that names a tenant, and every
\* block does.
TenantOf(token) == IF token.blocks = <<>> THEN {} ELSE {token.blocks[1].tenant}

\* verify: an option of [role, tenant], tenant an option too.
Verify(token, key, now) ==
    IF Parses(token, key) /\ ChecksHold(token, now)
    THEN {[role |-> token.role, tenant |-> TenantOf(token)]}
    ELSE {}
=============================================================================
