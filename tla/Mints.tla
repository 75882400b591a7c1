-------------------------------- MODULE Mints --------------------------------
(***************************************************************************)
(* What create_market.rs reads of the two mints, byte by byte.  A mint of  *)
(* Token-2022 may carry extensions; one of them, PermanentDelegate, lets   *)
(* its holder empty any account of the mint, and the program refuses it.   *)
(* It finds it by walking the account's bytes, whose layout is the token   *)
(* program's, not this one's.                                              *)
(*                                                                         *)
(* A token program's account is [program, kind, initialized, decimals,     *)
(* exts], exts being a sequence of [type, len].                            *)
(***************************************************************************)
EXTENDS Naturals, Sequences

PermanentDelegate == 12

-----------------------------------------------------------------------------
(* The token programs' layout                                              *)

\* What an account passed as a mint may hold: extensions of any u16 type and
\* u16 length, and none under the program that has no extensions.
Shorts  == 0 .. 65535
ExtType == [type : Shorts, len : Shorts]
IsTokenAccount(m) ==
  /\ m.kind \in {"mint", "account"} /\ m.initialized \in BOOLEAN /\ m.decimals \in Nat
  /\ m.exts \in Seq(ExtType)
  /\ m.program = "legacy" => m.exts = <<>>

Delegated(m) == \E k \in DOMAIN m.exts : m.exts[k].type = PermanentDelegate

\* One entry: type, length, both u16, and the value; the values' bytes repeat
\* the delegate's type, so that a walk off the entries' grid would find it.
Entry(e) ==
  <<e.type % 256, e.type \div 256, e.len % 256, e.len \div 256>>
  \o [j \in 1 .. e.len |-> IF j % 2 = 1 THEN PermanentDelegate ELSE 0]

Entries(exts) ==
  LET upTo[k \in 0 .. Len(exts)] == IF k = 0 THEN <<>> ELSE upTo[k - 1] \o Entry(exts[k])
  IN upTo[Len(exts)]

\* The base structs are 82 and 165 bytes long; an extended account of either
\* kind has its kind at byte 165 and its entries from byte 166 on.
BaseLen(m) == IF m.kind = "mint" THEN 82 ELSE 165
DataLen(m) == IF m.exts = <<>> THEN BaseLen(m) ELSE 166 + Len(Entries(m.exts))

Byte(m, i) ==
  IF i = 44 THEN m.decimals
  ELSE IF i = 45 THEN IF m.initialized THEN 1 ELSE 0
  ELSE IF i < 165 THEN 0
  ELSE IF i = 165 THEN IF m.kind = "mint" THEN 1 ELSE 2
  ELSE Entries(m.exts)[i - 165]

-----------------------------------------------------------------------------
(* What the program makes of it                                            *)

\* mint_token_program_flag.
KnownProgram(m) == m.program \in {"legacy", "2022"}

MintTlvOffset == 166

\* mint_decimals: length, initialization and, on an extended account, kind.
MintReadable(m) ==
  LET len == DataLen(m)
  IN /\ IF m.program = "2022" THEN len >= 82 ELSE len = 82
     /\ Byte(m, 45) # 0
     /\ m.program = "2022" /\ len > 82 =>
          len > MintTlvOffset - 1 /\ Byte(m, MintTlvOffset - 1) = 1

\* The walk of has_permanent_delegate_bytes, entry by entry from an offset on.
DelegateFrom(m, start) ==
  LET len    == DataLen(m)
      U16(i) == Byte(m, i) + 256 * Byte(m, i + 1)
      from[i \in Nat] ==
        IF i + 4 > len THEN FALSE
        ELSE IF U16(i) = PermanentDelegate THEN TRUE
        ELSE from[i + 4 + U16(i + 2)]
  IN len > 82 /\ from[start]

\* Faulty: starts at the offset within the extension region, as an earlier
\* version of the code did.
HasPermanentDelegateRelative(m) == DelegateFrom(m, 83)

HasPermanentDelegate(m) == DelegateFrom(m, MintTlvOffset)

MintAccepted(m) ==
  /\ KnownProgram(m) /\ MintReadable(m)
  /\ m.program = "2022" => ~HasPermanentDelegate(m)
=============================================================================
