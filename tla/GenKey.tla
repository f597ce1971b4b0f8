------------------------------- MODULE GenKey -------------------------------
(***************************************************************************)
(* gen_key of src/apps/hat/control.c: the 16-bit register that supplies    *)
(* the keys of the hat, as the set of its bits.                            *)
(*                                                                         *)
(* C computes the shifts in int and stores the result in a uint16_t, so    *)
(* the bits a left shift pushes beyond bit 15 are dropped.                 *)
(***************************************************************************)
EXTENDS Naturals

Bits == 0 .. 15

uint16 == [Bits -> BOOLEAN]

VARIABLES lfsr_key,
          made       \* ghost: calls of gen_key, modulo 65535

(* key ^= key >> n and key ^= key << n.                                    *)
XorShiftedRight(key, n) == [b \in Bits |-> key[b] # (b + n \in Bits /\ key[b + n])]
XorShiftedLeft(key, n) == [b \in Bits |-> key[b] # (b >= n /\ key[b - n])]

(* Seeded faults: `=' in place of `^='; a shift by 12.                     *)
gen_key_assigns(key) == [b \in Bits |-> b + 7 \in Bits /\ key[b + 7]]
gen_key_12(key) == XorShiftedRight(XorShiftedLeft(XorShiftedRight(key, 7), 9), 12)

gen_key(key) == XorShiftedRight(XorShiftedLeft(XorShiftedRight(key, 7), 9), 13)

(* 0xB00B *)
Initial == [b \in Bits |-> b \in {0, 1, 3, 12, 13, 15}]

(* The key 0, which the racer has until it is sent another. *)
Zero == [b \in Bits |-> FALSE]

KeyInit == lfsr_key = Initial /\ made = 0

KeyNext ==
  /\ lfsr_key' = gen_key(lfsr_key)
  /\ made' = IF made = 65534 THEN 0 ELSE made + 1

KeySpec == KeyInit /\ [][KeyNext]_<<lfsr_key, made>>

-----------------------------------------------------------------------------
(* Type invariant.                                                         *)
KeyTypeOK == lfsr_key \in uint16 /\ made \in 0 .. 65534

(* No key of the hat is the racer's initial key: a racer that has just     *)
(* been switched on accepts no command before it has been sent a key.      *)
NeverZero == lfsr_key # Zero

(* The initial key comes back after 65535 calls and not before.  gen_key   *)
(* merges no two keys (GenKeyIsOneToOne), so all keys until then differ,   *)
(* and a command kept from an earlier key is refused.                      *)
FullPeriod == lfsr_key = Initial <=> made = 0
=============================================================================
