--------------------------- MODULE MCCardanoAddress ---------------------------
(***************************************************************************)
(* CardanoAddress with u32 scaled to 3 bits: indices 0..7, of which 4..7  *)
(* are hardened, as 2^31..u32::MAX are.  The inputs are a string that is  *)
(* not hex, a hex key of the wrong length, 64 bytes that are not a curve  *)
(* point, and two valid 64-byte keys, so that keys of different xpubs are  *)
(* told apart.                                                             *)
(***************************************************************************)
EXTENDS CardanoAddress

MCXpubInputs ==
    {[id |-> "not_hex",  hex |-> FALSE, bytes |-> 0,  onCurve |-> FALSE],
     [id |-> "short",    hex |-> TRUE,  bytes |-> 32, onCurve |-> FALSE],
     [id |-> "offcurve", hex |-> TRUE,  bytes |-> 64, onCurve |-> FALSE],
     [id |-> "xpub1",    hex |-> TRUE,  bytes |-> 64, onCurve |-> TRUE],
     [id |-> "xpub2",    hex |-> TRUE,  bytes |-> 64, onCurve |-> TRUE]}

MCHardened == 4
MCU32Max   == 7

=============================================================================
