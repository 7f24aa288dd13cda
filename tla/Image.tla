------------------------------- MODULE Image -------------------------------
(***************************************************************************)
(* CImageModule: the size at which an image is shown                       *)
(* (src/src/htmlgen/module/image.cpp), from what its link asks for and     *)
(* what is recorded of its file.  A number that is not given is 0; sizes   *)
(* are ints, and what is beyond them, or is divided by 0, is not defined.  *)
(***************************************************************************)
EXTENDS Integers

CONSTANTS
  MaxInt,         \* the greatest int
  thumbnail_size  \* what "upright" scales, by halves

ASSUME IntsAssumption == MaxInt \in Nat /\ thumbnail_size \in Nat

Undefined == [width |-> -1, height |-> -1]

(* Variant: the height is computed from the height. *)
SizeTurned(asked, w, h) ==
  LET over(x, y, z) == z = 0 \/ x * y > MaxInt
      thumbnail == (thumbnail_size * asked.scale) \div 2
      set(width, height) == [width |-> width, height |-> height]
  IN CASE asked.width = 0 /\ asked.height = 0 /\ asked.framed ->
            IF over(thumbnail, w, h) THEN Undefined ELSE set(thumbnail, (thumbnail * w) \div h)
       [] asked.width = 0 /\ asked.height = 0 /\ ~asked.framed -> set(w, h)
       [] asked.width = 0 /\ asked.height # 0 ->
            IF over(asked.height, w, h) THEN Undefined
            ELSE set((asked.height * w) \div h, asked.height)
       [] asked.width # 0 /\ asked.height = 0 ->
            IF over(asked.width, h, w) THEN Undefined
            ELSE set(asked.width, (asked.width * h) \div w)
       [] OTHER -> set(asked.width, asked.height)

Size(asked, w, h) ==
  LET over(x, y, z) == z = 0 \/ x * y > MaxInt
      thumbnail == (thumbnail_size * asked.scale) \div 2
      set(width, height) == [width |-> width, height |-> height]
  IN CASE asked.width = 0 /\ asked.height = 0 /\ asked.framed ->
            IF over(thumbnail, h, w) THEN Undefined ELSE set(thumbnail, (thumbnail * h) \div w)
       [] asked.width = 0 /\ asked.height = 0 /\ ~asked.framed -> set(w, h)
       [] asked.width = 0 /\ asked.height # 0 ->
            IF over(asked.height, w, h) THEN Undefined
            ELSE set((asked.height * w) \div h, asked.height)
       [] asked.width # 0 /\ asked.height = 0 ->
            IF over(asked.width, h, w) THEN Undefined
            ELSE set(asked.width, (asked.width * h) \div w)
       [] OTHER -> set(asked.width, asked.height)

(* An image is shown in the proportions of its file, up to the rounding of the one size that   *)
(* is computed, which may be to 0, and with what its link asks for, unless the link asks for   *)
(* both.  Nothing is said of a file that is recorded with a width or a height of 0, nor of     *)
(* sizes whose product is no int.                                                               *)
InProportion(asked, w, h, size) ==
  LET off == size.width * h - size.height * w
  IN w > 0 /\ h > 0 /\ size # Undefined =>
       /\ asked.width # 0 => size.width = asked.width
       /\ asked.height # 0 => size.height = asked.height
       /\ asked.width = 0 \/ asked.height = 0 => IF asked.height # 0 THEN -h < off /\ off <= 0
                                                                     ELSE 0 <= off /\ off < w
=============================================================================
