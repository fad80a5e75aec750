---------------------------- MODULE ImageCipher ----------------------------
(***************************************************************************)
(* What tpe_process_image promises, without saying in which order it works:*)
(* the coefficients of an image fall into units, no two units share a      *)
(* coefficient or a tweak, and a pass puts every unit through the block    *)
(* cipher once, with the unit's own tweak.  The second pass decrypts, and  *)
(* has the same units and tweaks as the first.                             *)
(***************************************************************************)
CONSTANTS
  Crypt(_, _, _)   \* (pass, tweak, block): the block after the pass

VARIABLES
  pass,    \* "encrypt", "decrypt", "done"
  image,   \* the coefficients, a function on cells
  todo,    \* the units the pass has not processed yet
  units    \* all of them: records of a tweak and a set of cells

vars == <<pass, image, todo, units>>

(* units divides the cells of the image, and tells its parts apart. *)
WellDivided ==
  /\ UNION {u.cells : u \in units} = DOMAIN image
  /\ \A u, v \in units : u # v => /\ u.cells \cap v.cells = {}
                                  /\ u.tweak # v.tweak

Init == pass = "encrypt" /\ todo = units /\ WellDivided

Contents(u) == [k \in u.cells |-> image[k]]

Process(u) ==
  /\ todo' = todo \ {u}
  /\ image' = [k \in DOMAIN image |->
                 IF k \in u.cells THEN Crypt(pass, u.tweak, Contents(u))[k]
                                  ELSE image[k]]
  /\ UNCHANGED <<pass, units>>

EndPass ==
  /\ todo = {}
  /\ \/ pass = "encrypt" /\ pass' = "decrypt" /\ todo' = units
     \/ pass = "decrypt" /\ pass' = "done" /\ todo' = {}
  /\ UNCHANGED <<image, units>>

Next == (\E u \in todo : Process(u)) \/ EndPass

Spec == Init /\ [][Next]_vars
=============================================================================
