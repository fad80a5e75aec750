------------------------------ MODULE Methods ------------------------------
(***************************************************************************)
(* figleaf.c: which functions main() installs in the context for a method. *)
(* The two tables of the code, for encryption and for decryption, agree    *)
(* but for the direction, so the functions are named here without it:      *)
(* "fpe_nonzero" is fpe_encrypt_nonzero or fpe_decrypt_nonzero.            *)
(***************************************************************************)
EXTENDS Integers

MethodNames == {"lsb", "noop", "drpe", "drpe-nz", "drpe-lsb", "drpe-lsb-nz",
                "mosaic", "shuffle", "gibbs"}

Kinds == {"DC", "AC"}   \* frequency 0, the other frequencies

Uses(dc, ac, dc_range, ac_range) == [crypto |-> [DC |-> dc, AC |-> ac],
                                     minmax |-> [DC |-> dc_range, AC |-> ac_range]]

Table(m) ==
  CASE m = "lsb"         -> Uses("lsb_dc", "lsb_ac", "poweroftwo", "poweroftwo")
    [] m = "noop"        -> Uses("noop", "noop", "NULL", "NULL")
    [] m = "drpe"        -> Uses("drpe_all", "drpe_all", "raw", "raw")
    [] m = "drpe-nz"     -> Uses("drpe_all", "drpe_nonzero", "raw", "raw")
    [] m = "drpe-lsb"    -> Uses("drpe_lsb_all", "drpe_all", "raw", "raw")
    [] m = "drpe-lsb-nz" -> Uses("drpe_lsb_all", "drpe_nonzero", "raw", "raw")
    [] m = "mosaic"      -> Uses("mosaic_fuzzy", "mosaic_zero", "NULL", "NULL")
    [] m = "shuffle"     -> Uses("shuffle", "fpe_nonzero", "NULL", "NULL")
    [] m = "gibbs"       -> Uses("gibbs", "fpe_nonzero", "bitmask", "poweroftwo")

(* Blocks of one DCT block leave their DC coefficient alone. *)
Context(m, blocksize) ==
  IF blocksize = 8 THEN [Table(m) EXCEPT !.crypto.DC = "noop", !.minmax.DC = "NULL"]
                   ELSE Table(m)

(* main() exits before it touches a file: there is nothing to decrypt. *)
Refused(mode, m) == mode = "decrypt" /\ m = "mosaic"

BlocksizeOK(blocksize) == blocksize > 0 /\ blocksize % 8 = 0
=============================================================================
