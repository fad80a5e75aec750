----------------------------- MODULE MCFigleaf -----------------------------
(***************************************************************************)
(* Figleaf with three directories and two names, and pictures in the first *)
(* directory only.  The command lines cover batches and single files, both *)
(* modes, salted and unsalted keys, input and output that are the same, an *)
(* output that is renamed, missing or a directory, the default method by   *)
(* name and without, another one with an argument, and refused options.    *)
(***************************************************************************)
EXTENDS Figleaf

MCDirs == {"photos", "shared", "restored"}
MCNames == {"x.jpg", "y.jpg"}
MCInitialFiles ==
  [f \in Files |-> IF f[1] = "photos" THEN [pic |-> f[2], ops |-> <<>>] ELSE Absent]

Line(mode, in, out, salted) ==
  [modes |-> {mode}, from |-> in, to |-> out, method |-> "", blocksize |-> 16,
   argument |-> 0, passphrase |-> "secret", salted |-> salted]
WithMethod(line, method, argument) == [line EXCEPT !.method = method, !.argument = argument]

MCInvocations == {
  Line("encrypt", Dir("photos"), Dir("shared"), TRUE),
  Line("decrypt", Dir("shared"), Dir("restored"), TRUE),
  Line("encrypt", Dir("photos"), Dir("photos"), FALSE),
  WithMethod(Line("encrypt", <<"photos", "x.jpg">>, <<"shared", "y.jpg">>, FALSE), "gibbs", 3),
  WithMethod(Line("decrypt", <<"shared", "y.jpg">>, <<"restored", "x.jpg">>, FALSE), "gibbs", 3),
  Line("encrypt", <<"photos", "x.jpg">>, <<"shared", "y.jpg">>, TRUE),
  WithMethod(Line("decrypt", <<"shared", "x.jpg">>, <<"restored", "y.jpg">>, TRUE), "drpe-lsb", 0),
  Line("encrypt", <<"photos", "x.jpg">>, Dir("shared"), TRUE),
  Line("encrypt", Dir("nowhere"), <<"shared", "x.jpg">>, TRUE),
  [Line("encrypt", Dir("photos"), Dir("shared"), TRUE) EXCEPT !.blocksize = 0],
  [Line("encrypt", Dir("photos"), Dir("shared"), TRUE) EXCEPT !.modes = {"encrypt", "decrypt"}],
  [Line("decrypt", Dir("shared"), Dir("photos"), FALSE) EXCEPT !.method = "mosaic"]}
=============================================================================
