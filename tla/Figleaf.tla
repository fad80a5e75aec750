------------------------------ MODULE Figleaf ------------------------------
(***************************************************************************)
(* figleaf.c: runs of the program, one after the other, on the files of a  *)
(* few directories.  A run checks its options, finds the files to process  *)
(* and takes them one by one: it opens both files, which empties the       *)
(* output, reads the picture, encrypts or decrypts it and writes it.  A    *)
(* run that fails exits where it is and leaves the files as they are.      *)
(*                                                                         *)
(* What a cipher does to a picture is left open: a picture is its original *)
(* and the list of all that runs did to it, each with the parameters that  *)
(* it was done with.  Decryption adds to that list like encryption; what   *)
(* it recovers is a matter of the method (see TpeBlock and LsbTpe: most    *)
(* lose something), and what runs have to agree on for it is here.         *)
(***************************************************************************)
EXTENDS Methods, SequencesExt

CONSTANTS
  Dirs,         \* the directories that exist
  Names,        \* the names of files, all matching *.jpg
  Pictures,     \* the pictures that files hold at first
  InitialFiles, \* what every file holds at first
  Invocations,  \* the command lines to consider
  MaxRuns       \* bound: the number of runs

(* A path is a directory and a name in it; "." is the directory itself.    *)
Files == Dirs \X Names
Dir(d) == <<d, ".">>
NotGiven == <<"", "">>   \* the path of a missing option
NoFile == <<"NULL", "">> \* a null pointer, or a path below what is no directory

Absent  == [pic |-> "absent", ops |-> <<>>]
Empty   == [pic |-> "empty", ops |-> <<>>]
Damaged == [pic |-> "damaged", ops |-> <<>>]   \* the beginning of a JPEG file

ASSUME FigleafAssumption ==
  /\ "." \notin Names /\ NoFile \notin Files
  /\ Pictures \cap {"absent", "empty", "damaged"} = {}
  /\ InitialFiles \in
       [Files -> {Absent} \cup {[pic |-> p, ops |-> <<>>] : p \in Pictures}]
  /\ MaxRuns \in Nat

VARIABLES
  pc,      \* "idle" between two runs; else where the run is
  status,  \* how the last run ended: "ok", "failed", or "none"
  files,   \* what every file holds
  ctx,     \* the command line of the run
  todo,    \* the files that are still to be processed
  job,     \* the input and the output file of figleaf_process_image
  coeffs,  \* the picture in memory
  runs,    \* history: how often the program was started
  before,  \* history: files when the run began
  log      \* history: the runs that succeeded, what they found and what they left

history == <<runs, before, log>>
vars == <<pc, status, files, ctx, todo, job, coeffs, history>>

Job(in, out) == [input |-> in, output |-> out]
NoJob == Job(NoFile, NoFile)

(* Everything main() checks before it looks at a file.  There is one of -e *)
(* and -d in modes; a method that is not given is drpe-lsb.                *)
MethodOf(c) == IF c.method = "" THEN "drpe-lsb" ELSE c.method

Accepted(c) ==
  /\ \E mode \in {"encrypt", "decrypt"} :
       c.modes = {mode} /\ ~Refused(mode, MethodOf(c))
  /\ c.from # NotGiven /\ c.to # NotGiven
  /\ c.passphrase # ""
  /\ BlocksizeOK(c.blocksize)
  /\ MethodOf(c) \in MethodNames

(* isdir() does not look at the result of stat(): of a path that does not  *)
(* exist it tells what happened to be in memory.                           *)
isdir(p) ==
  CASE p[2] = "." /\ p[1] \in Dirs            -> {TRUE}
    [] p \in Files /\ files[p] # Absent       -> {FALSE}
    [] OTHER                                  -> BOOLEAN

path_join(p, name) == IF p[2] = "." /\ p[1] \in Dirs THEN <<p[1], name>> ELSE NoFile

(* Mutants, here and below: plausible slips in the code that follows. *)
SaltByOutput(c, jb) == IF c.salted THEN jb.output[2] ELSE ""

(* With -s the key depends on the basename of the input file. *)
Salt(c, jb) == IF c.salted THEN jb.input[2] ELSE ""

(* kdf_hash hashes the one after the other; the pair stands for the hash,  *)
(* which for one passphrase is another with another salt.                  *)
Key(c, jb) == <<c.passphrase, Salt(c, jb)>>

(* What the ciphers get to know but for the picture: the key, and from the *)
(* context the functions of the method, the size of a block and -a.        *)
Parameters(c, jb) == [key |-> Key(c, jb), method |-> MethodOf(c),
                      blocksize |-> c.blocksize, argument |-> c.argument]

(* Whatever a damaged file still gave is damaged afterwards.               *)
tpe_process_image(img, c, jb) ==
  IF img.pic \in Pictures
  THEN [img EXCEPT !.ops = Append(@, [mode |-> CHOOSE mode \in c.modes : TRUE,
                                      with |-> Parameters(c, jb)])]
  ELSE img

NoInvocation == [modes |-> {}, from |-> NotGiven, to |-> NotGiven, method |-> "",
                 blocksize |-> 0, argument |-> 0, passphrase |-> "", salted |-> FALSE]

Init ==
  /\ pc = "idle" /\ status = "none"
  /\ files = InitialFiles
  /\ ctx = NoInvocation
  /\ todo = {} /\ job = NoJob /\ coeffs = Absent
  /\ before = files
  /\ runs = 0 /\ log = <<>>

(* The program is started. *)
Run ==
  /\ pc = "idle" /\ runs < MaxRuns
  /\ ctx' \in Invocations
  /\ runs' = runs + 1 /\ before' = files
  /\ IF Accepted(ctx') THEN pc' = "find" /\ status' = "none"
                       ELSE pc' = "idle" /\ status' = "failed"
  /\ todo' = {} /\ job' = NoJob /\ coeffs' = Absent
  /\ UNCHANGED <<files, log>>

Exit == pc' = "idle" /\ status' = "failed"

(* glob() lists the directory in any order; without a match main() exits.  *)
Directory ==
  /\ pc = "find"
  /\ TRUE \in isdir(ctx.from)
  /\ \E output_isdir \in isdir(ctx.to) :
       LET matches == {f \in Files : f[1] = ctx.from[1] /\ ctx.from[2] = "."
                                       /\ files[f] # Absent}
           jobs == {Job(f, path_join(ctx.to, f[2])) : f \in matches}
       IN  IF output_isdir /\ matches # {}
           THEN pc' = "open" /\ todo' = jobs /\ UNCHANGED status
           ELSE Exit /\ UNCHANGED todo
  /\ UNCHANGED <<files, ctx, job, coeffs, history>>

(* If the output is a directory, the path in it is assigned to a variable  *)
(* of the inner block, and the one that is passed on remains NULL.         *)
SingleFile ==
  /\ pc = "find"
  /\ FALSE \in isdir(ctx.from)
  /\ \E output_isdir \in isdir(ctx.to) :
       todo' = {Job(ctx.from, IF output_isdir THEN NoFile ELSE ctx.to)}
  /\ pc' = "open"
  /\ UNCHANGED <<status, files, ctx, job, coeffs, history>>

OpenTwice ==
  /\ pc = "open"
  /\ \E jb \in todo :
       /\ job' = jb /\ todo' = todo
       /\ IF jb.input \in Files /\ files[jb.input] # Absent /\ jb.output \in Files
          THEN /\ files' = [files EXCEPT ![jb.output] = Empty]
               /\ pc' = "read" /\ UNCHANGED status
          ELSE Exit /\ UNCHANGED files
  /\ UNCHANGED <<ctx, coeffs, history>>

(* figleaf_process_image opens the input file, then the output file.       *)
Open ==
  /\ pc = "open"
  /\ \E jb \in todo :
       /\ job' = jb /\ todo' = todo \ {jb}
       /\ IF jb.input \in Files /\ files[jb.input] # Absent /\ jb.output \in Files
          THEN /\ files' = [files EXCEPT ![jb.output] = Empty]
               /\ pc' = "read" /\ UNCHANGED status
          ELSE Exit /\ UNCHANGED files
  /\ UNCHANGED <<ctx, coeffs, history>>

(* The header and the coefficients.  libjpeg exits when there is no header *)
(* but only warns when the file ends too early.                            *)
Read ==
  /\ pc = "read"
  /\ coeffs' = files[job.input]
  /\ IF files[job.input] = Empty THEN Exit ELSE pc' = "crypt" /\ UNCHANGED status
  /\ UNCHANGED <<files, ctx, todo, job, history>>

Crypt ==
  /\ pc = "crypt"
  /\ coeffs' = tpe_process_image(coeffs, ctx, job)
  /\ pc' = "write"
  /\ UNCHANGED <<status, files, ctx, todo, job, history>>

WriteToInput ==
  /\ pc = "write"
  /\ files' = [files EXCEPT ![job.input] = coeffs]
  /\ pc' = "open"
  /\ UNCHANGED <<status, ctx, todo, job, coeffs, history>>

(* jpeg_return_blocks to fclose, and the next iteration of main()'s loop. *)
Write ==
  /\ pc = "write"
  /\ files' = [files EXCEPT ![job.output] = coeffs]
  /\ pc' = "open"
  /\ UNCHANGED <<status, ctx, todo, job, coeffs, history>>

Done ==
  /\ pc = "open" /\ todo = {}
  /\ pc' = "idle" /\ status' = "ok"
  /\ log' = Append(log, [ctx |-> ctx, found |-> before, left |-> files])
  /\ UNCHANGED <<files, ctx, todo, job, coeffs, runs, before>>

GoOnAfterFailure ==
  /\ pc \in {"read", "write"}
  /\ files' = [files EXCEPT ![job.output] = Damaged]
  /\ pc' = "open"
  /\ UNCHANGED <<status, ctx, todo, job, coeffs, history>>

(* The run ends early: a file cannot be opened or written, libjpeg exits   *)
(* because of what is in a file or a coefficient is too large to encode,   *)
(* or somebody interrupts the program.                                     *)
Fail ==
  /\ pc # "idle"
  /\ \/ UNCHANGED files
     \/ pc = "write" /\ files' = [files EXCEPT ![job.output] = Damaged]
  /\ Exit
  /\ UNCHANGED <<ctx, todo, job, coeffs, history>>

Step == Directory \/ SingleFile \/ Open \/ Read \/ Crypt \/ Write \/ Done

Next == Run \/ Step \/ Fail

(* A started program runs on; nobody has to start or to interrupt it.      *)
Spec == Init /\ [][Next]_vars /\ WF_vars(Step)
-----------------------------------------------------------------------------
(* What a run with the command line c has to do when it finds the files as *)
(* they are in found.                                                      *)
Inputs(c, found) ==
  IF c.from[2] = "." THEN {f \in Files : f[1] = c.from[1] /\ found[f] # Absent}
                     ELSE {c.from} \cap Files

Target(c, f) == IF c.to[2] = "." THEN <<c.to[1], f[2]>> ELSE c.to

Result(c, found, f) == tpe_process_image(found[f], c, Job(f, Target(c, f)))

(* A run that exits with status 0 has written every file it was to write,  *)
(* from what the inputs held when it began; in particular no run succeeds  *)
(* whose output is its own input.                                          *)
SuccessMeansComplete ==
  status = "ok" =>
    \A f \in Inputs(ctx, before) : files[Target(ctx, f)] = Result(ctx, before, f)

(* Wherever a run is, and wherever a failed one has stopped, every file is *)
(* as it was or is a complete output, except for at most one: the output   *)
(* that the run was working on.                                            *)
FailureIsLocal ==
  \A p \in Files :
    \/ files[p] = before[p]
    \/ \E f \in Inputs(ctx, before) : p = Target(ctx, f) /\ files[p] = Result(ctx, before, f)
    \/ p = job.output

(* One run encrypts, another one decrypts what it left, with the same      *)
(* options.  A method that is not given is drpe-lsb in either.             *)
Undoes(d, e) ==
  /\ e.ctx.modes = {"encrypt"} /\ d.ctx.modes = {"decrypt"}
  /\ MethodOf(e.ctx) = MethodOf(d.ctx)
  /\ \A option \in {"blocksize", "argument", "passphrase", "salted"} :
       e.ctx[option] = d.ctx[option]

(* All that the two did to the picture of f is what the ciphers of one run *)
(* made of it and those of the other made of that; and they had the same   *)
(* parameters if and only if the name the file was encrypted under is the  *)
(* one it is decrypted under, or the key has no salt.                      *)
Answered(e, d, f) ==
  LET g == Target(e.ctx, f)
      plain == e.found[f]
      made == d.left[Target(d.ctx, g)]
      n == Len(plain.ops)
  IN  /\ made.pic = plain.pic /\ Len(made.ops) = n + 2 /\ SubSeq(made.ops, 1, n) = plain.ops
      /\ made.ops[n + 1].mode = "encrypt" /\ made.ops[n + 2].mode = "decrypt"
      /\ made.ops[n + 1].with = made.ops[n + 2].with <=> (e.ctx.salted => f[2] = g[2])

(* Whatever runs came in between, what -d does to the outputs of -e with   *)
(* the same options it does with the key, functions, block size and        *)
(* argument of -e, unless a salted file has another name by then           *)
(* (figleaf.c:75: "decryption will fail if the filename is changed").  How *)
(* much of the picture ciphers recover then is said in TpeBlock and LsbTpe.*)
ParametersAgree ==
  \A d, e \in Range(log) : Undoes(d, e) =>
    \A f \in Inputs(e.ctx, e.found) :
      LET g == Target(e.ctx, f)
      IN  e.found[f].pic \in Pictures /\ g \in Inputs(d.ctx, d.found) /\ d.found[g] = e.left[g]
            => Answered(e, d, f)

(* The program always exits, however many files there are to process.      *)
EveryRunEnds == (pc # "idle") ~> (pc = "idle")
=============================================================================
