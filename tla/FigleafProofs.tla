---------------------------- MODULE FigleafProofs ----------------------------
(***************************************************************************)
(* Proofs about the runs of the program, for any files, any command lines  *)
(* and any number of runs: a run that succeeds has done all its work, a    *)
(* run that fails has damaged nothing but the output it was working on,    *)
(* and a run that decrypts what another one encrypted with the same options*)
(* uses the same parameters unless a salted file was renamed.              *)
(***************************************************************************)
EXTENDS Figleaf, SequenceTheorems, TLAPS

USE FigleafAssumption

(* What files and memory hold. *)
PicNames == Pictures \cup {"absent", "empty", "damaged"}
Salts == Names \cup {""}
Known == {[key |-> <<c.passphrase, s>>, method |-> MethodOf(c),
           blocksize |-> c.blocksize, argument |-> c.argument] : c \in Invocations, s \in Salts}
Ops == [mode : {"encrypt", "decrypt"}, with : Known]
Images == [pic : PicNames, ops : Seq(Ops)]
Contents == [Files -> Images]

(* What a run that succeeded leaves behind. *)
Complete(c, found, left, f) == left[Target(c, f)] = Result(c, found, f)

EntryOK(e) ==
  /\ e.ctx \in Invocations /\ e.found \in Contents /\ e.left \in Contents
  /\ \A f \in Inputs(e.ctx, e.found) : Complete(e.ctx, e.found, e.left, f)

Entries == [ctx : Invocations, found : Contents, left : Contents]

TypeInv ==
  /\ pc \in {"idle", "find", "open", "read", "crypt", "write"}
  /\ status \in {"none", "ok", "failed"}
  /\ files \in Contents /\ before \in Contents
  /\ pc # "idle" => ctx \in Invocations /\ Accepted(ctx)
  /\ status = "ok" => pc = "idle"
  /\ coeffs \in Images
  /\ log \in Seq(Entries)

(* The jobs of the run as they should be, and those that fail in Open.     *)
Mine == Inputs(ctx, before)
Proper(jb) == jb.input \in Mine /\ jb = Job(jb.input, Target(ctx, jb.input))
Hopeless(jb) == jb.input \notin Files \/ jb.output \notin Files

(* No output is an input or the output of another file. *)
Apart ==
  \A f, g \in Mine : Target(ctx, f) = Target(ctx, g) \/ Target(ctx, f) = g => f = g

Finished(f) == Complete(ctx, before, files, f)
AtWork == pc \in {"read", "crypt", "write"}

(* Every file is untouched or finished. *)
Clean(p) ==
  \/ files[p] = before[p]
  \/ \E f \in Mine : p = Target(ctx, f) /\ files[p] = Result(ctx, before, f)

FindInv == pc = "find" => files = before

TodoInv ==
  pc = "open" \/ AtWork =>
    /\ \A jb \in todo : Hopeless(jb) \/ Proper(jb)
    /\ \A jb \in todo : ~ Hopeless(jb) => Apart /\ files[jb.input] = before[jb.input]
    /\ \A f \in Mine : \/ \E jb \in todo : jb.input = f
                       \/ Finished(f)
                       \/ AtWork /\ job.input = f

JobInv == AtWork => Proper(job) /\ ~ Hopeless(job) /\ Apart /\ job \notin todo

CleanInv ==
  /\ pc = "open" => \A p \in Files : Clean(p)
  /\ AtWork \/ pc = "idle" => \A p \in Files : Clean(p) \/ p = job.output

PictureInv ==
  /\ pc = "read" => files[job.input] \in {before[job.input], Empty}
  /\ pc = "crypt" => coeffs = before[job.input]
  /\ pc = "write" => coeffs = Result(ctx, before, job.input)

OkInv == status = "ok" => \A f \in Mine : Finished(f)

WorkInv == FindInv /\ TodoInv /\ JobInv /\ CleanInv /\ PictureInv /\ OkInv

LogInv == \A e \in Range(log) : EntryOK(e)

IInv == TypeInv /\ WorkInv /\ LogInv
-----------------------------------------------------------------------------
(* An operation, as the ciphers that do it know it. *)
Mode(c) == CHOOSE mode \in c.modes : TRUE
Op(c, jb) == [mode |-> Mode(c), with |-> Parameters(c, jb)]
Added(img, op) == [img EXCEPT !.ops = Append(@, op)]

(* tpe_process_image adds what it does to what was done to the picture.    *)
LEMMA ProcessedAdds ==
  ASSUME NEW img, img.pic \in Pictures, NEW c, NEW jb
  PROVE  tpe_process_image(img, c, jb) = Added(img, Op(c, jb))
BY DEF tpe_process_image, Op, Mode, Added

(* What figleaf_process_image makes of a picture. *)
LEMMA ProcessedIsImage ==
  ASSUME NEW img \in Images, NEW c \in Invocations, Accepted(c), NEW jb, jb.input \in Files
  PROVE  tpe_process_image(img, c, jb) \in Images
<1>1. Mode(c) \in {"encrypt", "decrypt"}
  <2>1. PICK m \in {"encrypt", "decrypt"} : c.modes = {m}
    BY DEF Accepted
  <2>2. QED
    BY <2>1 DEF Mode
<1>2. Salt(c, jb) \in Salts
  BY DEF Salt, Salts, Files
<1>3. Parameters(c, jb) \in Known
  BY <1>2 DEF Known, Parameters, Key
<1>4. Op(c, jb) \in Ops
  BY <1>1, <1>3 DEF Ops, Op
<1>5. CASE img.pic \notin Pictures
  BY <1>5 DEF tpe_process_image
<1>6. CASE img.pic \in Pictures
  <2>1. tpe_process_image(img, c, jb) = Added(img, Op(c, jb))
    BY <1>6, ProcessedAdds
  <2>2. Append(img.ops, Op(c, jb)) \in Seq(Ops)
    BY <1>4 DEF Images
  <2>3. QED
    BY <2>1, <2>2 DEF Images, Added
<1>7. QED
  BY <1>5, <1>6

(* With the same options, the parameters differ only when the salt does.   *)
LEMMA SameParameters ==
  ASSUME NEW d, NEW e, Undoes(d, e), NEW jb, NEW kb
  PROVE  Parameters(e.ctx, jb) = Parameters(d.ctx, kb) <=> Salt(e.ctx, jb) = Salt(d.ctx, kb)
<1>1. /\ e.ctx["blocksize"] = d.ctx["blocksize"] /\ e.ctx["argument"] = d.ctx["argument"]
      /\ e.ctx["passphrase"] = d.ctx["passphrase"] /\ MethodOf(e.ctx) = MethodOf(d.ctx)
  BY DEF Undoes
<1>2. Key(e.ctx, jb) = Key(d.ctx, kb) <=> Salt(e.ctx, jb) = Salt(d.ctx, kb)
  BY <1>1 DEF Key
<1>3. QED
  BY <1>1, <1>2 DEF Parameters

(* Two operations after what a picture had before. *)
LEMMA TwoOps ==
  ASSUME NEW S, NEW s \in Seq(S), NEW a \in S, NEW b \in S, NEW t, t = Append(Append(s, a), b)
  PROVE  /\ Len(t) = Len(s) + 2 /\ SubSeq(t, 1, Len(s)) = s
         /\ t[Len(s) + 1] = a /\ t[Len(s) + 2] = b
<1>1. /\ t \in Seq(S) /\ Len(t) = Len(s) + 2 /\ Len(s) \in Nat
      /\ t[Len(s) + 1] = a /\ t[Len(s) + 2] = b
      /\ \A i \in 1 .. Len(s) : t[i] = s[i]
  OBVIOUS
<1>2. SubSeq(t, 1, Len(s)) \in Seq(S) /\ Len(SubSeq(t, 1, Len(s))) = Len(s)
      /\ \A i \in 1 .. Len(s) : SubSeq(t, 1, Len(s))[i] = t[i]
  BY <1>1, SubSeqProperties
<1>3. SubSeq(t, 1, Len(s)) = s
  BY <1>1, <1>2, SeqEqual
<1>4. QED
  BY <1>1, <1>3

(* A file is not a directory, and the null pointer is neither.             *)
LEMMA FileFacts ==
  /\ \A p \in Files : p[2] \in Names /\ p[2] # "." /\ p[1] \in Dirs /\ p = <<p[1], p[2]>>
  /\ NoFile \notin Files
BY DEF Files

(* The inputs of a run are files.                                          *)
LEMMA InputsAreFiles ==
  ASSUME NEW c, NEW found
  PROVE  Inputs(c, found) \subseteq Files
BY DEF Inputs

(* What a run makes of an input is a picture.                              *)
LEMMA ResultIsImage ==
  ASSUME NEW c \in Invocations, Accepted(c), NEW found \in Contents, NEW f \in Files
  PROVE  Result(c, found, f) \in Images
<1> DEFINE jb == Job(f, Target(c, f))
<1>1. jb.input \in Files /\ found[f] \in Images
  BY DEF Job, Contents
<1> HIDE DEF jb
<1>2. tpe_process_image(found[f], c, jb) \in Images
  BY <1>1, ProcessedIsImage
<1>3. QED
  BY <1>2 DEF Result, jb

(* As long as a run goes on, its duties are the same.                      *)
LEMMA SameRun ==
  ASSUME ctx' = ctx, before' = before
  PROVE  /\ Mine' = Mine
         /\ Apart' <=> Apart
         /\ \A jb : Proper(jb)' <=> Proper(jb)
         /\ \A p : files'[p] = files[p] => (Clean(p)' <=> Clean(p))
         /\ \A f : files'[Target(ctx, f)] = files[Target(ctx, f)] => (Finished(f)' <=> Finished(f))
<1>1. Mine' = Mine
  BY DEF Mine
<1>2. Apart' <=> Apart
  BY <1>1 DEF Apart
<1>3. \A jb : Proper(jb)' <=> Proper(jb)
  BY <1>1 DEF Proper
<1>4. \A p : files'[p] = files[p] => (Clean(p)' <=> Clean(p))
  BY <1>1 DEF Clean
<1>5. \A f : files'[Target(ctx, f)] = files[Target(ctx, f)] => (Finished(f)' <=> Finished(f))
  BY DEF Finished, Complete
<1>6. QED
  BY <1>1, <1>2, <1>3, <1>4, <1>5

(* Before the first run there is nothing to be wrong.                      *)
LEMMA InitInv == Init => IInv
<1> SUFFICES ASSUME Init PROVE IInv
  OBVIOUS
<1>1. Absent \in Images /\ \A p \in Pictures : [pic |-> p, ops |-> <<>>] \in Images
  BY DEF Absent, Images, PicNames
<1>2. files \in Contents /\ before \in Contents
  BY <1>1 DEF Init, Contents
<1>3. log \in Seq(Entries) /\ Range(log) = {}
  BY DEF Init, Range
<1>4. TypeInv
  BY <1>1, <1>2, <1>3 DEF Init, TypeInv
<1>5. WorkInv
  <2>1. \A p \in Files : Clean(p)
    BY DEF Init, Clean
  <2>2. QED
    BY <2>1 DEF Init, WorkInv, FindInv, TodoInv, JobInv, CleanInv, PictureInv, OkInv, AtWork
<1>6. LogInv
  BY <1>3 DEF LogInv
<1>7. QED
  BY <1>4, <1>5, <1>6 DEF IInv

(* A run begins: whatever the files hold is what it finds.                 *)
LEMMA RunStep ==
  ASSUME TypeInv, WorkInv, Run
  PROVE  TypeInv' /\ WorkInv'
<1>1. /\ ctx' \in Invocations /\ before' = files /\ files' = files
      /\ coeffs' = Absent /\ log' = log
      /\ \/ Accepted(ctx') /\ pc' = "find" /\ status' = "none"
         \/ pc' = "idle" /\ status' = "failed"
  BY DEF Run
<1>2. Absent \in Images
  BY DEF Absent, Images, PicNames
<1>3. TypeInv'
  BY <1>1, <1>2 DEF TypeInv
<1>4. \A p \in Files : Clean(p)'
  BY <1>1 DEF Clean
<1>5. WorkInv'
  BY <1>1, <1>4 DEF WorkInv, FindInv, TodoInv, JobInv, CleanInv, PictureInv, OkInv, AtWork
<1>6. QED
  BY <1>3, <1>5

(* When a run has found its files, everything is as it was; what is to do  *)
(* will fail, or is the run's duty and interferes with nothing.            *)
LEMMA FoundStep ==
  ASSUME TypeInv, WorkInv, pc = "find",
         files' = files, ctx' = ctx, coeffs' = coeffs, before' = before, log' = log,
         \/ pc' = "idle" /\ status' = "failed"
         \/ /\ pc' = "open" /\ status' = status
            /\ \A jb \in todo' : Hopeless(jb) \/ (Proper(jb) /\ Apart)
            /\ \A f \in Mine : \E jb \in todo' : jb.input = f
  PROVE  TypeInv' /\ WorkInv'
<1>1. TypeInv'
  BY DEF TypeInv
<1>2. files = before
  BY DEF WorkInv, FindInv
<1>3. /\ Mine' = Mine /\ (Apart' <=> Apart)
      /\ \A jb : Proper(jb)' <=> Proper(jb)
  BY SameRun
<1>4. \A p \in Files : Clean(p)'
  BY <1>2 DEF Clean
<1>5. TodoInv'
  BY <1>2, <1>3 DEF TodoInv, AtWork
<1>6. pc' \in {"idle", "open"} /\ status' # "ok"
  BY DEF TypeInv
<1>7. WorkInv'
  BY <1>4, <1>5, <1>6 DEF WorkInv, FindInv, JobInv, CleanInv, PictureInv, OkInv, AtWork
<1>8. QED
  BY <1>1, <1>7

(* What main() finds in a directory: the outputs have the names of the     *)
(* inputs, so two inputs never share an output.                            *)
LEMMA DirectoryStep ==
  ASSUME TypeInv, WorkInv, Directory
  PROVE  TypeInv' /\ WorkInv'
<1> DEFINE matches == {f \in Files : f[1] = ctx.from[1] /\ ctx.from[2] = "." /\ files[f] # Absent}
           jobs == {Job(f, path_join(ctx.to, f[2])) : f \in matches}
<1>1. /\ pc = "find" /\ files' = files /\ ctx' = ctx /\ coeffs' = coeffs
      /\ before' = before /\ log' = log
      /\ \/ pc' = "idle" /\ status' = "failed"
         \/ pc' = "open" /\ status' = status /\ todo' = jobs /\ matches # {}
  BY DEF Directory, Exit, history
<1>2. CASE pc' = "idle" /\ status' = "failed"
  BY <1>1, <1>2, FoundStep
<1>3. CASE pc' = "open" /\ status' = status /\ todo' = jobs /\ matches # {}
  <2>1. ctx.from[2] = "." /\ files = before
    BY <1>1, <1>3 DEF WorkInv, FindInv
  <2>2. Mine = matches
    BY <2>1 DEF Mine, Inputs
  <2>3. \A f \in Mine : \E jb \in todo' : jb.input = f
    <3>1. SUFFICES ASSUME NEW f \in matches PROVE \E jb \in jobs : jb.input = f
      BY <1>3, <2>2
    <3>2. Job(f, path_join(ctx.to, f[2])) \in jobs
      OBVIOUS
    <3>3. Job(f, path_join(ctx.to, f[2])).input = f
      BY DEF Job
    <3>4. QED
      BY <3>2, <3>3
  <2>4. ASSUME NEW jb \in todo' PROVE Hopeless(jb) \/ (Proper(jb) /\ Apart)
    <3>1. PICK f \in matches : jb = Job(f, path_join(ctx.to, f[2]))
      BY <1>3, <2>4
    <3>2. CASE ctx.to[2] = "." /\ ctx.to[1] \in Dirs
      <4>1. \A g : Target(ctx, g) = <<ctx.to[1], g[2]>>
        BY <3>2 DEF Target
      <4>2. jb = Job(f, Target(ctx, f)) /\ jb.input = f
        BY <3>1, <3>2, <4>1 DEF path_join, Job
      <4>3. \A p, q \in matches : p[2] = q[2] => p = q
        BY FileFacts
      <4>4. \A p, q \in Mine : Target(ctx, p) = Target(ctx, q) => p = q
        <5>1. SUFFICES ASSUME NEW p \in Mine, NEW q \in Mine, Target(ctx, p) = Target(ctx, q)
                       PROVE  p = q
          OBVIOUS
        <5>2. <<ctx.to[1], p[2]>> = <<ctx.to[1], q[2]>>
          BY <4>1, <5>1
        <5>3. p[2] = q[2]
          BY <5>2
        <5>4. QED
          BY <2>2, <4>3, <5>3
      <4>5. \A p, q \in Mine : Target(ctx, p) = q => p[2] = q[2]
        BY <4>1
      <4>6. Apart
        BY <2>2, <4>3, <4>4, <4>5 DEF Apart
      <4>7. QED
        BY <2>2, <4>2, <4>6 DEF Proper
    <3>3. CASE ~ (ctx.to[2] = "." /\ ctx.to[1] \in Dirs)
      <4>1. path_join(ctx.to, f[2]) = NoFile
        BY <3>3 DEF path_join
      <4>2. jb.output = NoFile
        BY <3>1, <4>1 DEF Job
      <4>3. jb.output \notin Files
        BY <4>2, FileFacts
      <4>4. QED
        BY <4>3 DEF Hopeless
    <3>4. QED
      BY <3>2, <3>3
  <2>5. QED
    BY <1>1, <1>3, <2>3, <2>4, FoundStep
<1>4. QED
  BY <1>1, <1>2, <1>3

(* A single input file; the path it gets may be the null pointer.          *)
LEMMA SingleFileStep ==
  ASSUME TypeInv, WorkInv, SingleFile
  PROVE  TypeInv' /\ WorkInv'
<1>1. /\ pc = "find" /\ files' = files /\ ctx' = ctx /\ coeffs' = coeffs
      /\ before' = before /\ log' = log /\ pc' = "open" /\ status' = status
      /\ FALSE \in isdir(ctx.from)
  BY DEF SingleFile, history
<1>2. PICK out \in {NoFile, ctx.to} : todo' = {Job(ctx.from, out)}
  BY DEF SingleFile
<1>3. ~ (ctx.from[2] = "." /\ ctx.from[1] \in Dirs)
  <2>1. SUFFICES ASSUME ctx.from[2] = ".", ctx.from[1] \in Dirs PROVE FALSE
    OBVIOUS
  <2>2. ctx.from \notin Files
    BY <2>1, FileFacts
  <2>3. isdir(ctx.from) = {TRUE}
    BY <2>1, <2>2 DEF isdir
  <2>4. QED
    BY <1>1, <2>3
<1>4. Mine = {ctx.from} \cap Files
  <2>1. CASE ctx.from[2] = "."
    <3>1. \A f \in Files : f # ctx.from /\ f[1] # ctx.from[1]
      BY <1>3, <2>1, FileFacts
    <3>2. QED
      BY <2>1, <3>1 DEF Mine, Inputs
  <2>2. CASE ctx.from[2] # "."
    BY <2>2 DEF Mine, Inputs
  <2>3. QED
    BY <2>1, <2>2
<1>5. Apart
  BY <1>4 DEF Apart
<1>6. Job(ctx.from, out).input = ctx.from /\ Job(ctx.from, out).output = out
  BY DEF Job
<1>7. \A f \in Mine : \E jb \in todo' : jb.input = f
  BY <1>2, <1>4, <1>6
<1>8. Hopeless(Job(ctx.from, out)) \/ Proper(Job(ctx.from, out))
  <2>1. CASE ctx.from \in Files /\ out \in Files
    <3>1. out = ctx.to /\ ctx.to[2] # "."
      BY <2>1, FileFacts
    <3>2. Target(ctx, ctx.from) = out
      BY <3>1 DEF Target
    <3>3. QED
      BY <1>4, <1>6, <2>1, <3>2 DEF Proper
  <2>2. CASE ~ (ctx.from \in Files /\ out \in Files)
    BY <1>6, <2>2 DEF Hopeless
  <2>3. QED
    BY <2>1, <2>2
<1>9. \A jb \in todo' : Hopeless(jb) \/ (Proper(jb) /\ Apart)
  BY <1>2, <1>5, <1>8
<1>10. QED
  BY <1>1, <1>7, <1>9, FoundStep

(* Opening the output empties it.  No input of another job is emptied, and *)
(* no output that is finished.                                             *)
LEMMA OpenStep ==
  ASSUME TypeInv, WorkInv, Open
  PROVE  TypeInv' /\ WorkInv'
<1>1. /\ pc = "open" /\ ctx' = ctx /\ before' = before /\ coeffs' = coeffs /\ log' = log
  BY DEF Open, history
<1>2. PICK jb \in todo :
        /\ job' = jb /\ todo' = todo \ {jb}
        /\ \/ /\ jb.input \in Files /\ jb.output \in Files
              /\ files' = [files EXCEPT ![jb.output] = Empty]
              /\ pc' = "read" /\ status' = status
           \/ pc' = "idle" /\ status' = "failed" /\ files' = files
  BY DEF Open, Exit
<1>3. /\ Mine' = Mine /\ (Apart' <=> Apart)
      /\ \A j : Proper(j)' <=> Proper(j)
      /\ \A p : files'[p] = files[p] => (Clean(p)' <=> Clean(p))
      /\ \A f : files'[Target(ctx, f)] = files[Target(ctx, f)] => (Finished(f)' <=> Finished(f))
  BY <1>1, SameRun
<1>4. \A p \in Files : Clean(p)
  BY <1>1 DEF WorkInv, CleanInv
<1>5. CASE pc' = "idle" /\ status' = "failed" /\ files' = files
  <2>1. TypeInv'
    BY <1>1, <1>5 DEF TypeInv
  <2>2. \A p \in Files : Clean(p)'
    BY <1>3, <1>4, <1>5
  <2>3. WorkInv'
    BY <1>5, <2>2 DEF WorkInv, FindInv, TodoInv, JobInv, CleanInv, PictureInv, OkInv, AtWork
  <2>4. QED
    BY <2>1, <2>3
<1>6. CASE /\ jb.input \in Files /\ jb.output \in Files
           /\ files' = [files EXCEPT ![jb.output] = Empty]
           /\ pc' = "read" /\ status' = status
  <2>1. /\ \A j \in todo : Hopeless(j) \/ Proper(j)
        /\ \A j \in todo : ~ Hopeless(j) => Apart /\ files[j.input] = before[j.input]
        /\ \A f \in Mine : (\E j \in todo : j.input = f) \/ Finished(f)
    BY <1>1 DEF WorkInv, TodoInv, AtWork
  <2>2. /\ ~ Hopeless(jb) /\ Proper(jb) /\ Apart
        /\ files[jb.input] = before[jb.input]
    BY <1>6, <2>1 DEF Hopeless
  <2>3. /\ jb.input \in Mine /\ jb.output = Target(ctx, jb.input)
        /\ \A j : Proper(j) /\ j.input = jb.input => j = jb
    BY <2>2 DEF Proper, Job
  <2>4. Mine \subseteq Files
    BY InputsAreFiles DEF Mine
  <2>5. files \in Contents /\ Empty \in Images
    BY DEF TypeInv, Empty, Images, PicNames
  <2>6. files' \in Contents /\ \A p \in Files : p # jb.output => files'[p] = files[p]
    BY <1>6, <2>5 DEF Contents
  <2>7. files'[jb.output] = Empty
    BY <1>6, <2>5 DEF Contents
  <2>8. TypeInv'
    BY <1>1, <1>6, <2>6 DEF TypeInv
  <2>9. \A j \in todo' : ~ Hopeless(j) => files'[j.input] = before[j.input]
    <3>1. SUFFICES ASSUME NEW j \in todo', ~ Hopeless(j) PROVE files'[j.input] = before[j.input]
      OBVIOUS
    <3>2. j \in todo /\ j # jb /\ Proper(j) /\ files[j.input] = before[j.input]
      BY <1>2, <2>1, <3>1
    <3>3. j.input \in Mine
      BY <3>2 DEF Proper
    <3>4. j.input # jb.output
      BY <2>2, <2>3, <3>2, <3>3 DEF Apart
    <3>5. QED
      BY <2>4, <2>6, <3>2, <3>3, <3>4
  <2>10. \A f \in Mine : (\E j \in todo' : j.input = f) \/ Finished(f)' \/ job'.input = f
    <3>1. SUFFICES ASSUME NEW f \in Mine, f # jb.input, ~ \E j \in todo' : j.input = f
                   PROVE  Finished(f)'
      BY <1>2
    <3>2. Finished(f)
      BY <1>2, <2>1, <3>1
    <3>3. Target(ctx, f) # jb.output
      BY <2>2, <2>3, <3>1 DEF Apart
    <3>4. files'[Target(ctx, f)] = files[Target(ctx, f)]
      BY <1>6, <2>5, <3>3 DEF Contents
    <3>5. QED
      BY <1>3, <3>2, <3>4
  <2>11. TodoInv'
    BY <1>1, <1>2, <1>3, <1>6, <2>1, <2>2, <2>9, <2>10 DEF TodoInv, AtWork
  <2>12. JobInv'
    BY <1>2, <1>3, <2>2 DEF JobInv
  <2>13. \A p \in Files : Clean(p)' \/ p = jb.output
    BY <1>3, <1>4, <2>6
  <2>14. files'[jb.input] \in {before[jb.input], Empty}
    BY <1>6, <2>2, <2>6, <2>7
  <2>15. status' # "ok"
    BY <1>1, <1>6 DEF TypeInv
  <2>16. QED
    BY <1>1, <1>2, <1>6, <2>8, <2>11, <2>12, <2>13, <2>14, <2>15
       DEF WorkInv, FindInv, CleanInv, PictureInv, OkInv, AtWork
<1>7. QED
  BY <1>2, <1>5, <1>6

(* What is known while a picture is being worked on.                       *)
LEMMA Working ==
  ASSUME TypeInv, WorkInv, AtWork
  PROVE  /\ job.input \in Mine /\ job.input \in Files /\ job.output \in Files
         /\ job = Job(job.input, Target(ctx, job.input)) /\ job.output = Target(ctx, job.input)
         /\ Apart /\ Proper(job) /\ job \notin todo
         /\ ctx \in Invocations /\ Accepted(ctx)
         /\ \A f \in Mine : f # job.input => Target(ctx, f) # job.output
<1>1. Proper(job) /\ ~ Hopeless(job) /\ Apart /\ job \notin todo
  BY DEF WorkInv, JobInv
<1>2. /\ job.input \in Mine /\ job.input \in Files /\ job.output \in Files
      /\ job = Job(job.input, Target(ctx, job.input))
  BY <1>1 DEF Proper, Hopeless
<1>3. job.output = Target(ctx, job.input)
  BY <1>2 DEF Job
<1>4. ctx \in Invocations /\ Accepted(ctx)
  BY DEF TypeInv, AtWork
<1>5. QED
  BY <1>1, <1>2, <1>3, <1>4 DEF Apart

(* A step that goes on with the same job and leaves the files alone.       *)
LEMMA SameJob ==
  ASSUME TypeInv, WorkInv, AtWork, AtWork',
         files' = files, ctx' = ctx, todo' = todo, job' = job, before' = before
  PROVE  FindInv' /\ TodoInv' /\ JobInv' /\ CleanInv'
<1>1. /\ Mine' = Mine /\ (Apart' <=> Apart)
      /\ \A j : Proper(j)' <=> Proper(j)
      /\ \A p : Clean(p)' <=> Clean(p)
      /\ \A f : Finished(f)' <=> Finished(f)
  BY SameRun
<1>2. FindInv'
  BY DEF FindInv, AtWork
<1>3. TodoInv'
  BY <1>1 DEF WorkInv, TodoInv
<1>4. JobInv'
  BY <1>1 DEF WorkInv, JobInv
<1>5. CleanInv'
  BY <1>1 DEF WorkInv, CleanInv, AtWork
<1>6. QED
  BY <1>2, <1>3, <1>4, <1>5

(* An end without success: the files are left as they are.                 *)
LEMMA ExitStep ==
  ASSUME TypeInv, WorkInv, Exit, pc # "idle", coeffs' \in Images,
         files' \in Contents, \A p \in Files : p # job.output => files'[p] = files[p],
         ctx' = ctx, job' = job, before' = before, log' = log
  PROVE  TypeInv' /\ WorkInv'
<1>1. pc' = "idle" /\ status' = "failed"
  BY DEF Exit
<1>2. TypeInv'
  BY <1>1 DEF TypeInv
<1>3. \A p \in Files : Clean(p) \/ p = job.output
  BY DEF TypeInv, AtWork, WorkInv, FindInv, CleanInv, Clean
<1>4. \A p \in Files : Clean(p)' \/ p = job.output
  BY <1>3, SameRun
<1>5. WorkInv'
  BY <1>1, <1>4 DEF WorkInv, FindInv, TodoInv, JobInv, CleanInv, PictureInv, OkInv, AtWork
<1>6. QED
  BY <1>2, <1>5

(* The input holds what it held at first, or has been emptied as it is the *)
(* output too, and then libjpeg exits.                                     *)
LEMMA ReadStep ==
  ASSUME TypeInv, WorkInv, Read
  PROVE  TypeInv' /\ WorkInv'
<1>1. /\ pc = "read" /\ files' = files /\ ctx' = ctx /\ todo' = todo /\ job' = job
      /\ before' = before /\ log' = log /\ coeffs' = files[job.input]
  BY DEF Read, history
<1>2. AtWork
  BY <1>1 DEF AtWork
<1>3. job.input \in Files
  BY <1>2, Working
<1>4. coeffs' \in Images
  BY <1>1, <1>3 DEF TypeInv, Contents
<1>5. CASE files[job.input] = Empty
  <2>1. Exit /\ files' \in Contents
    BY <1>1, <1>5 DEF Read, TypeInv
  <2>2. QED
    BY <1>1, <1>4, <2>1, ExitStep
<1>6. CASE files[job.input] # Empty
  <2>1. pc' = "crypt" /\ status' = status /\ status # "ok"
    BY <1>1, <1>6 DEF Read, TypeInv
  <2>2. TypeInv'
    BY <1>1, <1>4, <2>1 DEF TypeInv
  <2>3. FindInv' /\ TodoInv' /\ JobInv' /\ CleanInv'
    BY <1>1, <1>2, <2>1, SameJob DEF AtWork
  <2>4. coeffs' = before'[job'.input]
    BY <1>1, <1>6 DEF WorkInv, PictureInv
  <2>5. QED
    BY <2>1, <2>2, <2>3, <2>4 DEF WorkInv, PictureInv, OkInv
<1>7. QED
  BY <1>5, <1>6

(* The picture in memory becomes what the run has to make of it.           *)
LEMMA CryptStep ==
  ASSUME TypeInv, WorkInv, Crypt
  PROVE  TypeInv' /\ WorkInv'
<1>1. /\ pc = "crypt" /\ files' = files /\ ctx' = ctx /\ todo' = todo /\ job' = job
      /\ before' = before /\ log' = log /\ pc' = "write" /\ status' = status
      /\ coeffs' = tpe_process_image(coeffs, ctx, job)
  BY DEF Crypt, history
<1>2. AtWork
  BY <1>1 DEF AtWork
<1>3. /\ job.input \in Files /\ job = Job(job.input, Target(ctx, job.input))
      /\ ctx \in Invocations /\ Accepted(ctx)
  BY <1>2, Working
<1>4. coeffs' = Result(ctx, before, job.input)
  BY <1>1, <1>3 DEF WorkInv, PictureInv, Result
<1>5. before \in Contents /\ status # "ok"
  BY <1>1 DEF TypeInv
<1>6. coeffs' \in Images
  BY <1>3, <1>4, <1>5, ResultIsImage
<1>7. TypeInv'
  BY <1>1, <1>6 DEF TypeInv
<1>8. FindInv' /\ TodoInv' /\ JobInv' /\ CleanInv'
  BY <1>1, <1>2, SameJob DEF AtWork
<1>9. QED
  BY <1>1, <1>4, <1>5, <1>7, <1>8 DEF WorkInv, PictureInv, OkInv

(* Writing finishes the job and, as no input of another job is its output, *)
(* spoils none.                                                            *)
LEMMA WriteStep ==
  ASSUME TypeInv, WorkInv, Write
  PROVE  TypeInv' /\ WorkInv'
<1>1. /\ pc = "write" /\ files' = [files EXCEPT ![job.output] = coeffs] /\ pc' = "open"
      /\ status' = status /\ ctx' = ctx /\ todo' = todo /\ job' = job /\ coeffs' = coeffs
      /\ before' = before /\ log' = log
  BY DEF Write, history
<1>2. AtWork
  BY <1>1 DEF AtWork
<1>3. /\ job.input \in Mine /\ job.input \in Files /\ job.output \in Files
      /\ job = Job(job.input, Target(ctx, job.input)) /\ job.output = Target(ctx, job.input)
      /\ Apart /\ job \notin todo
      /\ \A f \in Mine : f # job.input => Target(ctx, f) # job.output
  BY <1>2, Working
<1>4. coeffs = Result(ctx, before, job.input) /\ coeffs \in Images /\ files \in Contents
  BY <1>1 DEF WorkInv, PictureInv, TypeInv
<1>5. /\ files' \in Contents /\ files'[job.output] = Result(ctx, before, job.input)
      /\ \A p : p # job.output /\ p \in Files => files'[p] = files[p]
  BY <1>1, <1>3, <1>4 DEF Contents
<1>6. TypeInv'
  BY <1>1, <1>5 DEF TypeInv
<1>7. /\ Mine' = Mine /\ (Apart' <=> Apart)
      /\ \A j : Proper(j)' <=> Proper(j)
      /\ \A p : files'[p] = files[p] => (Clean(p)' <=> Clean(p))
      /\ \A f : files'[Target(ctx, f)] = files[Target(ctx, f)] => (Finished(f)' <=> Finished(f))
  BY <1>1, SameRun
<1>8. \A p \in Files : Clean(p)'
  <2>1. ASSUME NEW p \in Files, p = job.output PROVE Clean(p)'
    BY <1>1, <1>3, <1>5, <1>7, <2>1 DEF Clean
  <2>2. \A p \in Files : p # job.output => Clean(p)
    BY <1>2 DEF WorkInv, CleanInv
  <2>3. QED
    BY <1>5, <1>7, <2>1, <2>2
<1>9. TodoInv'
  <2>1. /\ \A j \in todo : Hopeless(j) \/ Proper(j)
        /\ \A j \in todo : ~ Hopeless(j) => files[j.input] = before[j.input]
        /\ \A f \in Mine : (\E j \in todo : j.input = f) \/ Finished(f) \/ job.input = f
    BY <1>2 DEF WorkInv, TodoInv
  <2>2. \A j \in todo : ~ Hopeless(j) => files'[j.input] = before[j.input]
    <3>1. SUFFICES ASSUME NEW j \in todo, ~ Hopeless(j) PROVE files'[j.input] = before[j.input]
      OBVIOUS
    <3>2. j.input \in Mine /\ j = Job(j.input, Target(ctx, j.input)) /\ j.input \in Files
      BY <2>1, <3>1 DEF Proper, Hopeless
    <3>3. j.input # job.input
      BY <1>3, <3>2
    <3>4. j.input # job.output
      BY <1>3, <3>2, <3>3 DEF Apart
    <3>5. QED
      BY <1>5, <2>1, <3>1, <3>2, <3>4
  <2>3. \A f \in Mine : (\E j \in todo : j.input = f) \/ Finished(f)'
    <3>1. ASSUME NEW f \in Mine, f = job.input PROVE Finished(f)'
      BY <1>1, <1>3, <1>5, <3>1 DEF Finished, Complete
    <3>2. SUFFICES ASSUME NEW f \in Mine, f # job.input, Finished(f) PROVE Finished(f)'
      BY <2>1, <3>1
    <3>3. files'[Target(ctx, f)] = files[Target(ctx, f)]
      BY <1>1, <1>3, <1>4, <3>2 DEF Contents
    <3>4. QED
      BY <1>7, <3>2, <3>3
  <2>4. QED
    BY <1>1, <1>3, <1>7, <2>1, <2>2, <2>3 DEF TodoInv, AtWork
<1>10. status' # "ok"
  BY <1>1 DEF TypeInv
<1>11. QED
  BY <1>1, <1>6, <1>8, <1>9, <1>10 DEF WorkInv, FindInv, JobInv, CleanInv, PictureInv, OkInv, AtWork

(* When nothing is left to do, all duties are done.                        *)
LEMMA DoneStep ==
  ASSUME TypeInv, WorkInv, LogInv, Done
  PROVE  TypeInv' /\ WorkInv' /\ LogInv'
<1> DEFINE entry == [ctx |-> ctx, found |-> before, left |-> files]
<1>1. /\ pc = "open" /\ todo = {} /\ pc' = "idle" /\ status' = "ok"
      /\ log' = Append(log, entry) /\ files' = files /\ ctx' = ctx /\ coeffs' = coeffs
      /\ before' = before /\ job' = job
  BY DEF Done
<1>2. ctx \in Invocations /\ files \in Contents /\ before \in Contents /\ log \in Seq(Entries)
  BY <1>1 DEF TypeInv
<1>3. entry \in Entries
  BY <1>2 DEF Entries
<1>4. \A f \in Mine : Finished(f)
  BY <1>1 DEF WorkInv, TodoInv, AtWork
<1>5. /\ Mine' = Mine /\ \A p : Clean(p)' <=> Clean(p)
      /\ \A f : Finished(f)' <=> Finished(f)
  BY <1>1, SameRun
<1>6. TypeInv'
  <2>1. log' \in Seq(Entries)
    BY <1>1, <1>2, <1>3
  <2>2. QED
    BY <1>1, <2>1 DEF TypeInv
<1>7. WorkInv'
  BY <1>1, <1>4, <1>5 DEF WorkInv, FindInv, TodoInv, JobInv, CleanInv, PictureInv, OkInv, AtWork
<1>8. EntryOK(entry)
  BY <1>2, <1>4 DEF EntryOK, Mine, Finished
<1>9. LogInv'
  <2>1. SUFFICES ASSUME NEW e \in Range(log') PROVE EntryOK(e)
    BY DEF LogInv
  <2>2. PICK i \in DOMAIN log' : e = log'[i]
    BY <2>1 DEF Range
  <2>3. e = entry \/ (i \in DOMAIN log /\ e = log[i])
    BY <1>1, <1>2, <2>2
  <2>4. e = entry \/ e \in Range(log)
    BY <2>3 DEF Range
  <2>5. QED
    BY <1>8, <2>4 DEF LogInv
<1>10. QED
  BY <1>6, <1>7, <1>9

(* A run that ends early leaves every file but its output alone.           *)
LEMMA FailStep ==
  ASSUME TypeInv, WorkInv, Fail
  PROVE  TypeInv' /\ WorkInv'
<1>1. /\ pc # "idle" /\ Exit /\ ctx' = ctx /\ coeffs' = coeffs /\ job' = job
      /\ before' = before /\ log' = log
      /\ files' = files \/ files' = [files EXCEPT ![job.output] = Damaged]
  BY DEF Fail, history
<1>2. Damaged \in Images
  BY DEF Damaged, Images, PicNames
<1>3. files \in Contents /\ coeffs' \in Images
  BY <1>1 DEF TypeInv
<1>4. files' \in Contents /\ \A p \in Files : p # job.output => files'[p] = files[p]
  BY <1>1, <1>2, <1>3 DEF Contents
<1>5. QED
  BY <1>1, <1>3, <1>4, ExitStep

(* Every step keeps the invariant.                                         *)
LEMMA NextInv ==
  ASSUME IInv, [Next]_vars
  PROVE  IInv'
<1>1. TypeInv /\ WorkInv /\ LogInv
  BY DEF IInv
<1>2. CASE Done
  BY <1>1, <1>2, DoneStep DEF IInv
<1>3. CASE Run \/ Directory \/ SingleFile \/ Open \/ Read \/ Crypt \/ Write \/ Fail
  <2>1. TypeInv' /\ WorkInv'
    BY <1>1, <1>3, RunStep, DirectoryStep, SingleFileStep, OpenStep, ReadStep, CryptStep,
       WriteStep, FailStep
  <2>2. log' = log
    BY <1>3 DEF Run, Directory, SingleFile, Open, Read, Crypt, Write, Fail, history
  <2>3. QED
    BY <1>1, <2>1, <2>2 DEF IInv, LogInv
<1>4. CASE UNCHANGED vars
  <2>1. TypeInv'
    BY <1>1, <1>4 DEF TypeInv, vars, history
  <2>2. /\ Mine' = Mine /\ (Apart' <=> Apart)
        /\ \A jb : Proper(jb)' <=> Proper(jb)
        /\ \A p : Clean(p)' <=> Clean(p)
        /\ \A f : Finished(f)' <=> Finished(f)
    BY <1>4, SameRun DEF vars, history
  <2>3. WorkInv'
    BY <1>1, <1>4, <2>2 DEF vars, history, WorkInv, FindInv, TodoInv, JobInv, CleanInv,
       PictureInv, OkInv, AtWork
  <2>4. QED
    BY <1>1, <1>4, <2>1, <2>3 DEF IInv, LogInv, vars, history
<1>5. QED
  BY <1>2, <1>3, <1>4 DEF Next, Step
-----------------------------------------------------------------------------
(* Every state of every sequence of runs satisfies the invariant.          *)
THEOREM Invariance == Spec => []IInv
<1>1. Init => IInv
  BY InitInv
<1>2. IInv /\ [Next]_vars => IInv'
  BY NextInv
<1>3. QED
  BY <1>1, <1>2, PTL DEF Spec

(* A run of main() that exits with status 0 has written every file it was  *)
(* to write, from what the inputs held when it began.                      *)
THEOREM SuccessIsComplete == Spec => []SuccessMeansComplete
<1>1. IInv => SuccessMeansComplete
  BY DEF IInv, WorkInv, OkInv, Finished, Complete, Mine, SuccessMeansComplete
<1>2. QED
  BY <1>1, Invariance, PTL

(* Wherever figleaf_process_image stops, every file is as it was or is a   *)
(* complete output, except for at most the output it was working on.       *)
THEOREM FailureStaysLocal == Spec => []FailureIsLocal
<1>1. IInv => FailureIsLocal
  <2>1. SUFFICES ASSUME IInv, NEW p \in Files PROVE Clean(p) \/ p = job.output
    BY DEF FailureIsLocal, Clean, Mine
  <2>2. CASE pc = "find"
    BY <2>1, <2>2 DEF IInv, WorkInv, FindInv, Clean
  <2>3. CASE pc # "find"
    BY <2>1, <2>3 DEF IInv, TypeInv, WorkInv, CleanInv, AtWork
  <2>4. QED
    BY <2>2, <2>3
<1>2. QED
  BY <1>1, Invariance, PTL

(* What a run of figleaf with -e did to a picture, the ciphers of a later  *)
(* run with -d and the same options answer with the same key, block size,  *)
(* method and argument, whatever other runs came in between, exactly if    *)
(* the file still has the name it was encrypted under or has no salt.      *)
THEOREM ParametersMeet == Spec => []ParametersAgree
<1>1. IInv => ParametersAgree
  <2>1. SUFFICES ASSUME IInv, NEW d \in Range(log), NEW e \in Range(log), Undoes(d, e),
                        NEW f \in Inputs(e.ctx, e.found), e.found[f].pic \in Pictures,
                        Target(e.ctx, f) \in Inputs(d.ctx, d.found),
                        d.found[Target(e.ctx, f)] = e.left[Target(e.ctx, f)]
                 PROVE  Answered(e, d, f)
    BY DEF ParametersAgree
  <2> DEFINE g == Target(e.ctx, f)
             plain == e.found[f]
             made == d.left[Target(d.ctx, g)]
             jb == Job(f, g)
             kb == Job(g, Target(d.ctx, g))
             opE == Op(e.ctx, jb)
             opD == Op(d.ctx, kb)
             mid == e.left[g]
             s == plain.ops
  <2>2. EntryOK(d) /\ EntryOK(e)
    BY <2>1 DEF IInv, LogInv
  <2>3. mid = tpe_process_image(plain, e.ctx, jb)
    BY <2>1, <2>2 DEF EntryOK, Complete, Result
  <2>4. made = tpe_process_image(mid, d.ctx, kb)
    BY <2>1, <2>2 DEF EntryOK, Complete, Result
  <2>5. e.ctx.modes = {"encrypt"} /\ d.ctx.modes = {"decrypt"} /\ e.ctx["salted"] = d.ctx["salted"]
    BY <2>1 DEF Undoes
  <2>6. f \in Files
    BY <2>1, InputsAreFiles
  <2>7. plain \in Images
    BY <2>1, <2>2, <2>6 DEF EntryOK, Contents
  <2>8. mid = Added(plain, opE)
    BY <2>1, <2>3, ProcessedAdds
  <2>9. mid.pic = plain.pic /\ mid.ops = Append(s, opE)
    BY <2>7, <2>8 DEF Images, Added
  <2>10. made = Added(mid, opD)
    <3>1. mid.pic \in Pictures
      BY <2>1, <2>9
    <3>2. QED
      BY <2>4, <3>1, ProcessedAdds
  <2>11. made.pic = plain.pic /\ made.ops = Append(Append(s, opE), opD)
    BY <2>7, <2>8, <2>9, <2>10 DEF Images, Added
  <2>12. opE.mode = "encrypt" /\ opD.mode = "decrypt"
         /\ opE.with = Parameters(e.ctx, jb) /\ opD.with = Parameters(d.ctx, kb)
    BY <2>5 DEF Op, Mode
  <2>13. Salt(e.ctx, jb) = Salt(d.ctx, kb) <=> (e.ctx.salted => f[2] = g[2])
    <3>1. jb.input = f /\ kb.input = g
      BY DEF Job
    <3>2. CASE e.ctx["salted"]
      <4>1. d.ctx["salted"]
        BY <2>5, <3>2
      <4>2. Salt(e.ctx, jb) = f[2] /\ Salt(d.ctx, kb) = g[2]
        BY <3>1, <3>2, <4>1 DEF Salt
      <4>3. QED
        BY <3>2, <4>2
    <3>3. CASE ~ e.ctx["salted"]
      BY <2>5, <3>1, <3>3, Zenon DEF Salt
    <3>4. QED
      BY <3>2, <3>3
  <2>14. opE.with = opD.with <=> (e.ctx.salted => f[2] = g[2])
    BY <2>1, <2>12, <2>13, SameParameters
  <2>15. s \in Seq(Ops \cup {opE, opD})
    BY <2>7 DEF Images
  <2> HIDE DEF opE, opD, jb, kb, mid, s, made, plain, g
  <2>16. /\ Len(made.ops) = Len(s) + 2 /\ SubSeq(made.ops, 1, Len(s)) = s
         /\ made.ops[Len(s) + 1] = opE /\ made.ops[Len(s) + 2] = opD
    BY <2>11, <2>15, TwoOps
  <2>17. QED
    BY <2>11, <2>12, <2>14, <2>16 DEF s, made, plain, g, Answered
<1>2. QED
  BY <1>1, Invariance, PTL
=============================================================================
