----------------------------- MODULE ScanScript -----------------------------
(***************************************************************************)
(* Scan scripts: the sequence of scans that sends an image.  A scan says   *)
(* which components it holds, which band Ss..Se of their coefficients, and *)
(* from which bit Ah (0: not sent before) down to which bit Al.  jcmaster.c*)
(* checks the script of the application, jcparam.c makes the usual         *)
(* progressive one.                                                        *)
(***************************************************************************)
EXTENDS Integers, Sequences, FiniteSetsExt, SequencesExt

CONSTANTS
    BLOCK,               \* 64: coefficients of a block (DCTSIZE2)
    MAX_AH_AL,           \* 10
    MAX_COMPS,           \* 4: MAX_COMPS_IN_SCAN
    FIRST_BAND           \* 5: last coefficient of the first AC band sent

Scan(comps, Ss, Se, Ah, Al) == [comps |-> comps, Ss |-> Ss, Se |-> Se, Ah |-> Ah, Al |-> Al]

(* validate_script: "progressive" is decided by the first scan alone. *)
IsProgressive(script) == script[1].Ss # 0 \/ script[1].Se # BLOCK - 1

GoodComponents(scan, ncomps) ==
    /\ Len(scan.comps) \in 1..MAX_COMPS
    /\ \A i \in DOMAIN scan.comps : /\ scan.comps[i] \in 1..ncomps
                                    /\ i > 1 => scan.comps[i] > scan.comps[i - 1]
GoodBand(scan) ==
    /\ 0 <= scan.Ss /\ scan.Ss <= scan.Se /\ scan.Se < BLOCK
    /\ scan.Ah \in 0..MAX_AH_AL /\ scan.Al \in 0..MAX_AH_AL
    /\ IF scan.Ss = 0 THEN scan.Se = 0 ELSE Len(scan.comps) = 1

(* last[c][k]: -1 until coefficient k of component c is sent, then its Al. *)
FollowsOn(scan, last) ==
    \A c \in Range(scan.comps) :
        /\ scan.Ss # 0 => last[c][0] >= 0
        /\ \A k \in scan.Ss..scan.Se :
              IF last[c][k] < 0 THEN scan.Ah = 0 ELSE scan.Ah = last[c][k] /\ scan.Al = scan.Ah - 1
Sent(scan, last) ==
    [c \in DOMAIN last |-> [k \in DOMAIN last[c] |->
        IF c \in Range(scan.comps) /\ k \in scan.Ss..scan.Se THEN scan.Al ELSE last[c][k]]]
NothingSent(ncomps) == [c \in 1..ncomps |-> [k \in 0..(BLOCK - 1) |-> -1]]
SentBy(script, n, ncomps) == FoldLeft(LAMBDA last, scan : Sent(scan, last), NothingSent(ncomps), SubSeq(script, 1, n))

validate_script(script, ncomps) ==
    /\ script # <<>>
    /\ \A i \in DOMAIN script : GoodComponents(script[i], ncomps)
    /\ IF IsProgressive(script)
       THEN /\ \A i \in DOMAIN script : GoodBand(script[i])
            /\ \A i \in DOMAIN script : FollowsOn(script[i], SentBy(script, i - 1, ncomps))
            /\ \A c \in 1..ncomps : SentBy(script, Len(script), ncomps)[c][0] >= 0
       ELSE /\ \A i \in DOMAIN script : /\ script[i].Ss = 0 /\ script[i].Se = BLOCK - 1
                                        /\ script[i].Ah = 0 /\ script[i].Al = 0
            /\ \A i, j \in DOMAIN script : i # j => Range(script[i].comps) \intersect Range(script[j].comps) = {}
            /\ \A c \in 1..ncomps : \E i \in DOMAIN script : c \in Range(script[i].comps)
-----------------------------------------------------------------------------
(* jpeg_simple_progression: the script of a colour image favours the first
   component; nscans is the space figured for the script. *)
AllComps(ncomps) == [c \in 1..ncomps |-> c]
fill_a_scan(c, Ss, Se, Ah, Al) == <<Scan(<<c>>, Ss, Se, Ah, Al)>>
fill_scans(ncomps, Ss, Se, Ah, Al) == [c \in 1..ncomps |-> Scan(<<c>>, Ss, Se, Ah, Al)]
fill_dc_scans(ncomps, Ah, Al) ==
    IF ncomps <= MAX_COMPS THEN <<Scan(AllComps(ncomps), 0, 0, Ah, Al)>> ELSE fill_scans(ncomps, 0, 0, Ah, Al)

jpeg_simple_progression(ncomps, YCbCr) ==
    IF ncomps = 3 /\ YCbCr
    THEN fill_dc_scans(ncomps, 0, 1) \o fill_a_scan(1, 1, FIRST_BAND, 0, 2)
         \o fill_a_scan(3, 1, BLOCK - 1, 0, 1) \o fill_a_scan(2, 1, BLOCK - 1, 0, 1)
         \o fill_a_scan(1, FIRST_BAND + 1, BLOCK - 1, 0, 2) \o fill_a_scan(1, 1, BLOCK - 1, 2, 1)
         \o fill_dc_scans(ncomps, 1, 0) \o fill_a_scan(3, 1, BLOCK - 1, 1, 0)
         \o fill_a_scan(2, 1, BLOCK - 1, 1, 0) \o fill_a_scan(1, 1, BLOCK - 1, 1, 0)
    ELSE fill_dc_scans(ncomps, 0, 1) \o fill_scans(ncomps, 1, FIRST_BAND, 0, 2)
         \o fill_scans(ncomps, FIRST_BAND + 1, BLOCK - 1, 0, 2) \o fill_scans(ncomps, 1, BLOCK - 1, 2, 1)
         \o fill_dc_scans(ncomps, 1, 0) \o fill_scans(ncomps, 1, BLOCK - 1, 1, 0)
nscans(ncomps, YCbCr) ==
    IF ncomps = 3 /\ YCbCr THEN 10 ELSE IF ncomps > MAX_COMPS THEN 6 * ncomps ELSE 2 + 4 * ncomps
=============================================================================
