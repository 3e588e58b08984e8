----------------------------- MODULE PllSearch -----------------------------
(***************************************************************************)
(* The search of lib/drivers/sysctl.c for the dividers of a PLL            *)
(* (sysctl_pll_source_set_freq): FOUT = FIN / NR * NF / OD must come as    *)
(* near as possible to the asked frequency, with the oscillator, FIN / NR  *)
(* * NF, between 350 and 1750 MHz.                                         *)
(*                                                                         *)
(* Frequencies are in MHz.  The code compares relative errors as doubles   *)
(* with a margin of 1e-6; the errors are fractions here, whose difference, *)
(* for whole MHz and NF up to 64, is zero or above that margin.            *)
(***************************************************************************)
EXTENDS Integers, FiniteSetsExt

FreqIn == 26
VcoMin == 350
VcoMax == 1750
NfMax == 64
NoMax == 16

Least(a, b) == IF a < b THEN a ELSE b
Abs(x) == IF x < 0 THEN -x ELSE x

(* rint(n / d): to nearest, halves to even. *)
Rint(n, d) ==
    LET q == (2 * n + d) \div (2 * d)
    IN IF (2 * n + d) % (2 * d) = 0 /\ q % 2 = 1 THEN q - 1 ELSE q

(* Errors are pairs, numerator and denominator. *)
Below(e, d) == e[1] * d[2] < d[1] * e[2]
AtMost(e, d) == e[1] * d[2] <= d[1] * e[2]
Tolerance == <<1, 64>>      \* 0.5 / (nf_max / 2)

NotFound == [found |-> FALSE, nr |-> 0, nf |-> 0, no |-> 0, err |-> Tolerance]

(* The dividers tried for one turn of the loop: what NR and OD have in     *)
(* common is cancelled, or NF and OD are scaled up together; "grown" says  *)
(* that a larger NF will come to the same ratio in a later turn.           *)
Dividers(f, nfi) ==
    LET nr == Rint(nfi * FreqIn, f)
        not == VcoMax \div f
        cap == Least(not, NoMax)
        no == Max({d \in 1..cap : nr % d = 0})
        nor == Least(cap \div no, NfMax \div nfi)
        noe == (VcoMin + f - 1) \div f
        room == NfMax \div nfi
        up == Least(Least(room, NoMax), not)
    IN IF (no * nor < not \div 2 \/ no * nor < noe) /\ no * nor < room
       THEN [nr |-> nr, nf |-> nfi * up, no |-> up, grown |-> up > 1]
       ELSE [nr |-> nr \div no, nf |-> nfi * nor, no |-> no * nor, grown |-> nor > 1]

Error(f, nfi) ==
    LET nr == Rint(nfi * FreqIn, f) IN <<Abs(nr * f - FreqIn * nfi), nr * f>>

InRange(c) ==
    /\ c.no <= NoMax /\ c.nf <= NfMax /\ c.nr <= 16
    /\ FreqIn * c.nf >= VcoMin * c.nr /\ FreqIn * c.nf <= VcoMax * c.nr
    /\ FreqIn * 10000 >= 136719 * c.nr

(* The turns of the loop that get as far as comparing with the best so far.*)
Turns(f) ==
    {nfi \in Max({1, f \div FreqIn})..NfMax - 1 :
        /\ Rint(nfi * FreqIn, f) > 0
        /\ AtMost(Error(f, nfi), Tolerance)
        /\ InRange(Dividers(f, nfi))}

Better(c, err, best) ==
    /\ AtMost(err, best.err)
    /\ c.grown => ~best.found
    /\ Below(err, best.err) \/ c.no > best.no
    /\ best.found => c.nr <= best.nr

(* Mutant: merr is not brought down to the error of the new best. *)
TurnMerrKept(f, nfi, best) ==
    LET c == Dividers(f, nfi) IN
    IF Better(c, Error(f, nfi), best)
    THEN [found |-> TRUE, nr |-> c.nr, nf |-> c.nf, no |-> c.no, err |-> best.err]
    ELSE best

Turn(f, nfi, best) ==
    LET c == Dividers(f, nfi)
        err == Error(f, nfi)
    IN IF Better(c, err, best)
       THEN [found |-> TRUE, nr |-> c.nr, nf |-> c.nf, no |-> c.no, err |-> err]
       ELSE best

(* sysctl_pll_source_set_freq, up to the registers.  From 64 times FIN on  *)
(* the loop has no turn, so NO is never taken of a frequency above VcoMax. *)
Search(f) ==
    LET turns == Turns(f)
        best[n \in 0..NfMax - 1] ==
            CASE n = 0 -> NotFound
              [] n \in turns -> Turn(f, n, best[n - 1])
              [] OTHER -> best[n - 1]
        last == best[NfMax - 1]
    IN IF Below(last.err, Tolerance) THEN last ELSE NotFound

(***************************************************************************)
(* What it should find.  Only NR = 1 keeps FIN / NR above 13.67 MHz.  The  *)
(* loop ends before NF = 64, and a turn of NF = 32 that could be scaled up *)
(* waits for it: the settings reached are the others.                      *)
(***************************************************************************)
Legal(d) ==
    /\ d[1] = 1 /\ d[2] \in 1..NfMax /\ d[3] \in 1..NoMax
    /\ FreqIn * d[2] >= VcoMin /\ FreqIn * d[2] <= VcoMax

Reached == {s \in ((1..NfMax - 1) \ {NfMax \div 2}) \X (1..NoMax) : Legal(<<1, s[1], s[2]>>)}

Distance(f, nf, no) == <<Abs(FreqIn * nf - f * no), no>>

NearSettings(f) ==
    {t \in Reached : Below(Distance(f, t[1], t[2]), <<f, 64>>)}
=============================================================================
