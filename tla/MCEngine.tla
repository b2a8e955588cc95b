------------------------------ MODULE MCEngine ------------------------------
(* Small instance of Engine: one guest, one address the configuration      *)
(* allows, one it denies, and requests that each meet another test.        *)
EXTENDS Engine, TLC

CONSTANTS guest, friend, foe, w1, w2

Symmetry == Permutations({w1, w2})

Two == <<"bot_score", "sqli">>
Plain == [ip |-> guest, flags |-> {}, crawler |-> "none", load |-> 0, inflight |-> 1,
          always |-> 0, parts |-> [d \in Scored |-> 0]]
Scoring(bot, sqli) == [d \in Scored |-> IF d = "sqli" THEN sqli ELSE bot]

MCRequests ==
  { Plain,
    [Plain EXCEPT !.flags = {"cleared"}, !.load = 3000, !.inflight = 22],
    [Plain EXCEPT !.load = 6000, !.always = 30, !.parts = Scoring(20, 0)],
    [Plain EXCEPT !.flags = {"bic"}, !.parts = Scoring(70, 80)],
    [Plain EXCEPT !.flags = {"trap", "cleared"}],
    [Plain EXCEPT !.crawler = "pending", !.parts = Scoring(70, 45)],
    [Plain EXCEPT !.crawler = "verified", !.flags = {"trap"}],
    [Plain EXCEPT !.crawler = "spoofed", !.parts = Scoring(80, 80), !.flags = {"oversize"}],
    [Plain EXCEPT !.ip = friend, !.flags = {"trap"}],
    [Plain EXCEPT !.ip = foe, !.flags = {"cleared"}, !.crawler = "verified"] }

\* waf.toml's defaults.
Quiet == [uam |-> 0, on |-> Switches \ {"under_attack"}, allow |-> {}, deny |-> {},
          block |-> 70, chal |-> 40, tarpit |-> 150, cap |-> 200, bps |-> 2000]
MCStarts == { Quiet,
              [Quiet EXCEPT !.deny = {guest, friend}] }
LegacyStart == { [Quiet EXCEPT !.on = Switches] }
=============================================================================
