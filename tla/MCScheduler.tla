---------------------------- MODULE MCScheduler ----------------------------
(* Instances of Scheduler for TLC.  Each Prog lists what the entry (pid 1)  *)
(* and the processes it spawns may do.                                      *)
EXTENDS Scheduler, TLC

CONSTANTS w1, w2

MailProg == <<{"yield", "spawn", "send", "return"},
              {"recv_after", "receive", "io", "io_deadline"}>>
DeathProg == <<{"spawn", "monitor", "receive", "crash"},
               {"recv", "spawn", "refused"},
               {"return"}>>
LiveProg == <<{"yield", "spawn", "send", "recv_after", "return"},
              {"yield", "recv"}>>
GuardProg == <<{"yield", "spawn", "send", "return"},
               {"recv", "receive", "recv_after", "io"}>>
SpinProg == <<{"spawn", "recv_after", "crash"}, {"yield"}>>
Sym == Permutations({w1, w2})
============================================================================
