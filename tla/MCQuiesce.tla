----------------------------- MODULE MCQuiesce -----------------------------
(* A small window: an apply runs several commands (three in the script, two *)
(* are enough to have one after another), a dry run one.                    *)
EXTENDS Quiesce

CONSTANTS c1, c2

CommandsOf == [dryrun |-> 1, apply |-> 2]
=============================================================================
