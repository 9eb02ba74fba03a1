----------------------------- MODULE MCScripts ------------------------------
(***************************************************************************)
(* The two scripts in one instance, one at a time: each in its own         *)
(* surroundings, while the other has ended and its boards are not there.   *)
(***************************************************************************)
EXTENDS SimCrawler, ShutdownModems

(* One modem of another board. *)
MCOtherModems == {<<1, 2>>}

CrawlIdle ==
    /\ fitted = {} /\ card = [m \in Modem |-> 0] /\ powered = {}
    /\ listing = [m \in Modem |-> "out"] /\ shows = card /\ others = {}
    /\ at = "timeout" /\ step = 1 /\ simNum = 0 /\ single = FALSE
    /\ bus = NoBus /\ known = {} /\ prev = 0 /\ polls = 0 /\ outs = card
    /\ printed = {} /\ back = {} /\ had = [m \in Modem |-> {}] /\ refused = {} /\ lost = FALSE

ShutIdle ==
    /\ minimal = FALSE /\ power = "off" /\ present = {} /\ on = {}
    /\ pc = "exit1" /\ targets = <<>> /\ elapsed = 0 /\ late = 0
    /\ disturbed = {}

(* Bounds: a board as it is after its start, all slots supplied, with the  *)
(* cards of the first round, or none, in its slots.                        *)
FirstCards == card \in [Modem -> 0 .. 2] /\ powered = Modem

MCInit ==
    \/ CrawlInit /\ FirstCards /\ ShutIdle
    \/ CrawlIdle /\ ShutInit

MCNext ==
    \/ CrawlNext /\ UNCHANGED shutVars
    \/ ShutNext /\ UNCHANGED crawlVars

MCSpec == MCInit /\ [][MCNext]_<<crawlVars, shutVars>>

=============================================================================
