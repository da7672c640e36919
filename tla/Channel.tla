------------------------------ MODULE Channel ------------------------------
(***************************************************************************)
(* A Channelff and its place in the Pollerff of its loop, as one record:   *)
(*   events      the interest the channel asks for (events_)               *)
(*   index       kNew, kAdded or kDeleted (index_)                         *)
(*   addToLoop   addToLoop_                                                *)
(*   mapped      the poller's channels_ has the channel                    *)
(*   registered  the descriptor is in the kernel's epoll set, with         *)
(*   interest    the events given to the last epoll_ctl                    *)
(* A record may have other fields; the operators leave them alone.         *)
(***************************************************************************)

Interest == {"IN", "OUT"}

Indices == {"kNew", "kAdded", "kDeleted"}

\* The fields of a fresh channel.
NoInterest == {}

\* isReading and isWriting compare events_ with one flag: both are false of a
\* channel that asks for reads and writes.
IsNoneEvent(ch) == ch.events = NoInterest
IsReading(ch) == ch.events = {"IN"}
IsWriting(ch) == ch.events = {"OUT"}

\* epoll_ctl with EPOLL_CTL_ADD or MOD, and with DEL.
Register(ch) == [ch EXCEPT !.registered = TRUE, !.interest = ch.events]
Unregister(ch) == [ch EXCEPT !.registered = FALSE, !.interest = NoInterest]

\* Faulty variant: the descriptor of a channel without events stays in epoll.
UpdateChannelNoDel(ch) ==
    IF ch.index = "kAdded" /\ IsNoneEvent(ch)
    THEN [ch EXCEPT !.index = "kDeleted"]
    ELSE [Register(ch) EXCEPT !.index = "kAdded", !.mapped = TRUE]

\* Pollerff::updateChannel: a channel that is new or was deleted is added, even
\* one with no events; an added one is deleted when it has none left.
UpdateChannel(ch) ==
    IF ch.index = "kAdded" /\ IsNoneEvent(ch)
    THEN [Unregister(ch) EXCEPT !.index = "kDeleted"]
    ELSE [Register(ch) EXCEPT !.index = "kAdded", !.mapped = TRUE]

\* Channelff::update.
Update(ch) == UpdateChannel([ch EXCEPT !.addToLoop = TRUE])

EnableReading(ch)  == Update([ch EXCEPT !.events = @ \cup {"IN"}])
EnableWriting(ch)  == Update([ch EXCEPT !.events = @ \cup {"OUT"}])
DisableReading(ch) == Update([ch EXCEPT !.events = @ \ {"IN"}])
DisableWriting(ch) == Update([ch EXCEPT !.events = @ \ {"OUT"}])
DisableAll(ch)     == Update([ch EXCEPT !.events = NoInterest])

\* Channelff::remove and Pollerff::removeChannel, and what both assert.
RemoveAsserts(ch) == IsNoneEvent(ch) /\ ch.mapped /\ ch.index \in {"kAdded", "kDeleted"}

RemoveChannel(ch) ==
    [(IF ch.index = "kAdded" THEN Unregister(ch) ELSE ch)
        EXCEPT !.addToLoop = FALSE, !.mapped = FALSE, !.index = "kNew"]

\* The poller and the kernel agree about the channel.
Consistent(ch) ==
    /\ ch.registered = (ch.index = "kAdded")
    /\ ch.mapped = (ch.index # "kNew")
    /\ ch.registered => ch.interest = ch.events
    /\ ch.index = "kDeleted" => IsNoneEvent(ch)
    /\ ch.addToLoop = ch.mapped
=============================================================================
