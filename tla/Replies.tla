------------------------------ MODULE Replies ------------------------------
(***************************************************************************)
(* The tools that are functions of one reply of the upstream, put to the   *)
(* question together: StopFinder (resolve, and the sides of a trip),       *)
(* Deviations (the deviations tool, and the legs of a trip), SiteIds (the  *)
(* arguments and echoes of every tool) and Catalogs (lines, sites, stop    *)
(* points, nearest stops).  The only steps are those of the upstream, or   *)
(* of the caller, who make up the reply or the id; as no tool reads two of *)
(* them, one is made up while the others are empty.                        *)
(***************************************************************************)
EXTENDS StopFinder, Deviations, SiteIds, Catalogs

replies == <<reply, messages, site, lines, sites>>

RepliesInit == Init /\ DeviationsInit /\ SiteInit /\ CatalogsInit

NoReply == reply = <<>>
NoMessages == messages = <<>>
NoSiteId == site = 0
NoCatalog == sites = <<>> /\ \A g \in Groups : lines[g] = <<>>

RepliesNext ==
    \/ /\ NoMessages /\ NoSiteId /\ NoCatalog
       /\ Next
       /\ UNCHANGED <<messages, site, lines, sites>>
    \/ /\ NoReply /\ NoSiteId /\ NoCatalog
       /\ DeviationsNext
       /\ UNCHANGED <<reply, site, lines, sites>>
    \/ /\ NoReply /\ NoMessages /\ NoCatalog /\ NoSiteId
       /\ \E n \in SiteNumbers : IsAsked(n)
       /\ UNCHANGED <<reply, messages, lines, sites>>
    \/ /\ NoReply /\ NoMessages /\ NoSiteId /\ sites = <<>>
       /\ \E g \in Groups : BreaksGroup(g) \/ \E row \in Line : ListsLine(g, row)
       /\ UNCHANGED <<reply, messages, site>>
    \/ /\ NoReply /\ NoMessages /\ NoSiteId /\ \A g \in Groups : lines[g] = <<>>
       /\ \E row \in Site : ListsSite(row)
       /\ UNCHANGED <<reply, messages, site>>

RepliesSpec == RepliesInit /\ [][RepliesNext]_replies
=============================================================================
