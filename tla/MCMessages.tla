----------------------------- MODULE MCMessages -----------------------------
(* What the relay has besides delivery, for TLC, side by side: one module is *)
(* in focus in each behaviour, the others stay as they begin.  How deliveries *)
(* and the kiosk's store meet is in RelayDelivery.                            *)
EXTENDS AttachmentTransfer, ReceiverAuth, OutboundCommands, PhoneLink, RelayFeed, TLC

CONSTANTS c1, c2, r1, r2, r3

\* one blob of two chunks, of which the second is shorter, and an empty blob
MCSize == [b \in Blob |-> IF b = 1 THEN 3 ELSE 0]
MCCmd == {c1, c2}
MCMedia == {c2}
MCCheck == {r1, r2, r3}

VARIABLE focus

MessagesInit ==
    /\ focus \in {"transfer", "auth", "outbound", "link", "feed"}
    /\ TransferInit /\ OutboundInit
    /\ Init /\ (focus # "auth" => clock = 0 /\ signed = [n \in Nonce |-> 0])
    /\ PhoneLinkInit /\ (focus # "link" => link = "none" /\ serving)
    /\ RelayFeedInit /\ (focus # "feed" => kindOf = [e \in Event |-> CHOOSE k \in EventKind : TRUE])

Transfer == focus = "transfer" /\ UNCHANGED <<focus, vars, outboundVars, phoneLinkVars, relayFeedVars>>
Auth == focus = "auth" /\ UNCHANGED <<focus, transferVars, outboundVars, phoneLinkVars, relayFeedVars>>
Outbound == focus = "outbound" /\ UNCHANGED <<focus, transferVars, vars, phoneLinkVars, relayFeedVars>>
Link == focus = "link" /\ UNCHANGED <<focus, transferVars, vars, outboundVars, relayFeedVars>>
Feed == focus = "feed" /\ UNCHANGED <<focus, transferVars, vars, outboundVars, phoneLinkVars>>

Step ==
    \/ TransferNext /\ Transfer
    \/ Next /\ Auth
    \/ OutboundNext /\ Outbound
    \/ PhoneLinkNext /\ Link
    \/ RelayFeedNext /\ Feed

messageVars == <<focus, transferVars, vars, outboundVars, phoneLinkVars, relayFeedVars>>

\* The fairness of the sender's and the kiosk's steps, and of the link's
\* worker, each in the behaviours it takes part in.
MessagesSpec ==
    /\ MessagesInit /\ [][Step]_messageVars
    /\ WF_messageVars(SenderStep /\ Transfer) /\ WF_messageVars(Kiosk(FALSE) /\ Transfer)
    /\ WF_messageVars(LinkWorker /\ Link)

\* An event that keeps being retried is received, or one of its blobs is stuck.
TransferEnds == focus = "transfer" => EventuallyReceived
=============================================================================
