------------------------- MODULE AccountLeaseProofs -------------------------
(* Proofs about AccountLease, for every set of workers, transactions and    *)
(* visits.                                                                  *)
EXTENDS AccountLease, SequenceTheorems, TLAPS

(***************************************************************************)
(* Channels and chains.                                                    *)
(***************************************************************************)

\* Posting a message keeps a family of channels a family of channels, whatever the channel.
LEMMA PostType ==
  ASSUME NEW S, NEW ch \in [Workers -> Seq(S)], NEW w, NEW m \in S
  PROVE  Post(ch, w, m) \in [Workers -> Seq(S)]
<1>1. CASE w \in Workers
  <2>1. Append(ch[w], m) \in Seq(S) BY <1>1, AppendProperties
  <2> QED BY <1>1, <2>1 DEF Post
<1>2. CASE w \notin Workers BY <1>2 DEF Post
<1> QED BY <1>1, <1>2

\* So does taking the first message of one.
LEMMA TakeType ==
  ASSUME NEW S, NEW ch \in [Workers -> Seq(S)], NEW w, w \in Workers => ch[w] # <<>>
  PROVE  [ch EXCEPT ![w] = Tail(@)] \in [Workers -> Seq(S)]
<1>1. CASE w \in Workers
  <2>1. Tail(ch[w]) \in Seq(S) BY <1>1, HeadTailProperties
  <2> QED BY <1>1, <2>1
<1>2. CASE w \notin Workers BY <1>2
<1> QED BY <1>1, <1>2

\* The rest of a lock chain is a lock chain, of an empty one too.
LEMMA RestType ==
  ASSUME NEW S, NEW seq \in Seq(S)
  PROVE  Rest(seq) \in Seq(S)
BY SubSeqProperties DEF Rest

\* The first message of a channel is one of the channel's messages.
LEMMA HeadType ==
  ASSUME NEW S, NEW ch \in [Workers -> Seq(S)], NEW w \in Workers, ch[w] # <<>>
  PROVE  Head(ch[w]) \in S
BY HeadTailProperties

\* A worker that takes the first message it was sent leaves messages of that kind.
LEMMA TakeDownType ==
  ASSUME TypeOK, NEW w \in Workers, down[w] # <<>>, TakeDown(w)
  PROVE  down' \in [Workers -> Seq(DownMsg)]
BY TakeType DEF TypeOK, ChannelsTypeOK, TakeDown

\* So does the main thread.
LEMMA TakeUpType ==
  ASSUME TypeOK, NEW w \in Workers, up[w] # <<>>, TakeUp(w)
  PROVE  up' \in [Workers -> Seq(UpMsg)]
BY TakeType DEF TypeOK, ChannelsTypeOK, TakeUp

\* What the first message to the main thread can carry.
LEMMA UpHead ==
  ASSUME TypeOK, NEW w \in Workers, up[w] # <<>>
  PROVE  /\ Head(up[w]) \in UpMsg
         /\ Head(up[w]).op \notin {"lease", "release"} => Head(up[w]).who \in Txns
         /\ Head(up[w]).op = "lease" => Head(up[w]).who \in Visits
         /\ Head(up[w]).val \in Values \cup {NoVal}
<1>1. Head(up[w]) \in UpMsg BY HeadType DEF TypeOK, ChannelsTypeOK
<1> QED BY <1>1 DEF UpMsg

\* What the first message to a worker can carry.
LEMMA DownHead ==
  ASSUME TypeOK, NEW w \in Workers, down[w] # <<>>
  PROVE  /\ Head(down[w]) \in DownMsg
         /\ Head(down[w]).op \notin {"leased", "leaseFailed"} => Head(down[w]).who \in Txns
         /\ Head(down[w]).op \in {"leased", "leaseFailed"} => Head(down[w]).who \in Visits
         /\ Head(down[w]).val \in Values \cup {NoVal}
<1>1. Head(down[w]) \in DownMsg BY HeadType DEF TypeOK, ChannelsTypeOK
<1> QED BY <1>1 DEF DownMsg

\* Posting a message keeps the channels and the chains typed.
ChannelsGrow ==
  /\ \A w : \A m \in DownMsg : Post(down, w, m) \in [Workers -> Seq(DownMsg)]
  /\ \A w : \A m \in UpMsg : Post(up, w, m) \in [Workers -> Seq(UpMsg)]
ChainsGrow ==
  /\ \A w : \A t \in Txns : Post(chain, w, t) \in [Workers -> Seq(Txns)]
  /\ \A w : \A x \in Txns \cup Visits : Post(writes, w, x) \in [Workers -> Seq(Txns \cup Visits)]
  /\ \A x \in Txns \cup Visits : Append(mainChain, x) \in Seq(Txns \cup Visits)
  /\ Rest(mainChain) \in Seq(Txns \cup Visits)
  /\ \A w \in Workers : Rest(chain[w]) \in Seq(Txns)

\* Every message and every place in a chain that the actions add is one of its kind.
LEMMA PostedIsTyped == TypeOK => ChannelsGrow /\ ChainsGrow
<1> SUFFICES ASSUME TypeOK PROVE ChannelsGrow /\ ChainsGrow OBVIOUS
<1>1. ChannelsGrow BY PostType DEF TypeOK, ChannelsTypeOK, ChannelsGrow
<1>2. \A w : \A t \in Txns : Post(chain, w, t) \in [Workers -> Seq(Txns)]
  BY PostType DEF TypeOK, WorkersTypeOK
<1>3. \A w : \A x \in Txns \cup Visits : Post(writes, w, x) \in [Workers -> Seq(Txns \cup Visits)]
  BY PostType DEF TypeOK, WorkersTypeOK
<1>4. \A x \in Txns \cup Visits : Append(mainChain, x) \in Seq(Txns \cup Visits)
  BY AppendProperties DEF TypeOK, MainTypeOK
<1>5. Rest(mainChain) \in Seq(Txns \cup Visits) BY RestType DEF TypeOK, MainTypeOK
<1>6. \A w \in Workers : Rest(chain[w]) \in Seq(Txns) BY RestType DEF TypeOK, WorkersTypeOK
<1> QED BY <1>1, <1>2, <1>3, <1>4, <1>5, <1>6 DEF ChainsGrow

\* The messages the actions build.
MsgsTyped ==
  /\ \A t \in Txns :
       /\ \A op \in {"rpcOwn", "rpcOther", "refused", "hold", "unhold", "account"} :
            Msg(op, t, NoVal) \in DownMsg
       /\ \A op \in {"lock", "unlock", "account", "retry"} : Msg(op, t, NoVal) \in UpMsg
       /\ \A v \in Values \cup {NoVal} :
            /\ \A op \in {"grant", "live", "patched"} : Msg(op, t, v) \in DownMsg
            /\ \A op \in {"held", "live", "patch", "patched"} : Msg(op, t, v) \in UpMsg
  /\ \A e \in Visits :
       /\ Msg("lease", e, NoVal) \in UpMsg
       /\ Msg("leaseFailed", e, NoVal) \in DownMsg
       /\ \A v \in Values \cup {NoVal} : Msg("leased", e, v) \in DownMsg
  /\ Msg("release", Main, NoVal) \in UpMsg

\* They are messages of the channel they are posted to.
LEMMA MessagesAreTyped == MsgsTyped
BY DEF MsgsTyped, Msg, UpMsg, DownMsg

\* A patch and its answer are passed on as they came.
LEMMA PassedOn ==
  ASSUME TypeOK, NEW w \in Workers, up[w] # <<>>, Head(up[w]).op \in {"patch", "patched"}
  PROVE  Head(up[w]) \in DownMsg
BY UpHead DEF UpMsg, DownMsg

\* Every action keeps every variable in its type.
LEMMA TypeStep == TypeOK /\ [Next]_vars => TypeOK'
<1> SUFFICES ASSUME TypeOK, ChannelsGrow, ChainsGrow, MsgsTyped PROVE [Next]_vars => TypeOK'
  BY PostedIsTyped, MessagesAreTyped
<1>1. ASSUME NEW t \in Txns, Rpc(t) PROVE TypeOK'
  <2>1. MainTypeOK'
    BY <1>1, ChainsGrow, SMTT(30) DEF Rpc, DispatchWhereOwned, OwnerOf, ChainsGrow, TypeOK, MainTypeOK
  <2>2. ChannelsTypeOK'
    BY <1>1, ChannelsGrow, MsgsTyped
       DEF Rpc, DispatchWhereOwned, OwnerOf, ChannelsGrow, MsgsTyped, TypeOK, ChannelsTypeOK
  <2>3. TxnsTypeOK'
    BY <1>1, SMTT(30) DEF Rpc, DispatchWhereOwned, OwnerOf, TxnStates, TypeOK, TxnsTypeOK, MainTypeOK
  <2>4. WorkersTypeOK' /\ VisitsTypeOK' /\ GhostsTypeOK'
    BY <1>1
       DEF Rpc, TypeOK, WorkersTypeOK, VisitsTypeOK, GhostsTypeOK, workerVars, visitVars,
           ghostVars
  <2> QED BY <2>1, <2>2, <2>3, <2>4 DEF TypeOK
<1>2. ASSUME NEW t \in Txns, NEW w \in Workers, SecondAccount(t, w) PROVE TypeOK'
  <2>1. TxnsTypeOK' BY <1>2 DEF SecondAccount, TxnStates, TypeOK, TxnsTypeOK
  <2>2. MainTypeOK' /\ WorkersTypeOK' /\ ChannelsTypeOK' /\ VisitsTypeOK' /\ GhostsTypeOK'
    BY <1>2
       DEF SecondAccount, TypeOK, MainTypeOK, WorkersTypeOK, ChannelsTypeOK, VisitsTypeOK,
           GhostsTypeOK, mainVars, workerVars, visitVars, ghostVars
  <2> QED BY <2>1, <2>2 DEF TypeOK
<1>3. ASSUME NEW w \in Workers, RpcRetry(w) PROVE TypeOK'
  <2>1. MainTypeOK'
    BY <1>3, UpHead, ChainsGrow, SMTT(30)
       DEF RpcRetry, UpIs, DispatchWhereOwned, OwnerOf, ChainsGrow, TypeOK, MainTypeOK
  <2>2. ChannelsTypeOK'
    <3>1. up' \in [Workers -> Seq(UpMsg)] BY <1>3, TakeUpType DEF RpcRetry, UpIs
    <3>2. Head(up[w]).who \in Txns BY <1>3, UpHead DEF RpcRetry, UpIs
    <3>3. down' \in [Workers -> Seq(DownMsg)]
      BY <1>3, <3>2, ChannelsGrow, MsgsTyped
         DEF RpcRetry, DispatchWhereOwned, OwnerOf, ChannelsGrow, MsgsTyped, TypeOK, ChannelsTypeOK
    <3> QED BY <3>1, <3>3 DEF ChannelsTypeOK
  <2>3. TxnsTypeOK'
    BY <1>3, UpHead
       DEF RpcRetry, UpIs, DispatchWhereOwned, OwnerOf, TxnStates, TypeOK, TxnsTypeOK,
           MainTypeOK
  <2>4. WorkersTypeOK' /\ VisitsTypeOK' /\ GhostsTypeOK'
    BY <1>3
       DEF RpcRetry, TypeOK, WorkersTypeOK, VisitsTypeOK, GhostsTypeOK, workerVars, visitVars,
           ghostVars
  <2> QED BY <2>1, <2>2, <2>3, <2>4 DEF TypeOK
<1>4. ASSUME NEW t \in Txns, MainLoad(t) PROVE TypeOK'
  <2>1. ChannelsTypeOK'
    BY <1>4, ChannelsGrow, MsgsTyped
       DEF MainLoad, OwnerOf, ChannelsGrow, MsgsTyped, TypeOK, ChannelsTypeOK
  <2>2. TxnsTypeOK'
    BY <1>4 DEF MainLoad, OwnerOf, TxnStates, Values, Updates, TypeOK, TxnsTypeOK, MainTypeOK
  <2>3. MainTypeOK' /\ WorkersTypeOK' /\ VisitsTypeOK' /\ GhostsTypeOK'
    BY <1>4
       DEF MainLoad, TypeOK, MainTypeOK, WorkersTypeOK, VisitsTypeOK, GhostsTypeOK, mainVars,
           workerVars, visitVars, ghostVars
  <2> QED BY <2>1, <2>2, <2>3 DEF TypeOK
<1>5. ASSUME NEW w \in Workers, AccountAnswered(w) PROVE TypeOK'
  <2>1. ChannelsTypeOK'
    <3>1. up' \in [Workers -> Seq(UpMsg)] BY <1>5, TakeUpType DEF AccountAnswered, UpIs
    <3>2. Head(up[w]).who \in Txns /\ Head(up[w]).val \in Values \cup {NoVal}
      BY <1>5, UpHead DEF AccountAnswered, UpIs
    <3>3. down' \in [Workers -> Seq(DownMsg)]
      BY <1>5, <3>2, ChannelsGrow, MsgsTyped
         DEF AccountAnswered, ChannelsGrow, MsgsTyped, TypeOK, ChannelsTypeOK
    <3> QED BY <3>1, <3>3 DEF ChannelsTypeOK
  <2>2. TxnsTypeOK'
    BY <1>5, UpHead
       DEF AccountAnswered, UpIs, TxnStates, Values, Updates, TypeOK, TxnsTypeOK, MainTypeOK
  <2>3. MainTypeOK' /\ WorkersTypeOK' /\ VisitsTypeOK' /\ GhostsTypeOK'
    BY <1>5
       DEF AccountAnswered, TypeOK, MainTypeOK, WorkersTypeOK, VisitsTypeOK, GhostsTypeOK,
           mainVars, workerVars, visitVars, ghostVars
  <2> QED BY <2>1, <2>2, <2>3 DEF TypeOK
<1>6. ASSUME NEW t \in Txns, MainSave(t) PROVE TypeOK'
  <2>1. MainTypeOK'
    BY <1>6, ChainsGrow
       DEF MainSave, OwnerOf, ChainsGrow, Values, Updates, TypeOK, MainTypeOK, TxnsTypeOK
  <2>2. ChannelsTypeOK'
    BY <1>6, ChannelsGrow, MsgsTyped
       DEF MainSave, OwnerOf, ChannelsGrow, MsgsTyped, TypeOK, ChannelsTypeOK
  <2>3. TxnsTypeOK' BY <1>6 DEF MainSave, OwnerOf, TxnStates, TypeOK, TxnsTypeOK, MainTypeOK
  <2>4. GhostsTypeOK'
    BY <1>6 DEF MainSave, OwnerOf, Values, Updates, TypeOK, GhostsTypeOK, TxnsTypeOK
  <2>5. WorkersTypeOK' /\ VisitsTypeOK'
    BY <1>6 DEF MainSave, TypeOK, WorkersTypeOK, VisitsTypeOK, workerVars, visitVars
  <2> QED BY <2>1, <2>2, <2>3, <2>4, <2>5 DEF TypeOK
<1>7. ASSUME NEW w \in Workers, LeaseAsked(w) PROVE TypeOK'
  <2>1. MainTypeOK'
    BY <1>7, UpHead, ChainsGrow
       DEF LeaseAsked, UpIs, ChainsGrow, TypeOK, MainTypeOK, ChannelsTypeOK
  <2>2. ChannelsTypeOK' BY <1>7, TakeUpType, UpHead DEF LeaseAsked, UpIs, TypeOK, ChannelsTypeOK
  <2>3. WorkersTypeOK' /\ TxnsTypeOK' /\ VisitsTypeOK' /\ GhostsTypeOK'
    BY <1>7
       DEF LeaseAsked, TypeOK, WorkersTypeOK, TxnsTypeOK, VisitsTypeOK, GhostsTypeOK,
           workerVars, txnVars, visitVars, ghostVars
  <2> QED BY <2>1, <2>2, <2>3 DEF TypeOK
<1>8. ASSUME NEW e \in Visits, LeaseTurn(e) PROVE TypeOK'
  <2>1. MainTypeOK'
    BY <1>8, ChainsGrow DEF LeaseTurn, ChainsGrow, TypeOK, MainTypeOK, VisitsTypeOK
  <2>2. ChannelsTypeOK'
    BY <1>8, ChannelsGrow, MsgsTyped
       DEF LeaseTurn, ChannelsGrow, MsgsTyped, TypeOK, ChannelsTypeOK, MainTypeOK
  <2>3. VisitsTypeOK' BY <1>8 DEF LeaseTurn, TypeOK, VisitsTypeOK
  <2>4. WorkersTypeOK' /\ TxnsTypeOK' /\ GhostsTypeOK'
    BY <1>8
       DEF LeaseTurn, TypeOK, WorkersTypeOK, TxnsTypeOK, GhostsTypeOK, workerVars, txnVars,
           ghostVars
  <2> QED BY <2>1, <2>2, <2>3, <2>4 DEF TypeOK
<1>9. ASSUME NEW e \in Visits, LeaseAgain(e) PROVE TypeOK'
  <2>1. MainTypeOK' BY <1>9, ChainsGrow DEF LeaseAgain, ChainsGrow, TypeOK, MainTypeOK
  <2>2. VisitsTypeOK' BY <1>9 DEF LeaseAgain, TypeOK, VisitsTypeOK, WorkersTypeOK
  <2>3. WorkersTypeOK' /\ ChannelsTypeOK' /\ TxnsTypeOK' /\ GhostsTypeOK'
    BY <1>9
       DEF LeaseAgain, TypeOK, WorkersTypeOK, ChannelsTypeOK, TxnsTypeOK, GhostsTypeOK,
           workerVars, txnVars, ghostVars
  <2> QED BY <2>1, <2>2, <2>3 DEF TypeOK
<1>10. ASSUME NEW e \in Visits, LeaseTimeout(e) PROVE TypeOK'
  <2>2. VisitsTypeOK' BY <1>10 DEF LeaseTimeout, TypeOK, VisitsTypeOK
  <2>3. MainTypeOK' /\ WorkersTypeOK' /\ ChannelsTypeOK' /\ TxnsTypeOK' /\ GhostsTypeOK'
    BY <1>10
       DEF LeaseTimeout, TypeOK, MainTypeOK, WorkersTypeOK, ChannelsTypeOK, TxnsTypeOK, GhostsTypeOK,
           mainVars, workerVars, txnVars, ghostVars
  <2> QED BY <2>2, <2>3 DEF TypeOK
<1>11. ASSUME NEW w \in Workers, LeaseReleased(w) PROVE TypeOK'
  <2>1. MainTypeOK' BY <1>11, UpHead DEF LeaseReleased, UpIs, TypeOK, MainTypeOK
  <2>2. ChannelsTypeOK'
    BY <1>11, TakeUpType, UpHead DEF LeaseReleased, UpIs, TypeOK, ChannelsTypeOK
  <2>3. TxnsTypeOK' BY <1>11, UpHead DEF LeaseReleased, UpIs, WakeWaiters, TypeOK, TxnsTypeOK
  <2>4. VisitsTypeOK'
    BY <1>11, UpHead DEF LeaseReleased, UpIs, WakeWaiters, TypeOK, VisitsTypeOK
  <2>5. WorkersTypeOK' /\ GhostsTypeOK'
    BY <1>11 DEF LeaseReleased, TypeOK, WorkersTypeOK, GhostsTypeOK, workerVars, ghostVars
  <2> QED BY <2>1, <2>2, <2>3, <2>4, <2>5 DEF TypeOK
<1>12. ASSUME NEW w \in Workers, LockAsked(w) PROVE TypeOK'
  <2>1. MainTypeOK'
    BY <1>12, UpHead, ChainsGrow, ZenonT(60) DEF LockAsked, UpIs, BorrowLock, ChainsGrow, TypeOK, MainTypeOK
  <2>2. ChannelsTypeOK'
    <3>1. up' \in [Workers -> Seq(UpMsg)] BY <1>12, TakeUpType DEF LockAsked, UpIs
    <3>2. Head(up[w]).who \in Txns BY <1>12, UpHead DEF LockAsked, UpIs
    <3>3. down' \in [Workers -> Seq(DownMsg)]
      BY <1>12, <3>2, ChannelsGrow, MsgsTyped
         DEF LockAsked, BorrowLock, ChannelsGrow, MsgsTyped, TypeOK, ChannelsTypeOK
    <3> QED BY <3>1, <3>3 DEF ChannelsTypeOK
  <2>3. TxnsTypeOK'
    <3>1. Head(up[w]).who \in Txns BY <1>12, UpHead DEF LockAsked, UpIs
    <3> QED BY <1>12, <3>1 DEF LockAsked, BorrowLock, TxnStates, TypeOK, TxnsTypeOK, MainTypeOK
  <2>4. WorkersTypeOK' /\ VisitsTypeOK' /\ GhostsTypeOK'
    BY <1>12
       DEF LockAsked, TypeOK, WorkersTypeOK, VisitsTypeOK, GhostsTypeOK, workerVars, visitVars,
           ghostVars
  <2> QED BY <2>1, <2>2, <2>3, <2>4 DEF TypeOK
<1>13. ASSUME NEW t \in Txns, BorrowAgain(t) PROVE TypeOK'
  <2>1. MainTypeOK'
    BY <1>13, ChainsGrow DEF BorrowAgain, BorrowLock, ChainsGrow, TypeOK, MainTypeOK
  <2>2. ChannelsTypeOK'
    BY <1>13, ChannelsGrow, MsgsTyped
       DEF BorrowAgain, BorrowLock, ChannelsGrow, MsgsTyped, TypeOK, ChannelsTypeOK, MainTypeOK,
           TxnsTypeOK
  <2>3. TxnsTypeOK'
    BY <1>13 DEF BorrowAgain, BorrowLock, TxnStates, TypeOK, TxnsTypeOK, MainTypeOK
  <2>4. WorkersTypeOK' /\ VisitsTypeOK' /\ GhostsTypeOK'
    BY <1>13
       DEF BorrowAgain, TypeOK, WorkersTypeOK, VisitsTypeOK, GhostsTypeOK, workerVars,
           visitVars, ghostVars
  <2> QED BY <2>1, <2>2, <2>3, <2>4 DEF TypeOK
<1>14. ASSUME NEW t \in Txns, TownTurn(t) PROVE TypeOK'
  <2>1. MainTypeOK' BY <1>14, ChainsGrow DEF TownTurn, ChainsGrow, TypeOK, MainTypeOK
  <2>2. ChannelsTypeOK'
    BY <1>14, ChannelsGrow, MsgsTyped
       DEF TownTurn, ChannelsGrow, MsgsTyped, TypeOK, ChannelsTypeOK, TxnsTypeOK
  <2>3. TxnsTypeOK' BY <1>14 DEF TownTurn, TxnStates, TypeOK, TxnsTypeOK
  <2>4. WorkersTypeOK' /\ VisitsTypeOK' /\ GhostsTypeOK'
    BY <1>14
       DEF TownTurn, TypeOK, WorkersTypeOK, VisitsTypeOK, GhostsTypeOK, workerVars, visitVars,
           ghostVars
  <2> QED BY <2>1, <2>2, <2>3, <2>4 DEF TypeOK
<1>15. ASSUME NEW w \in Workers, HoldAnswered(w) PROVE TypeOK'
  <2>1. MainTypeOK' BY <1>15, UpHead DEF HoldAnswered, UpIs, TypeOK, MainTypeOK
  <2>2. ChannelsTypeOK'
    <3>1. up' \in [Workers -> Seq(UpMsg)] BY <1>15, TakeUpType DEF HoldAnswered, UpIs
    <3>2. Head(up[w]).who \in Txns /\ Head(up[w]).val \in Values \cup {NoVal}
      BY <1>15, UpHead DEF HoldAnswered, UpIs
    <3>3. down' \in [Workers -> Seq(DownMsg)]
      BY <1>15, <3>2, ChannelsGrow, MsgsTyped
         DEF HoldAnswered, ChannelsGrow, MsgsTyped, TypeOK, ChannelsTypeOK
    <3> QED BY <3>1, <3>3 DEF ChannelsTypeOK
  <2>3. TxnsTypeOK' BY <1>15, UpHead DEF HoldAnswered, UpIs, TxnStates, TypeOK, TxnsTypeOK
  <2>4. WorkersTypeOK' /\ VisitsTypeOK' /\ GhostsTypeOK'
    BY <1>15
       DEF HoldAnswered, TypeOK, WorkersTypeOK, VisitsTypeOK, GhostsTypeOK, workerVars,
           visitVars, ghostVars
  <2> QED BY <2>1, <2>2, <2>3, <2>4 DEF TypeOK
<1>16. ASSUME NEW w \in Workers, PatchHeld(w) PROVE TypeOK'
  <2>1. ChannelsTypeOK'
    <3>1. up' \in [Workers -> Seq(UpMsg)] BY <1>16, TakeUpType DEF PatchHeld, UpIs
    <3>2. Head(up[w]).who \in Txns /\ Head(up[w]) \in DownMsg
      BY <1>16, UpHead, PassedOn DEF PatchHeld, UpIs
    <3>3. down' \in [Workers -> Seq(DownMsg)]
      BY <1>16, <3>2, ChannelsGrow, MsgsTyped
         DEF PatchHeld, ChannelsGrow, MsgsTyped, TypeOK, ChannelsTypeOK
    <3> QED BY <3>1, <3>3 DEF ChannelsTypeOK
  <2>2. TxnsTypeOK' BY <1>16, UpHead DEF PatchHeld, UpIs, TypeOK, TxnsTypeOK, MainTypeOK
  <2>3. MainTypeOK' /\ WorkersTypeOK' /\ VisitsTypeOK' /\ GhostsTypeOK'
    BY <1>16
       DEF PatchHeld, TypeOK, MainTypeOK, WorkersTypeOK, VisitsTypeOK, GhostsTypeOK, mainVars,
           workerVars, visitVars, ghostVars
  <2> QED BY <2>1, <2>2, <2>3 DEF TypeOK
<1>17. ASSUME NEW w \in Workers, PatchAnswered(w) PROVE TypeOK'
  <2>1. ChannelsTypeOK'
    BY <1>17, ChannelsGrow, PassedOn, TakeUpType, UpHead
       DEF PatchAnswered, UpIs, ChannelsGrow, TypeOK, ChannelsTypeOK, TxnsTypeOK
  <2>2. TxnsTypeOK' BY <1>17, UpHead DEF PatchAnswered, UpIs, TypeOK, TxnsTypeOK
  <2>3. MainTypeOK' /\ WorkersTypeOK' /\ VisitsTypeOK' /\ GhostsTypeOK'
    BY <1>17
       DEF PatchAnswered, TypeOK, MainTypeOK, WorkersTypeOK, VisitsTypeOK, GhostsTypeOK,
           mainVars, workerVars, visitVars, ghostVars
  <2> QED BY <2>1, <2>2, <2>3 DEF TypeOK
<1>18. ASSUME NEW w \in Workers, AccountAsked(w) PROVE TypeOK'
  <2>1. ChannelsTypeOK'
    <3>1. up' \in [Workers -> Seq(UpMsg)] BY <1>18, TakeUpType DEF AccountAsked, UpIs
    <3>2. Head(up[w]).who \in Txns BY <1>18, UpHead DEF AccountAsked, UpIs
    <3>3. down' \in [Workers -> Seq(DownMsg)]
      BY <1>18, <3>2, ChannelsGrow, MsgsTyped
         DEF AccountAsked, OwnerOf, ChannelsGrow, MsgsTyped, TypeOK, ChannelsTypeOK
    <3> QED BY <3>1, <3>3 DEF ChannelsTypeOK
  <2>2. TxnsTypeOK'
    BY <1>18, UpHead DEF AccountAsked, UpIs, OwnerOf, TypeOK, TxnsTypeOK, MainTypeOK
  <2>3. MainTypeOK' /\ WorkersTypeOK' /\ VisitsTypeOK' /\ GhostsTypeOK'
    BY <1>18
       DEF AccountAsked, TypeOK, MainTypeOK, WorkersTypeOK, VisitsTypeOK, GhostsTypeOK,
           mainVars, workerVars, visitVars, ghostVars
  <2> QED BY <2>1, <2>2, <2>3 DEF TypeOK
<1>19. ASSUME NEW w \in Workers, LockReturned(w) PROVE TypeOK'
  <2>1. MainTypeOK'
    BY <1>19, UpHead, ChainsGrow DEF LockReturned, UpIs, ChainsGrow, TypeOK, MainTypeOK
  <2>2. ChannelsTypeOK'
    BY <1>19, ChannelsGrow, MsgsTyped, TakeUpType, UpHead
       DEF LockReturned, UpIs, ChannelsGrow, MsgsTyped, TypeOK, ChannelsTypeOK, MainTypeOK
  <2>3. WorkersTypeOK' /\ TxnsTypeOK' /\ VisitsTypeOK' /\ GhostsTypeOK'
    BY <1>19
       DEF LockReturned, TypeOK, WorkersTypeOK, TxnsTypeOK, VisitsTypeOK, GhostsTypeOK,
           workerVars, txnVars, visitVars, ghostVars
  <2> QED BY <2>1, <2>2, <2>3 DEF TypeOK
<1>20. ASSUME NEW t \in Txns, CallFails(t) PROVE TypeOK'
  <2>1. ChannelsTypeOK'
    BY <1>20, ChannelsGrow, MsgsTyped
       DEF CallFails, ChannelsGrow, MsgsTyped, TypeOK, ChannelsTypeOK, WorkersTypeOK, TxnsTypeOK
  <2>2. TxnsTypeOK'
    BY <1>20 DEF CallFails, TxnStates, Values, Updates, TypeOK, TxnsTypeOK, MainTypeOK
  <2>3. MainTypeOK' /\ WorkersTypeOK' /\ VisitsTypeOK' /\ GhostsTypeOK'
    BY <1>20
       DEF CallFails, TypeOK, MainTypeOK, WorkersTypeOK, VisitsTypeOK, GhostsTypeOK, mainVars,
           workerVars, visitVars, ghostVars
  <2> QED BY <2>1, <2>2, <2>3 DEF TypeOK
<1>21. ASSUME NEW t \in Txns, LostLockReturned(t) PROVE TypeOK'
  <2>1. MainTypeOK' BY <1>21, ChainsGrow DEF LostLockReturned, ChainsGrow, TypeOK, MainTypeOK
  <2>2. ChannelsTypeOK'
    BY <1>21, ChannelsGrow, MsgsTyped
       DEF LostLockReturned, ChannelsGrow, MsgsTyped, TypeOK, ChannelsTypeOK, MainTypeOK
  <2>3. TxnsTypeOK' BY <1>21 DEF LostLockReturned, TypeOK, TxnsTypeOK
  <2>4. WorkersTypeOK' /\ VisitsTypeOK' /\ GhostsTypeOK'
    BY <1>21
       DEF LostLockReturned, TypeOK, WorkersTypeOK, VisitsTypeOK, GhostsTypeOK, workerVars,
           visitVars, ghostVars
  <2> QED BY <2>1, <2>2, <2>3, <2>4 DEF TypeOK
<1>22. ASSUME NEW w \in Workers, WorkerReplaced(w) PROVE TypeOK'
  <2>1. WorkersTypeOK' BY <1>22 DEF WorkerReplaced, TypeOK, WorkersTypeOK
  <2>2. MainTypeOK' /\ ChannelsTypeOK' /\ TxnsTypeOK' /\ VisitsTypeOK' /\ GhostsTypeOK'
    BY <1>22
       DEF WorkerReplaced, TypeOK, MainTypeOK, ChannelsTypeOK, TxnsTypeOK, VisitsTypeOK,
           GhostsTypeOK, mainVars, txnVars, visitVars, ghostVars
  <2> QED BY <2>1, <2>2 DEF TypeOK
<1>23. ASSUME NEW w \in Workers, RpcForwarded(w) PROVE TypeOK'
  <2>1. ChannelsTypeOK'
    BY <1>23, TakeDownType, DownHead DEF RpcForwarded, DownIs, TypeOK, ChannelsTypeOK
  <2>2. TxnsTypeOK' BY <1>23, DownHead DEF RpcForwarded, DownIs, TxnStates, TypeOK, TxnsTypeOK
  <2>3. MainTypeOK' /\ WorkersTypeOK' /\ VisitsTypeOK' /\ GhostsTypeOK'
    BY <1>23
       DEF RpcForwarded, TypeOK, MainTypeOK, WorkersTypeOK, VisitsTypeOK, GhostsTypeOK,
           mainVars, workerVars, visitVars, ghostVars
  <2> QED BY <2>1, <2>2, <2>3 DEF TypeOK
<1>24. ASSUME NEW t \in Txns, WorkerLock(t) PROVE TypeOK'
  <2>1. WorkersTypeOK' BY <1>24, ChainsGrow DEF WorkerLock, ChainsGrow, TypeOK, WorkersTypeOK
  <2>2. ChannelsTypeOK'
    BY <1>24, ChannelsGrow, MsgsTyped
       DEF WorkerLock, ChannelsGrow, MsgsTyped, TypeOK, ChannelsTypeOK
  <2>3. TxnsTypeOK' BY <1>24 DEF WorkerLock, TxnStates, TypeOK, TxnsTypeOK
  <2>4. MainTypeOK' /\ VisitsTypeOK' /\ GhostsTypeOK'
    BY <1>24
       DEF WorkerLock, TypeOK, MainTypeOK, VisitsTypeOK, GhostsTypeOK, mainVars, visitVars,
           ghostVars
  <2> QED BY <2>1, <2>2, <2>3, <2>4 DEF TypeOK
<1>25. ASSUME NEW w \in Workers, LockGranted(w) PROVE TypeOK'
  <2>1. WorkersTypeOK'
    BY <1>25, DownHead, ChainsGrow DEF LockGranted, DownIs, ChainsGrow, TypeOK, WorkersTypeOK
  <2>2. ChannelsTypeOK'
    BY <1>25, ChannelsGrow, TakeDownType, DownHead
       DEF LockGranted, DownIs, ChannelsGrow, TypeOK, ChannelsTypeOK
  <2>3. TxnsTypeOK'
    BY <1>25, DownHead DEF LockGranted, DownIs, TxnStates, TypeOK, TxnsTypeOK, ChannelsTypeOK
  <2>4. MainTypeOK' /\ VisitsTypeOK' /\ GhostsTypeOK'
    BY <1>25
       DEF LockGranted, TypeOK, MainTypeOK, VisitsTypeOK, GhostsTypeOK, mainVars, visitVars,
           ghostVars
  <2> QED BY <2>1, <2>2, <2>3, <2>4 DEF TypeOK
<1>26. ASSUME NEW w \in Workers, LockRefused(w) PROVE TypeOK'
  <2>1. ChannelsTypeOK'
    BY <1>26, TakeDownType, DownHead DEF LockRefused, DownIs, TypeOK, ChannelsTypeOK
  <2>2. TxnsTypeOK'
    BY <1>26, DownHead DEF LockRefused, DownIs, TxnStates, TypeOK, TxnsTypeOK, ChannelsTypeOK
  <2>3. MainTypeOK' /\ WorkersTypeOK' /\ VisitsTypeOK' /\ GhostsTypeOK'
    BY <1>26
       DEF LockRefused, TypeOK, MainTypeOK, WorkersTypeOK, VisitsTypeOK, GhostsTypeOK, mainVars,
           workerVars, visitVars, ghostVars
  <2> QED BY <2>1, <2>2, <2>3 DEF TypeOK
<1>27. ASSUME NEW t \in Txns, WorkerLoad(t) PROVE TypeOK'
  <2>1. ChannelsTypeOK'
    BY <1>27, ChannelsGrow, MsgsTyped
       DEF WorkerLoad, ChannelsGrow, MsgsTyped, TypeOK, ChannelsTypeOK
  <2>2. TxnsTypeOK' BY <1>27 DEF WorkerLoad, TxnStates, TypeOK, TxnsTypeOK
  <2>3. MainTypeOK' /\ WorkersTypeOK' /\ VisitsTypeOK' /\ GhostsTypeOK'
    BY <1>27
       DEF WorkerLoad, TypeOK, MainTypeOK, WorkersTypeOK, VisitsTypeOK, GhostsTypeOK, mainVars,
           workerVars, visitVars, ghostVars
  <2> QED BY <2>1, <2>2, <2>3 DEF TypeOK
<1>28. ASSUME NEW w \in Workers, WorkerRead(w) PROVE TypeOK'
  <2>1. ChannelsTypeOK'
    BY <1>28, TakeDownType, DownHead DEF WorkerRead, DownIs, TypeOK, ChannelsTypeOK
  <2>2. TxnsTypeOK'
    BY <1>28, DownHead
       DEF WorkerRead, DownIs, TxnStates, Values, Updates, TypeOK, TxnsTypeOK, MainTypeOK
  <2>3. GhostsTypeOK'
    BY <1>28, DownHead DEF WorkerRead, DownIs, TypeOK, GhostsTypeOK, WorkersTypeOK
  <2>4. MainTypeOK' /\ WorkersTypeOK' /\ VisitsTypeOK'
    BY <1>28
       DEF WorkerRead, TypeOK, MainTypeOK, WorkersTypeOK, VisitsTypeOK, mainVars, workerVars,
           visitVars
  <2> QED BY <2>1, <2>2, <2>3, <2>4 DEF TypeOK
<1>29. ASSUME NEW t \in Txns, WorkerSave(t) PROVE TypeOK'
  <2>1. WorkersTypeOK'
    <3>1. writes' \in [Workers -> Seq(Txns \cup Visits)]
      BY <1>29, ChainsGrow DEF WorkerSave, ChainsGrow, TypeOK, WorkersTypeOK
    <3>2. live' \in [Workers -> Values]
      <4>1. live' \in {live, [live EXCEPT ![at[t]] = @ \cup {t}]} BY <1>29 DEF WorkerSave
      <4>2. \A v \in Workers : live[v] \cup {t} \in Values
        BY DEF TypeOK, WorkersTypeOK, Values, Updates
      <4>3. CASE live' = live BY <4>3 DEF TypeOK, WorkersTypeOK
      <4>4. CASE live' = [live EXCEPT ![at[t]] = @ \cup {t}]
        <5>1. live \in [Workers -> Values] BY DEF TypeOK, WorkersTypeOK
        <5> QED BY <4>2, <4>4, <5>1
      <4> QED BY <4>1, <4>3, <4>4
    <3> QED BY <1>29, <3>1, <3>2 DEF WorkerSave, TypeOK, WorkersTypeOK
  <2>2. ChannelsTypeOK'
    <3>1. ref[t] = "remote" => copy[t] \cup {t} \in Values
      BY <1>29 DEF TypeOK, TxnsTypeOK, Values, Updates
    <3> QED BY <1>29, <3>1, ChannelsGrow, MsgsTyped
            DEF WorkerSave, ChannelsGrow, MsgsTyped, TypeOK, ChannelsTypeOK
  <2>3. TxnsTypeOK' BY <1>29 DEF WorkerSave, TxnStates, Values, Updates, TypeOK, TxnsTypeOK
  <2>4. GhostsTypeOK' BY <1>29 DEF WorkerSave, TypeOK, GhostsTypeOK, TxnsTypeOK
  <2>5. MainTypeOK' /\ VisitsTypeOK'
    BY <1>29 DEF WorkerSave, TypeOK, MainTypeOK, VisitsTypeOK, mainVars, visitVars
  <2> QED BY <2>1, <2>2, <2>3, <2>4, <2>5 DEF TypeOK
<1>30. ASSUME NEW t \in Txns, TransactionEnds(t) PROVE TypeOK'
  <2>1. WorkersTypeOK'
    BY <1>30, ChainsGrow DEF TransactionEnds, Unlocking, ChainsGrow, TypeOK, WorkersTypeOK
  <2>2. ChannelsTypeOK'
    BY <1>30, ChannelsGrow, MsgsTyped
       DEF TransactionEnds, ChannelsGrow, MsgsTyped, TypeOK, ChannelsTypeOK, TxnsTypeOK
  <2>3. TxnsTypeOK' BY <1>30 DEF TransactionEnds, Unlocking, TxnStates, TypeOK, TxnsTypeOK
  <2>4. MainTypeOK' /\ VisitsTypeOK' /\ GhostsTypeOK'
    BY <1>30
       DEF TransactionEnds, TypeOK, MainTypeOK, VisitsTypeOK, GhostsTypeOK, mainVars, visitVars,
           ghostVars
  <2> QED BY <2>1, <2>2, <2>3, <2>4 DEF TypeOK
<1>31. ASSUME NEW w \in Workers, PatchSettled(w) PROVE TypeOK'
  <2>1. ChannelsTypeOK'
    BY <1>31, TakeDownType, DownHead DEF PatchSettled, DownIs, TypeOK, ChannelsTypeOK
  <2>2. TxnsTypeOK'
    BY <1>31, DownHead DEF PatchSettled, DownIs, TxnStates, TypeOK, TxnsTypeOK, ChannelsTypeOK
  <2>3. MainTypeOK' /\ WorkersTypeOK' /\ VisitsTypeOK' /\ GhostsTypeOK'
    BY <1>31
       DEF PatchSettled, TypeOK, MainTypeOK, WorkersTypeOK, VisitsTypeOK, GhostsTypeOK,
           mainVars, workerVars, visitVars, ghostVars
  <2> QED BY <2>1, <2>2, <2>3 DEF TypeOK
<1>32. ASSUME NEW w \in Workers, CallFromElsewhere(w) PROVE TypeOK'
  <2>1. WorkersTypeOK' BY <1>32, DownHead DEF CallFromElsewhere, DownIs, TypeOK, WorkersTypeOK
  <2>2. ChannelsTypeOK'
    BY <1>32, TakeDownType, DownHead DEF CallFromElsewhere, DownIs, TypeOK, ChannelsTypeOK
  <2>3. TxnsTypeOK'
    BY <1>32, DownHead DEF CallFromElsewhere, DownIs, TypeOK, TxnsTypeOK, WorkersTypeOK
  <2>4. MainTypeOK' /\ VisitsTypeOK' /\ GhostsTypeOK'
    BY <1>32
       DEF CallFromElsewhere, TypeOK, MainTypeOK, VisitsTypeOK, GhostsTypeOK, mainVars,
           visitVars, ghostVars
  <2> QED BY <2>1, <2>2, <2>3, <2>4 DEF TypeOK
<1>33. ASSUME NEW t \in Txns, NEW w \in Workers, LiveForElsewhere(t, w) PROVE TypeOK'
  <2>1. WorkersTypeOK' BY <1>33 DEF LiveForElsewhere, TypeOK, WorkersTypeOK
  <2>2. ChannelsTypeOK'
    BY <1>33, ChannelsGrow, MsgsTyped
       DEF LiveForElsewhere, ChannelsGrow, MsgsTyped, TypeOK, ChannelsTypeOK, WorkersTypeOK
  <2>3. TxnsTypeOK' BY <1>33 DEF LiveForElsewhere, TypeOK, TxnsTypeOK
  <2>4. MainTypeOK' /\ VisitsTypeOK' /\ GhostsTypeOK'
    BY <1>33
       DEF LiveForElsewhere, TypeOK, MainTypeOK, VisitsTypeOK, GhostsTypeOK, mainVars,
           visitVars, ghostVars
  <2> QED BY <2>1, <2>2, <2>3, <2>4 DEF TypeOK
<1>34. ASSUME NEW t \in Txns, NEW w \in Workers, HoldForElsewhere(t, w) PROVE TypeOK'
  <2>1. WorkersTypeOK'
    BY <1>34, ChainsGrow DEF HoldForElsewhere, ChainsGrow, TypeOK, WorkersTypeOK
  <2>2. ChannelsTypeOK'
    BY <1>34, ChannelsGrow, MsgsTyped
       DEF HoldForElsewhere, ChannelsGrow, MsgsTyped, TypeOK, ChannelsTypeOK
  <2>3. MainTypeOK' /\ TxnsTypeOK' /\ VisitsTypeOK' /\ GhostsTypeOK'
    BY <1>34
       DEF HoldForElsewhere, TypeOK, MainTypeOK, TxnsTypeOK, VisitsTypeOK, GhostsTypeOK,
           mainVars, txnVars, visitVars, ghostVars
  <2> QED BY <2>1, <2>2, <2>3 DEF TypeOK
<1>35. ASSUME NEW t \in Txns, NEW w \in Workers, HoldTurn(t, w) PROVE TypeOK'
  <2>1. WorkersTypeOK'
    <3>1. chain' \in [Workers -> Seq(Txns)]
      BY <1>35, ChainsGrow, ZenonT(60) DEF HoldTurn, ChainsGrow, TypeOK, WorkersTypeOK
    <3>2. holds' \in [Workers -> SUBSET Txns]
      <4>1. holds' \in {holds, [holds EXCEPT ![w] = @ \cup {t}]} BY <1>35 DEF HoldTurn
      <4>2. CASE holds' = holds BY <4>2 DEF TypeOK, WorkersTypeOK
      <4>3. CASE holds' = [holds EXCEPT ![w] = @ \cup {t}]
        <5>1. holds \in [Workers -> SUBSET Txns] /\ holds[w] \cup {t} \in SUBSET Txns
          BY <1>35 DEF TypeOK, WorkersTypeOK
        <5> QED BY <4>3, <5>1
      <4> QED BY <4>1, <4>2, <4>3
    <3> QED BY <1>35, <3>1, <3>2 DEF HoldTurn, TypeOK, WorkersTypeOK
  <2>2. ChannelsTypeOK'
    BY <1>35, ChannelsGrow, MsgsTyped
       DEF HoldTurn, ChannelsGrow, MsgsTyped, TypeOK, ChannelsTypeOK, WorkersTypeOK
  <2>3. MainTypeOK' /\ TxnsTypeOK' /\ VisitsTypeOK' /\ GhostsTypeOK'
    BY <1>35
       DEF HoldTurn, TypeOK, MainTypeOK, TxnsTypeOK, VisitsTypeOK, GhostsTypeOK, mainVars,
           txnVars, visitVars, ghostVars
  <2> QED BY <2>1, <2>2, <2>3 DEF TypeOK
<1>36. ASSUME NEW w \in Workers, PatchForElsewhere(w) PROVE TypeOK'
  <2>1. WorkersTypeOK'
    <3>1. Head(down[w]).who \in Txns /\ Head(down[w]).val \in Values \cup {NoVal}
      BY <1>36, DownHead DEF PatchForElsewhere, DownIs
    <3>2. writes' \in [Workers -> Seq(Txns \cup Visits)]
      BY <1>36, <3>1, ChainsGrow DEF PatchForElsewhere, ChainsGrow, TypeOK, WorkersTypeOK
    <3>3. (live[w] \ Social) \cup (Head(down[w]).val \cap Social) \in Values
      BY NamesAssumption DEF TypeOK, WorkersTypeOK, Values, Updates
    <3>4. live' \in [Workers -> Values]
      BY <1>36, <3>3 DEF PatchForElsewhere, TypeOK, WorkersTypeOK
    <3> QED BY <1>36, <3>2, <3>4 DEF PatchForElsewhere, TypeOK, WorkersTypeOK
  <2>2. ChannelsTypeOK'
    <3>1. down' \in [Workers -> Seq(DownMsg)]
      BY <1>36, TakeDownType DEF PatchForElsewhere, DownIs
    <3>2. Head(down[w]).who \in Txns BY <1>36, DownHead DEF PatchForElsewhere, DownIs
    <3>3. up' \in [Workers -> Seq(UpMsg)]
      BY <1>36, <3>2, ChannelsGrow, MsgsTyped
         DEF PatchForElsewhere, ChannelsGrow, MsgsTyped, TypeOK, ChannelsTypeOK
    <3> QED BY <3>1, <3>3 DEF ChannelsTypeOK
  <2>3. MainTypeOK' /\ TxnsTypeOK' /\ VisitsTypeOK' /\ GhostsTypeOK'
    BY <1>36
       DEF PatchForElsewhere, TypeOK, MainTypeOK, TxnsTypeOK, VisitsTypeOK, GhostsTypeOK,
           mainVars, txnVars, visitVars, ghostVars
  <2> QED BY <2>1, <2>2, <2>3 DEF TypeOK
<1>37. ASSUME NEW w \in Workers, ReleaseForElsewhere(w) PROVE TypeOK'
  <2>1. WorkersTypeOK'
    BY <1>37, DownHead, ChainsGrow, ZenonT(60)
       DEF ReleaseForElsewhere, DownIs, ChainsGrow, TypeOK, WorkersTypeOK
  <2>2. ChannelsTypeOK'
    BY <1>37, TakeDownType, DownHead DEF ReleaseForElsewhere, DownIs, TypeOK, ChannelsTypeOK
  <2>3. MainTypeOK' /\ TxnsTypeOK' /\ VisitsTypeOK' /\ GhostsTypeOK'
    BY <1>37
       DEF ReleaseForElsewhere, TypeOK, MainTypeOK, TxnsTypeOK, VisitsTypeOK, GhostsTypeOK,
           mainVars, txnVars, visitVars, ghostVars
  <2> QED BY <2>1, <2>2, <2>3 DEF TypeOK
<1>38. ASSUME NEW e \in Visits, NEW w \in Workers, Enter(e, w) PROVE TypeOK'
  <2>1. VisitsTypeOK' BY <1>38 DEF Enter, TypeOK, VisitsTypeOK, WorkersTypeOK
  <2>2. MainTypeOK' /\ WorkersTypeOK' /\ ChannelsTypeOK' /\ TxnsTypeOK' /\ GhostsTypeOK'
    BY <1>38
       DEF Enter, TypeOK, MainTypeOK, WorkersTypeOK, ChannelsTypeOK, TxnsTypeOK, GhostsTypeOK,
           mainVars, workerVars, txnVars, ghostVars
  <2> QED BY <2>1, <2>2 DEF TypeOK
<1>39. ASSUME NEW e \in Visits, AcquireLease(e) PROVE TypeOK'
  <2>1. WorkersTypeOK' BY <1>39, ZenonT(60) DEF AcquireLease, TypeOK, WorkersTypeOK
  <2>2. ChannelsTypeOK'
    BY <1>39, ChannelsGrow, MsgsTyped
       DEF AcquireLease, ChannelsGrow, MsgsTyped, TypeOK, ChannelsTypeOK, MainTypeOK
  <2>3. VisitsTypeOK' BY <1>39 DEF AcquireLease, TypeOK, VisitsTypeOK, WorkersTypeOK
  <2>4. MainTypeOK' /\ TxnsTypeOK' /\ GhostsTypeOK'
    BY <1>39
       DEF AcquireLease, TypeOK, MainTypeOK, TxnsTypeOK, GhostsTypeOK, mainVars, txnVars,
           ghostVars
  <2> QED BY <2>1, <2>2, <2>3, <2>4 DEF TypeOK
<1>40. ASSUME NEW w \in Workers, LeaseGranted(w) PROVE TypeOK'
  <2>1. WorkersTypeOK'
    BY <1>40, DownHead DEF LeaseGranted, DownIs, Acquired, Values, Updates, TypeOK, WorkersTypeOK
  <2>2. ChannelsTypeOK'
    BY <1>40, TakeDownType, DownHead DEF LeaseGranted, DownIs, TypeOK, ChannelsTypeOK
  <2>3. VisitsTypeOK' BY <1>40, DownHead DEF LeaseGranted, DownIs, TypeOK, VisitsTypeOK
  <2>4. MainTypeOK' /\ TxnsTypeOK' /\ GhostsTypeOK'
    BY <1>40
       DEF LeaseGranted, TypeOK, MainTypeOK, TxnsTypeOK, GhostsTypeOK, mainVars, txnVars,
           ghostVars
  <2> QED BY <2>1, <2>2, <2>3, <2>4 DEF TypeOK
<1>41. ASSUME NEW w \in Workers, LeaseRefused(w) PROVE TypeOK'
  <2>1. WorkersTypeOK'
    BY <1>41, DownHead DEF LeaseRefused, DownIs, Acquired, TypeOK, WorkersTypeOK
  <2>2. ChannelsTypeOK'
    BY <1>41, TakeDownType, DownHead DEF LeaseRefused, DownIs, TypeOK, ChannelsTypeOK
  <2>3. VisitsTypeOK'
    BY <1>41, DownHead DEF LeaseRefused, DownIs, TypeOK, VisitsTypeOK, ChannelsTypeOK
  <2>4. MainTypeOK' /\ TxnsTypeOK' /\ GhostsTypeOK'
    BY <1>41
       DEF LeaseRefused, TypeOK, MainTypeOK, TxnsTypeOK, GhostsTypeOK, mainVars, txnVars,
           ghostVars
  <2> QED BY <2>1, <2>2, <2>3, <2>4 DEF TypeOK
<1>42. ASSUME NEW e \in Visits, Reward(e) PROVE TypeOK'
  <2>1. WorkersTypeOK'
    BY <1>42, ChainsGrow DEF Reward, ChainsGrow, Values, Updates, TypeOK, WorkersTypeOK
  <2>2. MainTypeOK' /\ ChannelsTypeOK' /\ TxnsTypeOK' /\ VisitsTypeOK' /\ GhostsTypeOK'
    BY <1>42
       DEF Reward, TypeOK, MainTypeOK, ChannelsTypeOK, TxnsTypeOK, VisitsTypeOK, GhostsTypeOK,
           mainVars, txnVars, visitVars, ghostVars
  <2> QED BY <2>1, <2>2 DEF TypeOK
<1>43. ASSUME NEW e \in Visits, ReleaseLease(e) PROVE TypeOK'
  <2>1. WorkersTypeOK' BY <1>43 DEF ReleaseLease, TypeOK, WorkersTypeOK
  <2>2. VisitsTypeOK' BY <1>43 DEF ReleaseLease, TypeOK, VisitsTypeOK
  <2>3. MainTypeOK' /\ ChannelsTypeOK' /\ TxnsTypeOK' /\ GhostsTypeOK'
    BY <1>43
       DEF ReleaseLease, TypeOK, MainTypeOK, ChannelsTypeOK, TxnsTypeOK, GhostsTypeOK, mainVars,
           txnVars, ghostVars
  <2> QED BY <2>1, <2>2, <2>3 DEF TypeOK
<1>44. ASSUME NEW w \in Workers, HandBack(w) PROVE TypeOK'
  <2>1. WorkersTypeOK' BY <1>44 DEF HandBack, TypeOK, WorkersTypeOK
  <2>2. ChannelsTypeOK'
    BY <1>44, ChannelsGrow, MsgsTyped
       DEF HandBack, ChannelsGrow, MsgsTyped, TypeOK, ChannelsTypeOK
  <2>3. TxnsTypeOK'
    <3>1. copy' \in [Txns -> Values] BY <1>44 DEF HandBack, TypeOK, TxnsTypeOK, WorkersTypeOK
    <3>2. ref' \in [Txns -> {"none", "live", "ended", "own", "read", "remote"}]
      BY <1>44 DEF HandBack, TypeOK, TxnsTypeOK
    <3> QED BY <1>44, <3>1, <3>2 DEF HandBack, TypeOK, TxnsTypeOK
  <2>4. MainTypeOK' /\ VisitsTypeOK' /\ GhostsTypeOK'
    BY <1>44
       DEF HandBack, TypeOK, MainTypeOK, VisitsTypeOK, GhostsTypeOK, mainVars, visitVars,
           ghostVars
  <2> QED BY <2>1, <2>2, <2>3, <2>4 DEF TypeOK
<1>45. ASSUME NEW w \in Workers, WriteLands(w) PROVE TypeOK'
  <2>1. MainTypeOK'
    <3>1. Head(writes[w]) \in Txns \cup Visits
      BY <1>45, HeadType DEF WriteLands, TypeOK, WorkersTypeOK
    <3>2. Object(Head(writes[w]), w) \in Values
      BY <3>1 DEF Object, TypeOK, TxnsTypeOK, WorkersTypeOK
    <3> QED BY <1>45, <3>2 DEF WriteLands, TypeOK, MainTypeOK, mainVars
  <2>2. WorkersTypeOK'
    BY <1>45, ChainsGrow, TakeType DEF WriteLands, ChainsGrow, TypeOK, WorkersTypeOK
  <2>3. ChannelsTypeOK'
    <3>1. Head(writes[w]) \in Txns \cup Visits
      BY <1>45, HeadType DEF WriteLands, TypeOK, WorkersTypeOK
    <3>2. {} \in Values BY DEF Values
    <3> QED BY <1>45, <3>1, <3>2, ChannelsGrow, MsgsTyped
            DEF WriteLands, ChannelsGrow, MsgsTyped, TypeOK, ChannelsTypeOK
  <2>4. TxnsTypeOK' BY <1>45 DEF WriteLands, TxnStates, TypeOK, TxnsTypeOK
  <2>5. GhostsTypeOK'
    <3>1. Head(writes[w]) \in Txns \cup Visits
      BY <1>45, HeadType DEF WriteLands, TypeOK, WorkersTypeOK
    <3> QED BY <1>45, <3>1 DEF WriteLands, Values, Updates, TypeOK, GhostsTypeOK
  <2>6. VisitsTypeOK' BY <1>45 DEF WriteLands, TypeOK, VisitsTypeOK, visitVars
  <2> QED BY <2>1, <2>2, <2>3, <2>4, <2>5, <2>6 DEF TypeOK
<1>46. ASSUME NEW w \in Workers, WorkerDies(w) PROVE TypeOK'
  <2>1. MainTypeOK' BY <1>46 DEF WorkerDies, TypeOK, MainTypeOK
  <2>2. WorkersTypeOK'
    BY <1>46, ChainsGrow DEF WorkerDies, ChainsGrow, Values, Updates, TypeOK, WorkersTypeOK
  <2>3. ChannelsTypeOK' BY <1>46 DEF WorkerDies, TypeOK, ChannelsTypeOK
  <2>4. TxnsTypeOK'
    BY <1>46 DEF WorkerDies, TxnStates, TypeOK, TxnsTypeOK, MainTypeOK, WorkersTypeOK
  <2>5. VisitsTypeOK' BY <1>46 DEF WorkerDies, TypeOK, VisitsTypeOK
  <2>6. GhostsTypeOK' BY <1>46 DEF WorkerDies, TypeOK, GhostsTypeOK
  <2> QED BY <2>1, <2>2, <2>3, <2>4, <2>5, <2>6 DEF TypeOK
<1>47. CASE UNCHANGED vars
  BY <1>47
     DEF TypeOK, MainTypeOK, WorkersTypeOK, ChannelsTypeOK, TxnsTypeOK, VisitsTypeOK,
         GhostsTypeOK,
               vars, mainVars, workerVars, txnVars, visitVars, ghostVars
<1>48. ASSUME MainStep PROVE TypeOK'
  BY <1>48, <1>3, <1>4, <1>5, <1>6, <1>7, <1>8, <1>9, <1>11, <1>12, <1>13, <1>14, <1>15, <1>16,
     <1>17, <1>18, <1>19, <1>20, <1>21, <1>22 DEF MainStep, MainReceives
<1>49. ASSUME WorkerStep PROVE TypeOK'
  BY <1>49, <1>23, <1>24, <1>25, <1>26, <1>27, <1>28, <1>29, <1>30, <1>31, <1>32, <1>33, <1>34,
     <1>35, <1>36, <1>37, <1>39, <1>40, <1>41, <1>44, <1>45 DEF WorkerStep, WorkerReceives
<1>50. ASSUME Players PROVE TypeOK' BY <1>50, <1>1, <1>2, <1>38, <1>42, <1>43 DEF Players
<1> QED BY <1>10, <1>46, <1>47, <1>48, <1>49, <1>50 DEF Next

\* Everything is empty and idle at first.
LEMMA TypeInit == Init => TypeOK
<1> SUFFICES ASSUME Init PROVE TypeOK OBVIOUS
<1>1. MainTypeOK BY EmptySeq DEF Init, MainTypeOK, Values
<1>2. WorkersTypeOK BY EmptySeq DEF Init, WorkersTypeOK, Values
<1>3. ChannelsTypeOK BY EmptySeq DEF Init, ChannelsTypeOK
<1>4. TxnsTypeOK BY DEF Init, TxnsTypeOK, TxnStates, Values
<1>5. VisitsTypeOK /\ GhostsTypeOK BY DEF Init, VisitsTypeOK, GhostsTypeOK, Values
<1> QED BY <1>1, <1>2, <1>3, <1>4, <1>5 DEF TypeOK

\* The channels carry only the messages their ends understand, and every table of the
\* main thread and of the workers stays within what its readers expect.
THEOREM TypeCorrect == Spec => []TypeOK
BY TypeInit, TypeStep, PTL DEF Spec

(***************************************************************************)
(* The lease and the live object are in one place.  The inductive invariant*)
(* is LeaseInv of AccountLease.  Besides LeaseIsInOnePlace it says that    *)
(* every answer to a lease call finds its entry waiting on the worker it   *)
(* is sent to, and that neither an answer, nor a grant, nor a returned     *)
(* lease is ever under way twice: without that, taking one message from a  *)
(* channel would not tell whether another like it is still in it.          *)
(***************************************************************************)

\* A channel after a message has been posted, to it or to another.
LEMMA Posted ==
  ASSUME NEW S, NEW ch \in [Workers -> Seq(S)], NEW w, NEW m, NEW v \in Workers
  PROVE  /\ v # w => Post(ch, w, m)[v] = ch[v]
         /\ v = w => /\ Len(Post(ch, w, m)[v]) = Len(ch[v]) + 1
                     /\ Post(ch, w, m)[v][Len(ch[v]) + 1] = m
                     /\ \A i \in 1..Len(ch[v]) : Post(ch, w, m)[v][i] = ch[v][i]
         /\ Len(ch[v]) \in Nat
<1>1. Len(ch[v]) \in Nat BY LenProperties
<1>2. v # w => Post(ch, w, m)[v] = ch[v] BY DEF Post
<1>3. ASSUME v = w
      PROVE  Post(ch, w, m)[v] = Append(ch[v], m)
  BY <1>3 DEF Post
<1>4. ch[v] \in Seq(S \cup {m}) BY SeqMonotonic
<1>5. /\ Len(Append(ch[v], m)) = Len(ch[v]) + 1
      /\ Append(ch[v], m)[Len(ch[v]) + 1] = m
      /\ \A i \in 1..Len(ch[v]) : Append(ch[v], m)[i] = ch[v][i]
  BY <1>4, AppendProperties
<1> QED BY <1>1, <1>2, <1>3, <1>5

\* A channel after the first message has been taken, from it or from another.
LEMMA Taken ==
  ASSUME NEW S, NEW ch \in [Workers -> Seq(S)], NEW w \in Workers, ch[w] # <<>>, NEW ch2,
         ch2 = [ch EXCEPT ![w] = Tail(@)], NEW v \in Workers
  PROVE  /\ v # w => ch2[v] = ch[v]
         /\ v = w => /\ Len(ch2[v]) = Len(ch[v]) - 1
                     /\ \A i \in 1..Len(ch2[v]) : ch2[v][i] = ch[v][i + 1]
         /\ Len(ch[v]) \in Nat
         /\ Len(ch[w]) \in Nat \ {0}
         /\ Head(ch[w]) = ch[w][1]
<1>1. Len(ch[v]) \in Nat /\ Len(ch[w]) \in Nat \ {0} BY LenProperties, EmptySeq
<1>2. v # w => ch2[v] = ch[v] OBVIOUS
<1>3. ch2[w] = Tail(ch[w]) OBVIOUS
<1>4. Head(ch[w]) = ch[w][1] OBVIOUS
<1> QED BY <1>1, <1>2, <1>3, <1>4, HeadTailProperties

----------------------------------------------------------------------------
\* Steps that neither send nor receive the answer to a lease call, nor a lease handed back.
DownQuiet ==
  \/ down' = down
  \/ \E w, m : ~LeaseAnswer(m) /\ down' = Post(down, w, m)
  \/ \E w \in Workers : down[w] # <<>> /\ ~LeaseAnswer(Head(down[w])) /\ TakeDown(w)
UpQuiet ==
  \/ up' = up
  \/ \E w, m : m.op # "release" /\ up' = Post(up, w, m)
  \/ \E w \in Workers : up[w] # <<>> /\ Head(up[w]).op # "release" /\ TakeUp(w)
\* Entries that have an answer on the way keep waiting for it.
AnsweredStay ==
  \A e \in Visits : visit[e] = "answered" => visit'[e] = "answered" /\ vat'[e] = vat[e]

AnswersInv == AnswersAreAwaited /\ OneAnswerEach /\ GrantedOnce

\* Such a step changes nothing about the answers on their way to the workers.
LEMMA DownQuietStep ==
  ASSUME TypeOK, AnswersInv, DownQuiet, AnsweredStay
  PROVE  AnswersInv' /\ \A w \in Workers : Granting(w)' <=> Granting(w)
<1>0. down \in [Workers -> Seq(DownMsg)] BY DEF TypeOK, ChannelsTypeOK
<1>a. \A w \in Workers : \A i \in 1..Len(down[w]) :
         LeaseAnswer(down[w][i]) => down[w][i].who \in Visits
  BY <1>0, ElementOfSeq DEF DownMsg, LeaseAnswer
<1>1. CASE down' = down
  BY <1>1, <1>a
     DEF AnswersInv, AnswersAreAwaited, OneAnswerEach, GrantedOnce, Granting, AnsweredStay,
                    LeaseGrant, LeaseAnswer
<1>2. ASSUME NEW u, NEW m, ~LeaseAnswer(m), down' = Post(down, u, m)
      PROVE  AnswersInv' /\ \A w \in Workers : Granting(w)' <=> Granting(w)
  <2>1. ASSUME NEW w \in Workers, NEW i \in 1..Len(down'[w]), LeaseAnswer(down'[w][i])
        PROVE  i \in 1..Len(down[w]) /\ down'[w][i] = down[w][i]
    BY <1>0, <1>2, <2>1, Posted
  <2>2. ASSUME NEW w \in Workers, NEW i \in 1..Len(down[w])
        PROVE  i \in 1..Len(down'[w]) /\ down'[w][i] = down[w][i]
    BY <1>0, <1>2, <2>2, Posted
  <2>3. AnswersAreAwaited'
    BY <2>1, <1>a DEF AnswersInv, AnswersAreAwaited, AnsweredStay, LeaseAnswer
  <2>4. OneAnswerEach' BY <2>1 DEF AnswersInv, OneAnswerEach, LeaseAnswer
  <2>5. GrantedOnce' BY <2>1 DEF AnswersInv, GrantedOnce, LeaseGrant, LeaseAnswer
  <2>6. \A w \in Workers : Granting(w)' <=> Granting(w)
    BY <2>1, <2>2 DEF Granting, LeaseGrant, LeaseAnswer
  <2> QED BY <2>3, <2>4, <2>5, <2>6 DEF AnswersInv
<1>3. ASSUME NEW u \in Workers, down[u] # <<>>, ~LeaseAnswer(Head(down[u])), TakeDown(u)
      PROVE  AnswersInv' /\ \A w \in Workers : Granting(w)' <=> Granting(w)
  <2>0. down' = [down EXCEPT ![u] = Tail(@)] BY <1>3 DEF TakeDown
  <2>1. ASSUME NEW w \in Workers, w # u
        PROVE  down'[w] = down[w]
    BY <1>0, <1>3, <2>0, <2>1, Taken
  <2>2. ASSUME NEW i \in 1..Len(down'[u])
        PROVE  i + 1 \in 1..Len(down[u]) /\ down'[u][i] = down[u][i + 1] /\ i \in Nat
    BY <1>0, <1>3, <2>0, Taken
  <2>3. ASSUME NEW i \in 1..Len(down[u]), LeaseAnswer(down[u][i])
        PROVE  i - 1 \in 1..Len(down'[u]) /\ down'[u][i - 1] = down[u][i]
    BY <1>0, <1>3, <2>0, <2>3, Taken
  <2>4. AnswersAreAwaited'
    BY <2>1, <2>2, <1>a, SMTT(30) DEF AnswersInv, AnswersAreAwaited, AnsweredStay, LeaseAnswer
  <2>5. OneAnswerEach'
    <3> SUFFICES ASSUME NEW w \in Workers, NEW i \in 1..Len(down'[w]), NEW j \in 1..Len(down'[w]),
                        LeaseAnswer(down'[w][i]), LeaseAnswer(down'[w][j]),
                        down'[w][i].who = down'[w][j].who
                 PROVE  i = j
      BY DEF OneAnswerEach, LeaseAnswer
    <3>1. CASE w = u
      <4>1. i + 1 = j + 1 BY <3>1, <2>2 DEF AnswersInv, OneAnswerEach
      <4> QED BY <4>1
    <3>2. CASE w # u BY <3>2, <2>1 DEF AnswersInv, OneAnswerEach
    <3> QED BY <3>1, <3>2
  <2>6. GrantedOnce'
    <3> SUFFICES ASSUME NEW w \in Workers, NEW i \in 1..Len(down'[w]), NEW j \in 1..Len(down'[w]),
                        LeaseGrant(down'[w][i]), LeaseGrant(down'[w][j])
                 PROVE  i = j
      BY DEF GrantedOnce, LeaseGrant
    <3>1. CASE w = u
      <4>1. /\ i + 1 \in 1..Len(down[u]) /\ down'[u][i] = down[u][i + 1] /\ i \in Nat
            /\ j + 1 \in 1..Len(down[u]) /\ down'[u][j] = down[u][j + 1] /\ j \in Nat
        BY <3>1, <2>2
      <4>2. LeaseGrant(down[u][i + 1]) /\ LeaseGrant(down[u][j + 1]) BY <3>1, <4>1
      <4>3. \A a, b \in 1..Len(down[u]) :
               LeaseGrant(down[u][a]) /\ LeaseGrant(down[u][b]) => a = b
        BY DEF AnswersInv, GrantedOnce
      <4> HIDE DEF LeaseGrant
      <4>4. i + 1 = j + 1 BY <4>1, <4>2, <4>3
      <4> QED BY <4>1, <4>4
    <3>2. CASE w # u BY <3>2, <2>1 DEF AnswersInv, GrantedOnce
    <3> QED BY <3>1, <3>2
  <2>7. \A w \in Workers : Granting(w)' <=> Granting(w)
    <3>1. Granting(u)' => Granting(u) BY <2>2 DEF Granting, LeaseGrant
    <3>2. Granting(u) => Granting(u)' BY <2>3 DEF Granting, LeaseGrant, LeaseAnswer
    <3>3. ASSUME NEW w \in Workers, w # u PROVE Granting(w)' <=> Granting(w)
      BY <2>1, <3>3 DEF Granting
    <3> QED BY <3>1, <3>2, <3>3
  <2> QED BY <2>4, <2>5, <2>6, <2>7 DEF AnswersInv
<1> QED BY <1>1, <1>2, <1>3 DEF DownQuiet

\* Nor about the leases on their way back.
LEMMA UpQuietStep ==
  ASSUME TypeOK, ReturnedOnce, UpQuiet
  PROVE  ReturnedOnce' /\ \A w \in Workers : Returning(w)' <=> Returning(w)
<1>0. up \in [Workers -> Seq(UpMsg)] BY DEF TypeOK, ChannelsTypeOK
<1>1. CASE up' = up BY <1>1 DEF ReturnedOnce, Returning
<1>2. ASSUME NEW u, NEW m, m.op # "release", up' = Post(up, u, m)
      PROVE  ReturnedOnce' /\ \A w \in Workers : Returning(w)' <=> Returning(w)
  <2>1. ASSUME NEW w \in Workers, NEW i \in 1..Len(up'[w]), up'[w][i].op = "release"
        PROVE  i \in 1..Len(up[w]) /\ up'[w][i] = up[w][i]
    BY <1>0, <1>2, <2>1, Posted
  <2>2. ASSUME NEW w \in Workers, NEW i \in 1..Len(up[w])
        PROVE  i \in 1..Len(up'[w]) /\ up'[w][i] = up[w][i]
    BY <1>0, <1>2, <2>2, Posted
  <2> QED BY <2>1, <2>2, SMTT(30) DEF ReturnedOnce, Returning
<1>3. ASSUME NEW u \in Workers, up[u] # <<>>, Head(up[u]).op # "release", TakeUp(u)
      PROVE  ReturnedOnce' /\ \A w \in Workers : Returning(w)' <=> Returning(w)
  <2>0. up' = [up EXCEPT ![u] = Tail(@)] BY <1>3 DEF TakeUp
  <2>1. ASSUME NEW w \in Workers, w # u
        PROVE  up'[w] = up[w]
    BY <1>0, <1>3, <2>0, <2>1, Taken
  <2>2. ASSUME NEW i \in 1..Len(up'[u])
        PROVE  i + 1 \in 1..Len(up[u]) /\ up'[u][i] = up[u][i + 1] /\ i \in Nat
    BY <1>0, <1>3, <2>0, Taken
  <2>3. ASSUME NEW i \in 1..Len(up[u]), up[u][i].op = "release"
        PROVE  i - 1 \in 1..Len(up'[u]) /\ up'[u][i - 1] = up[u][i]
    BY <1>0, <1>3, <2>0, <2>3, Taken
  <2>4. ReturnedOnce'
    <3> SUFFICES ASSUME NEW w \in Workers, NEW i \in 1..Len(up'[w]), NEW j \in 1..Len(up'[w]),
                        up'[w][i].op = "release", up'[w][j].op = "release"
                 PROVE  i = j
      BY DEF ReturnedOnce
    <3>1. CASE w = u
      <4>1. i + 1 = j + 1 BY <3>1, <2>2 DEF ReturnedOnce
      <4> QED BY <4>1
    <3>2. CASE w # u BY <3>2, <2>1 DEF ReturnedOnce
    <3> QED BY <3>1, <3>2
  <2>5. \A w \in Workers : Returning(w)' <=> Returning(w) BY <2>1, <2>2, <2>3 DEF Returning
  <2> QED BY <2>4, <2>5
<1> QED BY <1>1, <1>2, <1>3 DEF UpQuiet

\* If it also leaves the lease, the members and `releasing` alone, the invariant survives it.
LEMMA QuietStep ==
  ASSUME TypeOK, LeaseInv, DownQuiet, UpQuiet, AnsweredStay, EntriesHaveWorkers',
         UNCHANGED <<lease, releasing>>, \A w \in Workers : Held(w)' <=> Held(w)
  PROVE  LeaseInv'
<1>1. AnswersInv' /\ \A w \in Workers : Granting(w)' <=> Granting(w)
  BY DownQuietStep DEF LeaseInv, AnswersInv
<1>2. ReturnedOnce' /\ \A w \in Workers : Returning(w)' <=> Returning(w)
  BY UpQuietStep DEF LeaseInv
<1>3. LeaseIsInOnePlace' BY <1>1, <1>2 DEF LeaseInv, LeaseIsInOnePlace
<1> QED BY <1>1, <1>2, <1>3 DEF LeaseInv, AnswersInv

\* Most actions change no entry at all.
LEMMA StillStep ==
  ASSUME TypeOK, LeaseInv, DownQuiet, UpQuiet, UNCHANGED <<lease, releasing, visit, vat>>
  PROVE  LeaseInv'
<1>1. AnsweredStay /\ EntriesHaveWorkers' BY DEF AnsweredStay, LeaseInv, EntriesHaveWorkers
<1>2. \A w \in Workers : Held(w)' <=> Held(w) BY DEF Held
<1> QED BY <1>1, <1>2, QuietStep

-----------------------------------------------------------------------------

\* The main thread answers an entry's lease call: with the account only when nobody has it.
LEMMA AnswerStep ==
  ASSUME NEW e \in Visits, NEW m, TypeOK, LeaseInv,
         visit[e] \in {"asked", "waiting"}, LeaseAnswer(m), m.who = e,
         down' = Post(down, vat[e], m), visit' = [visit EXCEPT ![e] = "answered"],
         up' = up, vat' = vat, releasing' = releasing,
         \/ ~LeaseGrant(m) /\ lease' = lease
         \/ LeaseGrant(m) /\ lease = NoWorker /\ lease' = vat[e]
  PROVE  LeaseInv'
<1> DEFINE u == vat[e]
<1>1. u \in Workers /\ NoWorker \notin Workers
  BY NamesAssumption DEF LeaseInv, EntriesHaveWorkers
<1>2. down \in [Workers -> Seq(DownMsg)] /\ visit \in [Visits -> {"new", "acquiring", "asked",
         "waiting", "woken", "answered", "in", "out"}]
  BY DEF TypeOK, ChannelsTypeOK, VisitsTypeOK
<1>3. ASSUME NEW w \in Workers, NEW i \in 1..Len(down[w]), LeaseAnswer(down[w][i])
      PROVE  down[w][i].who \in Visits /\ down[w][i].who # e
  <2>1. down[w][i].who \in Visits BY <1>2, <1>3, ElementOfSeq DEF DownMsg, LeaseAnswer
  <2> QED BY <1>3, <2>1 DEF LeaseInv, AnswersAreAwaited
<1>4. ASSUME NEW w \in Workers, w # u PROVE down'[w] = down[w] BY <1>2, <1>4, Posted
<1>5. /\ Len(down[u]) \in Nat /\ Len(down'[u]) = Len(down[u]) + 1
      /\ down'[u][Len(down[u]) + 1] = m
      /\ \A i \in 1..Len(down[u]) : down'[u][i] = down[u][i]
  BY <1>1, <1>2, Posted
<1>6. ASSUME NEW i \in 1..Len(down'[u])
      PROVE  \/ i \in 1..Len(down[u]) /\ down'[u][i] = down[u][i]
             \/ i = Len(down[u]) + 1 /\ down'[u][i] = m
  BY <1>5, SMTT(30)
<1>7. \A w \in Workers : Held(w)' <=> Held(w) BY <1>2 DEF Held
<1>8. EntriesHaveWorkers' BY <1>2 DEF LeaseInv, EntriesHaveWorkers
<1>9. AnswersAreAwaited'
  <2>1. ASSUME NEW w \in Workers, NEW i \in 1..Len(down[w]), LeaseAnswer(down[w][i])
        PROVE  vat'[down[w][i].who] = w /\ visit'[down[w][i].who] = "answered"
    BY <1>2, <1>3, <2>1 DEF LeaseInv, AnswersAreAwaited
  <2>2. vat'[m.who] = u /\ visit'[m.who] = "answered" BY <1>2
  <2> QED BY <1>4, <1>6, <2>1, <2>2 DEF AnswersAreAwaited, LeaseAnswer
<1>10. OneAnswerEach'
  <2> SUFFICES ASSUME NEW w \in Workers, NEW i \in 1..Len(down'[w]), NEW j \in 1..Len(down'[w]),
                      LeaseAnswer(down'[w][i]), LeaseAnswer(down'[w][j]),
                      down'[w][i].who = down'[w][j].who
               PROVE  i = j
    BY DEF OneAnswerEach, LeaseAnswer
  <2>1. CASE w # u BY <2>1, <1>4 DEF LeaseInv, OneAnswerEach
  <2>2. CASE w = u
    <3>1. CASE i \in 1..Len(down[u]) /\ j \in 1..Len(down[u])
      BY <2>2, <3>1, <1>5, ZenonT(60) DEF LeaseInv, OneAnswerEach
    <3>2. ASSUME NEW k \in 1..Len(down[u]), LeaseAnswer(down[u][k]) PROVE down[u][k].who # m.who
      BY <1>1, <1>3, <3>2
    <3> QED BY <2>2, <3>1, <3>2, <1>6, SMTT(30)
  <2> QED BY <2>1, <2>2
<1>11. LeaseGrant(m) => ~Granting(u) BY <1>1 DEF LeaseInv, LeaseIsInOnePlace
<1>12. GrantedOnce'
  <2> SUFFICES ASSUME NEW w \in Workers, NEW i \in 1..Len(down'[w]), NEW j \in 1..Len(down'[w]),
                      LeaseGrant(down'[w][i]), LeaseGrant(down'[w][j])
               PROVE  i = j
    BY DEF GrantedOnce, LeaseGrant
  <2>1. CASE w # u BY <2>1, <1>4 DEF LeaseInv, GrantedOnce
  <2>2. CASE w = u BY <2>2, <1>6, <1>11, SMTT(30) DEF LeaseInv, GrantedOnce, Granting
  <2> QED BY <2>1, <2>2
<1>13. \A w \in Workers : Granting(w)' <=> Granting(w) \/ (w = u /\ LeaseGrant(m))
  <2>1. ASSUME NEW w \in Workers, w # u PROVE Granting(w)' <=> Granting(w)
    BY <1>4, <2>1 DEF Granting
  <2>2. Granting(u)' => Granting(u) \/ LeaseGrant(m) BY <1>6 DEF Granting, LeaseGrant
  <2>3. Granting(u) => Granting(u)' BY <1>5, SMTT(30) DEF Granting, LeaseGrant
  <2>4. LeaseGrant(m) => Granting(u)'
    <3>1. Len(down[u]) + 1 \in 1..Len(down'[u]) BY <1>5
    <3> QED BY <1>5, <3>1 DEF Granting, LeaseGrant
  <2> QED BY <2>1, <2>2, <2>3, <2>4
<1>14. ReturnedOnce' /\ \A w \in Workers : Returning(w)' <=> Returning(w)
  BY DEF LeaseInv, ReturnedOnce, Returning
<1>15. LeaseIsInOnePlace'
  <2>1. CASE ~LeaseGrant(m) BY <2>1, <1>7, <1>13, <1>14 DEF LeaseInv, LeaseIsInOnePlace
  <2>2. CASE LeaseGrant(m)
    BY <2>2, <1>1, <1>7, <1>11, <1>13, <1>14 DEF LeaseInv, LeaseIsInOnePlace
  <2> QED BY <2>1, <2>2
<1> QED BY <1>8, <1>9, <1>10, <1>12, <1>14, <1>15 DEF LeaseInv

\* The worker takes that answer: with the account, the entry goes in.
LEMMA TakeAnswerStep ==
  ASSUME NEW w \in Workers, NEW x \in {"in", "out"}, TypeOK, LeaseInv,
         down[w] # <<>>, LeaseAnswer(Head(down[w])), TakeDown(w),
         visit' = [visit EXCEPT ![Head(down[w]).who] = x],
         UNCHANGED <<up, vat, releasing, lease>>,
         \/ x = "in" /\ (Held(w) \/ LeaseGrant(Head(down[w])))
         \/ x = "out" /\ ~LeaseGrant(Head(down[w]))
  PROVE  LeaseInv'
<1> DEFINE e == Head(down[w]).who
<1>2. down \in [Workers -> Seq(DownMsg)] /\ visit \in [Visits -> {"new", "acquiring", "asked",
         "waiting", "woken", "answered", "in", "out"}]
  BY DEF TypeOK, ChannelsTypeOK, VisitsTypeOK
<1>3. down' = [down EXCEPT ![w] = Tail(@)] BY DEF TakeDown
<1>4. ASSUME NEW v \in Workers, v # w PROVE down'[v] = down[v] BY <1>2, <1>3, <1>4, Taken
<1>5. ASSUME NEW i \in 1..Len(down'[w])
      PROVE  /\ i \in Nat /\ i + 1 \in 1..Len(down[w]) /\ i + 1 # 1
             /\ down'[w][i] = down[w][i + 1]
  BY <1>2, <1>3, Taken
<1>6. ASSUME NEW i \in 1..Len(down[w]), i # 1
      PROVE  i - 1 \in 1..Len(down'[w]) /\ down'[w][i - 1] = down[w][i]
  BY <1>2, <1>3, <1>6, Taken
<1>7. 1 \in 1..Len(down[w]) /\ Head(down[w]) = down[w][1] BY <1>2, <1>3, Taken
<1>8. e \in Visits /\ visit[e] = "answered" /\ vat[e] = w
  <2>1. e \in Visits BY DownHead DEF LeaseAnswer
  <2> QED BY <2>1, <1>7 DEF LeaseInv, AnswersAreAwaited
<1>9. ASSUME NEW v \in Workers, NEW i \in 1..Len(down'[v]), LeaseAnswer(down'[v][i])
      PROVE  /\ down'[v][i].who # e /\ vat'[down'[v][i].who] = v
             /\ visit'[down'[v][i].who] = "answered"
  <2>1. CASE v = w
    <3>1. down[w][i + 1].who # e BY <2>1, <1>5, <1>7, <1>9 DEF LeaseInv, OneAnswerEach
    <3>2. vat[down[w][i + 1].who] = w /\ visit[down[w][i + 1].who] = "answered"
      BY <2>1, <1>5, <1>9 DEF LeaseInv, AnswersAreAwaited
    <3> QED BY <2>1, <3>1, <3>2, <1>2, <1>5, <1>8
  <2>2. CASE v # w
    <3>1. vat[down[v][i].who] = v /\ visit[down[v][i].who] = "answered"
      BY <2>2, <1>4, <1>9 DEF LeaseInv, AnswersAreAwaited
    <3> QED BY <2>2, <3>1, <1>2, <1>4, <1>8
  <2> QED BY <2>1, <2>2
<1>10. AnswersAreAwaited' BY <1>9 DEF AnswersAreAwaited, LeaseAnswer
<1>11. OneAnswerEach'
  <2> SUFFICES ASSUME NEW v \in Workers, NEW i \in 1..Len(down'[v]), NEW j \in 1..Len(down'[v]),
                      LeaseAnswer(down'[v][i]), LeaseAnswer(down'[v][j]),
                      down'[v][i].who = down'[v][j].who
               PROVE  i = j
    BY DEF OneAnswerEach, LeaseAnswer
  <2>1. CASE v = w
    <3>1. i + 1 = j + 1 BY <2>1, <1>5, ZenonT(60) DEF LeaseInv, OneAnswerEach
    <3> QED BY <3>1
  <2>2. CASE v # w BY <2>2, <1>4 DEF LeaseInv, OneAnswerEach
  <2> QED BY <2>1, <2>2
<1>12. GrantedOnce'
  <2> SUFFICES ASSUME NEW v \in Workers, NEW i \in 1..Len(down'[v]), NEW j \in 1..Len(down'[v]),
                      LeaseGrant(down'[v][i]), LeaseGrant(down'[v][j])
               PROVE  i = j
    BY DEF GrantedOnce, LeaseGrant
  <2>1. CASE v = w
    <3>1. i + 1 = j + 1 BY <2>1, <1>5 DEF LeaseInv, GrantedOnce
    <3> QED BY <3>1
  <2>2. CASE v # w BY <2>2, <1>4 DEF LeaseInv, GrantedOnce
  <2> QED BY <2>1, <2>2
<1>13. \A v \in Workers : v # w => (Granting(v)' <=> Granting(v)) /\ (Held(v)' <=> Held(v))
  <2>1. ASSUME NEW v \in Workers, v # w PROVE Granting(v)' <=> Granting(v)
    BY <2>1, <1>4 DEF Granting
  <2>2. ASSUME NEW v \in Workers, v # w PROVE Held(v)' <=> Held(v) BY <2>2, <1>2, <1>8 DEF Held
  <2> QED BY <2>1, <2>2
<1>14. ReturnedOnce' /\ \A v \in Workers : Returning(v)' <=> Returning(v)
  BY DEF LeaseInv, ReturnedOnce, Returning
<1>15. CASE LeaseGrant(Head(down[w]))
  <2>1. Granting(w) /\ x = "in" BY <1>7, <1>15 DEF Granting
  <2>2. ~Granting(w)'
    <3>1. ASSUME NEW i \in 1..Len(down'[w]), LeaseGrant(down'[w][i]) PROVE FALSE
      BY <3>1, <1>5, <1>7, <1>15 DEF LeaseInv, GrantedOnce
    <3> QED BY <3>1 DEF Granting, LeaseGrant
  <2>3. Held(w)' BY <2>1, <1>2, <1>8 DEF Held
  <2>4. LeaseIsInOnePlace' BY <2>1, <2>2, <2>3, <1>13, <1>14 DEF LeaseInv, LeaseIsInOnePlace
  <2> QED BY <2>4, <1>2, <1>8, <1>10, <1>11, <1>12, <1>14 DEF LeaseInv, EntriesHaveWorkers
<1>16. CASE ~LeaseGrant(Head(down[w]))
  <2>1. Granting(w)' <=> Granting(w)
    <3>1. Granting(w)' => Granting(w) BY <1>5 DEF Granting, LeaseGrant
    <3>2. Granting(w) => Granting(w)' BY <1>6, <1>7, <1>16 DEF Granting, LeaseGrant
    <3> QED BY <3>1, <3>2
  <2>2. Held(w)' <=> Held(w)
    <3>1. CASE x = "in" BY <3>1, <1>2, <1>8, <1>16 DEF Held
    <3>2. CASE x = "out" BY <3>2, <1>2, <1>8 DEF Held
    <3> QED BY <3>1, <3>2
  <2>3. LeaseIsInOnePlace' BY <2>1, <2>2, <1>13, <1>14 DEF LeaseInv, LeaseIsInOnePlace
  <2> QED BY <2>3, <1>2, <1>8, <1>10, <1>11, <1>12, <1>14 DEF LeaseInv, EntriesHaveWorkers
<1> QED BY <1>15, <1>16

\* The actions that move the account: an answer sent or taken, an entry made or ended, a lease
\* handed back, a worker lost with all it had.
LEMMA LeaseActions ==
  ASSUME TypeOK, LeaseInv
  PROVE  /\ \A e \in Visits : LeaseTurn(e) \/ LeaseAgain(e) \/ LeaseTimeout(e) => LeaseInv'
         /\ \A e \in Visits : AcquireLease(e) \/ ReleaseLease(e) => LeaseInv'
         /\ \A e \in Visits : \A w \in Workers : Enter(e, w) => LeaseInv'
         /\ \A w \in Workers : LeaseGranted(w) \/ LeaseRefused(w) => LeaseInv'
         /\ \A w \in Workers : LeaseReleased(w) \/ HandBack(w) \/ WorkerDies(w) => LeaseInv'
<1>0. /\ visit \in [Visits -> {"new", "acquiring", "asked", "waiting", "woken", "answered", "in",
                               "out"}]
      /\ vat \in [Visits -> Workers \cup {NoWorker}]
      /\ up \in [Workers -> Seq(UpMsg)] /\ down \in [Workers -> Seq(DownMsg)]
      /\ releasing \in [Workers -> BOOLEAN]
  BY DEF TypeOK, ChannelsTypeOK, VisitsTypeOK, WorkersTypeOK
<1>1. ASSUME NEW e \in Visits, LeaseTurn(e) PROVE LeaseInv'
  <2>1. CASE visit[e] = "out"
    <3>1. DownQuiet /\ UpQuiet /\ UNCHANGED <<lease, releasing, visit, vat>>
      BY <1>1, <2>1 DEF LeaseTurn, DownQuiet, UpQuiet, workerVars
    <3> QED BY <3>1, StillStep
  <2>2. CASE visit[e] = "asked" /\ lease = vat[e]
    <3>0. PICK m : m = Msg("leased", e, NoVal) OBVIOUS
    <3>1. ~LeaseGrant(m) /\ LeaseAnswer(m) /\ m.who = e BY <3>0 DEF Msg, LeaseGrant, LeaseAnswer
    <3>2. /\ visit' = [visit EXCEPT ![e] = "answered"] /\ down' = Post(down, vat[e], m)
          /\ up' = up /\ vat' = vat /\ releasing' = releasing /\ lease' = lease
      BY <1>1, <2>2, <3>0, NamesAssumption DEF LeaseTurn, workerVars, LeaseInv, EntriesHaveWorkers
    <3> QED BY <2>2, <3>1, <3>2, AnswerStep
  <2>3. CASE /\ visit[e] = "asked" /\ visit' = [visit EXCEPT ![e] = "waiting"]
             /\ UNCHANGED <<lease, down>>
    <3>1. /\ DownQuiet /\ UpQuiet /\ UNCHANGED <<lease, releasing, vat>>
          /\ visit' = [visit EXCEPT ![e] = "waiting"]
      BY <1>1, <2>3 DEF LeaseTurn, DownQuiet, UpQuiet, workerVars
    <3>2. AnsweredStay /\ EntriesHaveWorkers' /\ \A w \in Workers : Held(w)' <=> Held(w)
      BY <1>0, <2>3, <3>1 DEF AnsweredStay, EntriesHaveWorkers, LeaseInv, Held
    <3> QED BY <3>1, <3>2, QuietStep
  <2>5. CASE /\ visit[e] = "asked" /\ visit' = [visit EXCEPT ![e] = "answered"] /\ lease' = lease
             /\ down' = Post(down, vat[e], Msg("leaseFailed", e, NoVal))
    <3>0. PICK m : m = Msg("leaseFailed", e, NoVal) OBVIOUS
    <3>1. ~LeaseGrant(m) /\ LeaseAnswer(m) /\ m.who = e BY <3>0 DEF Msg, LeaseGrant, LeaseAnswer
    <3>2. /\ visit' = [visit EXCEPT ![e] = "answered"] /\ down' = Post(down, vat[e], m)
          /\ up' = up /\ vat' = vat /\ releasing' = releasing /\ lease' = lease
      BY <1>1, <2>5, <3>0 DEF LeaseTurn, workerVars
    <3> QED BY <2>5, <3>1, <3>2, AnswerStep
  <2>4. CASE visit[e] = "asked" /\ lease = NoWorker
    <3>0. vat[e] # NoWorker BY <2>4, NamesAssumption DEF LeaseInv, EntriesHaveWorkers
    <3>1. storage # NoVal BY NamesAssumption DEF TypeOK, MainTypeOK, Values, Updates, NoVal
    <3>2. PICK m : m = Msg("leased", e, storage) OBVIOUS
    <3>3. LeaseGrant(m) /\ LeaseAnswer(m) /\ m.who = e
      BY <3>1, <3>2 DEF Msg, LeaseGrant, LeaseAnswer
    <3>4. /\ visit' = [visit EXCEPT ![e] = "answered"] /\ lease' = vat[e]
          /\ down' = Post(down, vat[e], m)
          /\ up' = up /\ vat' = vat /\ releasing' = releasing
      BY <1>1, <2>4, <3>0, <3>2 DEF LeaseTurn, workerVars
    <3> QED BY <2>4, <3>3, <3>4, AnswerStep
  <2> QED BY <1>1, <2>1, <2>2, <2>3, <2>4, <2>5 DEF LeaseTurn
<1>2. ASSUME NEW e \in Visits, LeaseAgain(e) PROVE LeaseInv'
  <2>1. /\ DownQuiet /\ UpQuiet /\ UNCHANGED <<lease, releasing, vat>>
        /\ visit[e] = "woken" /\ visit' = [visit EXCEPT ![e] = "asked"]
    BY <1>2 DEF LeaseAgain, DownQuiet, UpQuiet, workerVars
  <2>2. AnsweredStay /\ EntriesHaveWorkers' /\ \A w \in Workers : Held(w)' <=> Held(w)
    BY <1>0, <2>1 DEF AnsweredStay, EntriesHaveWorkers, LeaseInv, Held
  <2> QED BY <2>1, <2>2, QuietStep
<1>3. ASSUME NEW e \in Visits, LeaseTimeout(e) PROVE LeaseInv'
  <2>1. /\ DownQuiet /\ UpQuiet /\ UNCHANGED <<lease, releasing, vat>>
        /\ visit[e] = "waiting" /\ visit' = [visit EXCEPT ![e] = "woken"]
    BY <1>3 DEF LeaseTimeout, DownQuiet, UpQuiet, mainVars, workerVars
  <2>2. AnsweredStay /\ EntriesHaveWorkers' /\ \A w \in Workers : Held(w)' <=> Held(w)
    BY <1>0, <2>1 DEF AnsweredStay, EntriesHaveWorkers, LeaseInv, Held
  <2> QED BY <2>1, <2>2, QuietStep
<1>4. ASSUME NEW e \in Visits, AcquireLease(e) PROVE LeaseInv'
  <2>1. DownQuiet /\ UpQuiet /\ UNCHANGED <<lease, releasing, vat>>
    BY <1>4 DEF AcquireLease, DownQuiet, UpQuiet, mainVars, Msg
  <2>2. AnsweredStay /\ EntriesHaveWorkers'
    BY <1>0, <1>4 DEF AcquireLease, AnsweredStay, EntriesHaveWorkers, LeaseInv
  <2>3. \A w \in Workers : Held(w)' <=> Held(w)
    <3>1. CASE Held(vat[e]) /\ visit' = [visit EXCEPT ![e] = "in"] /\ UNCHANGED vat
      BY <1>0, <1>4, <3>1 DEF AcquireLease, Held
    <3>2. CASE visit' = [visit EXCEPT ![e] = "asked"] /\ UNCHANGED vat
      BY <1>0, <1>4, <3>2 DEF AcquireLease, Held
    <3> QED BY <1>4, <3>1, <3>2 DEF AcquireLease
  <2> QED BY <2>1, <2>2, <2>3, QuietStep
<1>5. ASSUME NEW e \in Visits, ReleaseLease(e) PROVE LeaseInv'
  <2> DEFINE u == vat[e]
             last == \A f \in Visits \ {e} : ~(visit[f] = "in" /\ vat[f] = u)
  <2>1. /\ visit[e] = "in" /\ visit' = [visit EXCEPT ![e] = "out"]
        /\ releasing' = [releasing EXCEPT ![u] = @ \/ last]
        /\ UNCHANGED <<lease, vat, up, down>>
    BY <1>5 DEF ReleaseLease, mainVars
  <2>2. u \in Workers /\ Held(u) /\ ~releasing[u]
    BY <2>1, <1>0 DEF LeaseInv, EntriesHaveWorkers, Held, LeaseIsInOnePlace
  <2>3. releasing'[u] <=> last BY <1>0, <2>1, <2>2
  <2>4. Held(u)' <=> ~last BY <1>0, <2>1 DEF Held
  <2>5. \A w \in Workers : w # u => (Held(w)' <=> Held(w)) /\ releasing'[w] = releasing[w]
    BY <1>0, <2>1 DEF Held
  <2>6. /\ AnswersInv' /\ ReturnedOnce' /\ EntriesHaveWorkers'
        /\ \A w \in Workers : (Granting(w)' <=> Granting(w)) /\ (Returning(w)' <=> Returning(w))
    <3>1. DownQuiet /\ UpQuiet /\ AnsweredStay /\ EntriesHaveWorkers'
      BY <1>0, <2>1 DEF DownQuiet, UpQuiet, AnsweredStay, LeaseInv, EntriesHaveWorkers
    <3> QED BY <3>1, DownQuietStep, UpQuietStep DEF LeaseInv, AnswersInv
  <2>7. LeaseIsInOnePlace' BY <2>1, <2>2, <2>3, <2>4, <2>5, <2>6 DEF LeaseInv, LeaseIsInOnePlace
  <2> QED BY <2>6, <2>7 DEF LeaseInv, AnswersInv
<1>6. ASSUME NEW e \in Visits, NEW w \in Workers, Enter(e, w) PROVE LeaseInv'
  <2>1. /\ DownQuiet /\ UpQuiet /\ UNCHANGED <<lease, releasing>>
        /\ visit[e] = "new" /\ visit' = [visit EXCEPT ![e] = "acquiring"]
        /\ vat' = [vat EXCEPT ![e] = w]
    BY <1>6 DEF Enter, DownQuiet, UpQuiet, mainVars, workerVars
  <2>2. AnsweredStay /\ EntriesHaveWorkers' /\ \A v \in Workers : Held(v)' <=> Held(v)
    BY <1>0, <2>1 DEF AnsweredStay, EntriesHaveWorkers, LeaseInv, Held
  <2> QED BY <2>1, <2>2, QuietStep
<1>7. ASSUME NEW w \in Workers, LeaseGranted(w) PROVE LeaseInv'
  <2> DEFINE m == Head(down[w])
  <2>1. /\ down[w] # <<>> /\ LeaseAnswer(m) /\ TakeDown(w)
        /\ UNCHANGED <<up, vat, releasing, lease>>
        /\ m.val # NoVal => LeaseGrant(m)
        /\ m.val = NoVal => ~LeaseGrant(m)
    BY <1>7 DEF LeaseGranted, DownIs, LeaseAnswer, LeaseGrant, mainVars
  <2>2. \/ visit' = [visit EXCEPT ![m.who] = "in"] /\ (Held(w) \/ m.val # NoVal)
        \/ visit' = [visit EXCEPT ![m.who] = "out"] /\ m.val = NoVal
    BY <1>7 DEF LeaseGranted
  <2>3. CASE visit' = [visit EXCEPT ![m.who] = "in"] /\ (Held(w) \/ m.val # NoVal)
    BY <2>1, <2>3, TakeAnswerStep
  <2>4. CASE visit' = [visit EXCEPT ![m.who] = "out"] /\ m.val = NoVal
    BY <2>1, <2>4, TakeAnswerStep
  <2> QED BY <2>2, <2>3, <2>4
<1>8. ASSUME NEW w \in Workers, LeaseRefused(w) PROVE LeaseInv'
  <2>1. /\ down[w] # <<>> /\ LeaseAnswer(Head(down[w])) /\ TakeDown(w)
        /\ UNCHANGED <<up, vat, releasing, lease>> /\ ~LeaseGrant(Head(down[w]))
        /\ visit' = [visit EXCEPT ![Head(down[w]).who] = "out"]
    BY <1>8 DEF LeaseRefused, DownIs, LeaseAnswer, LeaseGrant, mainVars
  <2> QED BY <2>1, TakeAnswerStep
<1>9. ASSUME NEW w \in Workers, LeaseReleased(w) PROVE LeaseInv'
  <2>1. /\ up[w] # <<>> /\ Head(up[w]).op = "release" /\ up' = [up EXCEPT ![w] = Tail(@)]
        /\ UNCHANGED <<down, vat, releasing>>
    BY <1>9 DEF LeaseReleased, UpIs, TakeUp, workerVars
  <2>2. 1 \in 1..Len(up[w]) /\ up[w][1].op = "release" BY <1>0, <2>1, Taken
  <2>3. Returning(w) /\ lease = w /\ ~Granting(w) /\ ~Held(w) /\ ~releasing[w]
    BY <2>2 DEF LeaseInv, LeaseIsInOnePlace, Returning
  <2>4. /\ lease' = NoWorker
        /\ visit' = [e \in Visits |-> IF visit[e] = "waiting" THEN "woken" ELSE visit[e]]
    BY <1>9, <2>3 DEF LeaseReleased, WakeWaiters
  <2>5. ASSUME NEW i \in 1..Len(up'[w]) PROVE up'[w][i].op # "release"
    <3>1. i + 1 \in 1..Len(up[w]) /\ i + 1 # 1 /\ up'[w][i] = up[w][i + 1] BY <1>0, <2>1, Taken
    <3> QED BY <2>2, <3>1 DEF LeaseInv, ReturnedOnce
  <2>6. \A v \in Workers : v # w => up'[v] = up[v] BY <1>0, <2>1
  <2>7. /\ ReturnedOnce' /\ ~Returning(w)'
        /\ \A v \in Workers : v # w => (Returning(v)' <=> Returning(v))
    BY <2>5, <2>6 DEF LeaseInv, ReturnedOnce, Returning
  <2>8. EntriesHaveWorkers' /\ AnsweredStay /\ \A v \in Workers : Held(v)' <=> Held(v)
    BY <1>0, <2>1, <2>4 DEF EntriesHaveWorkers, LeaseInv, AnsweredStay, Held
  <2>9. AnswersInv' /\ \A v \in Workers : Granting(v)' <=> Granting(v)
    BY <2>1, <2>8, DownQuietStep DEF LeaseInv, AnswersInv, DownQuiet
  <2>10. LeaseIsInOnePlace'
    BY <2>1, <2>3, <2>4, <2>7, <2>8, <2>9, NamesAssumption DEF LeaseInv, LeaseIsInOnePlace
  <2> QED BY <2>7, <2>8, <2>9, <2>10 DEF LeaseInv, AnswersInv
<1>10. ASSUME NEW w \in Workers, HandBack(w) PROVE LeaseInv'
  <2>1. /\ releasing[w] /\ releasing' = [releasing EXCEPT ![w] = FALSE] /\ ~Held(w)
        /\ up' = Post(up, w, Msg("release", Main, NoVal)) /\ UNCHANGED <<down, visit, vat, lease>>
    BY <1>10 DEF HandBack, LeaseInv, LeaseIsInOnePlace, mainVars, visitVars
  <2>2. lease = w /\ ~Granting(w) /\ ~Returning(w) BY <2>1 DEF LeaseInv, LeaseIsInOnePlace
  <2>3. /\ Len(up[w]) \in Nat /\ Len(up'[w]) = Len(up[w]) + 1
        /\ up'[w][Len(up[w]) + 1] = Msg("release", Main, NoVal)
        /\ \A i \in 1..Len(up[w]) : up'[w][i] = up[w][i]
        /\ \A v \in Workers : v # w => up'[v] = up[v]
    BY <1>0, <2>1, Posted, SMTT(30)
  <2>4. Returning(w)'
    <3>1. Len(up[w]) + 1 \in 1..Len(up'[w]) BY <2>3
    <3> QED BY <2>3, <3>1 DEF Returning, Msg
  <2>5. ASSUME NEW i \in 1..Len(up'[w]), up'[w][i].op = "release" PROVE i = Len(up[w]) + 1
    BY <2>2, <2>3, <2>5 DEF Returning
  <2>6. ReturnedOnce' BY <2>3, <2>5 DEF LeaseInv, ReturnedOnce
  <2>7. \A v \in Workers : v # w => (Returning(v)' <=> Returning(v)) BY <2>3 DEF Returning
  <2>8. EntriesHaveWorkers' /\ AnsweredStay /\ \A v \in Workers : Held(v)' <=> Held(v)
    BY <2>1 DEF EntriesHaveWorkers, LeaseInv, AnsweredStay, Held
  <2>9. AnswersInv' /\ \A v \in Workers : Granting(v)' <=> Granting(v)
    BY <2>1, <2>8, DownQuietStep DEF LeaseInv, AnswersInv, DownQuiet
  <2>10. \A v \in Workers : releasing'[v] <=> releasing[v] /\ v # w BY <1>0, <2>1
  <2>11. LeaseIsInOnePlace'
    BY <2>1, <2>2, <2>4, <2>7, <2>8, <2>9, <2>10 DEF LeaseInv, LeaseIsInOnePlace
  <2> QED BY <2>6, <2>8, <2>9, <2>11 DEF LeaseInv, AnswersInv
<1>11. ASSUME NEW w \in Workers, WorkerDies(w) PROVE LeaseInv'
  <2>1. /\ up' = [up EXCEPT ![w] = <<>>] /\ down' = [down EXCEPT ![w] = <<>>]
        /\ releasing' = [releasing EXCEPT ![w] = FALSE]
        /\ lease' = IF lease = w THEN NoWorker ELSE lease
        /\ visit' = [e \in Visits |->
                       IF vat[e] = w /\ visit[e] # "new" THEN "out"
                       ELSE IF lease = w /\ visit[e] = "waiting" THEN "woken" ELSE visit[e]]
        /\ UNCHANGED vat
    BY <1>11 DEF WorkerDies
  <2>2. /\ Len(up'[w]) = 0 /\ Len(down'[w]) = 0 /\ ~releasing'[w]
        /\ \A v \in Workers : v # w => /\ up'[v] = up[v] /\ down'[v] = down[v]
                                        /\ releasing'[v] = releasing[v]
    BY <1>0, <2>1
  <2>3. ~Granting(w)' /\ ~Returning(w)' /\ ~Held(w)' BY <2>1, <2>2 DEF Granting, Returning, Held
  <2>4. \A v \in Workers : v # w => /\ Granting(v)' <=> Granting(v)
                                    /\ Returning(v)' <=> Returning(v)
                                    /\ Held(v)' <=> Held(v)
    BY <2>1, <2>2 DEF Granting, Returning, Held
  <2>5. EntriesHaveWorkers' /\ ReturnedOnce'
    BY <2>1, <2>2 DEF LeaseInv, EntriesHaveWorkers, ReturnedOnce
  <2>6. AnswersAreAwaited'
    <3>1. ASSUME NEW v \in Workers, v # w, NEW i \in 1..Len(down[v]), LeaseAnswer(down[v][i])
          PROVE  vat'[down[v][i].who] = v /\ visit'[down[v][i].who] = "answered"
      <4>0. down[v] \in Seq(DownMsg) BY <1>0
      <4>1. down[v][i].who \in Visits BY <3>1, <4>0, ElementOfSeq DEF DownMsg, LeaseAnswer
      <4> QED BY <2>1, <3>1, <4>1 DEF LeaseInv, AnswersAreAwaited
    <3> QED BY <2>2, <3>1 DEF AnswersAreAwaited, LeaseAnswer
  <2>7. OneAnswerEach' /\ GrantedOnce'
    BY <2>2 DEF LeaseInv, OneAnswerEach, GrantedOnce, LeaseAnswer, LeaseGrant
  <2>8. LeaseIsInOnePlace'
    BY <2>1, <2>2, <2>3, <2>4, NamesAssumption DEF LeaseInv, LeaseIsInOnePlace
  <2> QED BY <2>5, <2>6, <2>7, <2>8 DEF LeaseInv
<1> QED BY <1>1, <1>2, <1>3, <1>4, <1>5, <1>6, <1>7, <1>8, <1>9, <1>10, <1>11

-----------------------------------------------------------------------------

\* Every action keeps the invariant.
LEMMA LeaseStep == TypeOK /\ LeaseInv /\ [Next]_vars => LeaseInv'
<1> SUFFICES ASSUME TypeOK, LeaseInv PROVE [Next]_vars => LeaseInv' OBVIOUS
<1>1. ASSUME NEW t \in Txns, Rpc(t) PROVE LeaseInv'
  <2>1. DownQuiet /\ UpQuiet /\ UNCHANGED <<lease, releasing, visit, vat>>
    BY <1>1
       DEF Rpc, DispatchWhereOwned, workerVars, visitVars, DownQuiet, UpQuiet, LeaseAnswer, Msg
  <2> QED BY <2>1, StillStep
<1>2. ASSUME NEW w \in Workers, RpcRetry(w) PROVE LeaseInv'
  <2>1. DownQuiet /\ UpQuiet /\ UNCHANGED <<lease, releasing, visit, vat>>
    BY <1>2
       DEF RpcRetry, DispatchWhereOwned, UpIs, workerVars, visitVars, DownQuiet, UpQuiet,
           LeaseAnswer, Msg
  <2> QED BY <2>1, StillStep
<1>3. ASSUME NEW t \in Txns, MainLoad(t) PROVE LeaseInv'
  <2>1. DownQuiet /\ UpQuiet /\ UNCHANGED <<lease, releasing, visit, vat>>
    BY <1>3 DEF MainLoad, workerVars, mainVars, visitVars, DownQuiet, UpQuiet, LeaseAnswer, Msg
  <2> QED BY <2>1, StillStep
<1>4. ASSUME NEW w \in Workers, AccountAnswered(w) PROVE LeaseInv'
  <2>1. DownQuiet /\ UpQuiet /\ UNCHANGED <<lease, releasing, visit, vat>>
    BY <1>4
       DEF AccountAnswered, UpIs, workerVars, mainVars, visitVars, DownQuiet, UpQuiet,
           LeaseAnswer, Msg
  <2> QED BY <2>1, StillStep
<1>5. ASSUME NEW t \in Txns, MainSave(t) PROVE LeaseInv'
  <2>1. DownQuiet /\ UpQuiet /\ UNCHANGED <<lease, releasing, visit, vat>>
    BY <1>5 DEF MainSave, workerVars, visitVars, DownQuiet, UpQuiet, LeaseAnswer, Msg
  <2> QED BY <2>1, StillStep
<1>6. ASSUME NEW w \in Workers, LeaseAsked(w) PROVE LeaseInv'
  <2>1. DownQuiet /\ UpQuiet /\ UNCHANGED <<lease, releasing, visit, vat>>
    BY <1>6 DEF LeaseAsked, UpIs, workerVars, visitVars, DownQuiet, UpQuiet, LeaseAnswer, Msg
  <2> QED BY <2>1, StillStep
<1>7. ASSUME NEW w \in Workers, LockAsked(w) PROVE LeaseInv'
  <2>1. DownQuiet /\ UpQuiet /\ UNCHANGED <<lease, releasing, visit, vat>>
    BY <1>7
       DEF LockAsked, BorrowLock, UpIs, workerVars, visitVars, DownQuiet, UpQuiet, LeaseAnswer,
           Msg
  <2> QED BY <2>1, StillStep
<1>8. ASSUME NEW t \in Txns, BorrowAgain(t) PROVE LeaseInv'
  <2>1. DownQuiet /\ UpQuiet /\ UNCHANGED <<lease, releasing, visit, vat>>
    BY <1>8
       DEF BorrowAgain, BorrowLock, workerVars, visitVars, DownQuiet, UpQuiet, LeaseAnswer, Msg
  <2> QED BY <2>1, StillStep
<1>9. ASSUME NEW t \in Txns, TownTurn(t) PROVE LeaseInv'
  <2>1. DownQuiet /\ UpQuiet /\ UNCHANGED <<lease, releasing, visit, vat>>
    BY <1>9 DEF TownTurn, workerVars, visitVars, DownQuiet, UpQuiet, LeaseAnswer, Msg
  <2> QED BY <2>1, StillStep
<1>10. ASSUME NEW w \in Workers, HoldAnswered(w) PROVE LeaseInv'
  <2>1. DownQuiet /\ UpQuiet /\ UNCHANGED <<lease, releasing, visit, vat>>
    BY <1>10 DEF HoldAnswered, UpIs, workerVars, visitVars, DownQuiet, UpQuiet, LeaseAnswer, Msg
  <2> QED BY <2>1, StillStep
<1>11. ASSUME NEW w \in Workers, PatchHeld(w) PROVE LeaseInv'
  <2>1. DownQuiet /\ UpQuiet /\ UNCHANGED <<lease, releasing, visit, vat>>
    BY <1>11
       DEF PatchHeld, UpIs, workerVars, mainVars, visitVars, DownQuiet, UpQuiet, LeaseAnswer,
           Msg
  <2> QED BY <2>1, StillStep
<1>12. ASSUME NEW w \in Workers, PatchAnswered(w) PROVE LeaseInv'
  <2>1. DownQuiet /\ UpQuiet /\ UNCHANGED <<lease, releasing, visit, vat>>
    BY <1>12
       DEF PatchAnswered, UpIs, workerVars, mainVars, visitVars, DownQuiet, UpQuiet,
           LeaseAnswer, Msg
  <2> QED BY <2>1, StillStep
<1>13. ASSUME NEW w \in Workers, AccountAsked(w) PROVE LeaseInv'
  <2>1. DownQuiet /\ UpQuiet /\ UNCHANGED <<lease, releasing, visit, vat>>
    BY <1>13
       DEF AccountAsked, UpIs, workerVars, mainVars, visitVars, DownQuiet, UpQuiet, LeaseAnswer,
           Msg
  <2> QED BY <2>1, StillStep
<1>14. ASSUME NEW w \in Workers, LockReturned(w) PROVE LeaseInv'
  <2>1. DownQuiet /\ UpQuiet /\ UNCHANGED <<lease, releasing, visit, vat>>
    BY <1>14 DEF LockReturned, UpIs, workerVars, visitVars, DownQuiet, UpQuiet, LeaseAnswer, Msg
  <2> QED BY <2>1, StillStep
<1>15. ASSUME NEW t \in Txns, CallFails(t) PROVE LeaseInv'
  <2>1. DownQuiet /\ UpQuiet /\ UNCHANGED <<lease, releasing, visit, vat>>
    BY <1>15 DEF CallFails, workerVars, mainVars, visitVars, DownQuiet, UpQuiet, LeaseAnswer, Msg
  <2> QED BY <2>1, StillStep
<1>16. ASSUME NEW t \in Txns, LostLockReturned(t) PROVE LeaseInv'
  <2>1. DownQuiet /\ UpQuiet /\ UNCHANGED <<lease, releasing, visit, vat>>
    BY <1>16 DEF LostLockReturned, workerVars, visitVars, DownQuiet, UpQuiet, LeaseAnswer, Msg
  <2> QED BY <2>1, StillStep
<1>17. ASSUME NEW w \in Workers, WorkerReplaced(w) PROVE LeaseInv'
  <2>1. DownQuiet /\ UpQuiet /\ UNCHANGED <<lease, releasing, visit, vat>>
    BY <1>17 DEF WorkerReplaced, mainVars, visitVars, DownQuiet, UpQuiet, LeaseAnswer, Msg
  <2> QED BY <2>1, StillStep
<1>18. ASSUME NEW t \in Txns, NEW w \in Workers, SecondAccount(t, w) PROVE LeaseInv'
  <2>1. DownQuiet /\ UpQuiet /\ UNCHANGED <<lease, releasing, visit, vat>>
    BY <1>18
       DEF SecondAccount, workerVars, mainVars, visitVars, DownQuiet, UpQuiet, LeaseAnswer, Msg
  <2> QED BY <2>1, StillStep
<1>19. ASSUME NEW w \in Workers, RpcForwarded(w) PROVE LeaseInv'
  <2>1. DownQuiet /\ UpQuiet /\ UNCHANGED <<lease, releasing, visit, vat>>
    BY <1>19
       DEF RpcForwarded, DownIs, workerVars, mainVars, visitVars, DownQuiet, UpQuiet,
           LeaseAnswer, Msg
  <2> QED BY <2>1, StillStep
<1>20. ASSUME NEW t \in Txns, WorkerLock(t) PROVE LeaseInv'
  <2>1. DownQuiet /\ UpQuiet /\ UNCHANGED <<lease, releasing, visit, vat>>
    BY <1>20 DEF WorkerLock, mainVars, visitVars, DownQuiet, UpQuiet, LeaseAnswer, Msg
  <2> QED BY <2>1, StillStep
<1>21. ASSUME NEW w \in Workers, LockGranted(w) PROVE LeaseInv'
  <2>1. DownQuiet /\ UpQuiet /\ UNCHANGED <<lease, releasing, visit, vat>>
    BY <1>21 DEF LockGranted, DownIs, mainVars, visitVars, DownQuiet, UpQuiet, LeaseAnswer, Msg
  <2> QED BY <2>1, StillStep
<1>22. ASSUME NEW w \in Workers, LockRefused(w) PROVE LeaseInv'
  <2>1. DownQuiet /\ UpQuiet /\ UNCHANGED <<lease, releasing, visit, vat>>
    BY <1>22
       DEF LockRefused, DownIs, workerVars, mainVars, visitVars, DownQuiet, UpQuiet,
           LeaseAnswer, Msg
  <2> QED BY <2>1, StillStep
<1>23. ASSUME NEW t \in Txns, WorkerLoad(t) PROVE LeaseInv'
  <2>1. DownQuiet /\ UpQuiet /\ UNCHANGED <<lease, releasing, visit, vat>>
    BY <1>23 DEF WorkerLoad, workerVars, mainVars, visitVars, DownQuiet, UpQuiet, LeaseAnswer, Msg
  <2> QED BY <2>1, StillStep
<1>24. ASSUME NEW w \in Workers, WorkerRead(w) PROVE LeaseInv'
  <2>1. DownQuiet /\ UpQuiet /\ UNCHANGED <<lease, releasing, visit, vat>>
    BY <1>24
       DEF WorkerRead, DownIs, workerVars, mainVars, visitVars, DownQuiet, UpQuiet, LeaseAnswer,
           Msg
  <2> QED BY <2>1, StillStep
<1>25. ASSUME NEW t \in Txns, WorkerSave(t) PROVE LeaseInv'
  <2>1. DownQuiet /\ UpQuiet /\ UNCHANGED <<lease, releasing, visit, vat>>
    BY <1>25 DEF WorkerSave, mainVars, visitVars, DownQuiet, UpQuiet, LeaseAnswer, Msg
  <2> QED BY <2>1, StillStep
<1>26. ASSUME NEW t \in Txns, TransactionEnds(t) PROVE LeaseInv'
  <2>1. DownQuiet /\ UpQuiet /\ UNCHANGED <<lease, releasing, visit, vat>>
    BY <1>26 DEF TransactionEnds, mainVars, visitVars, DownQuiet, UpQuiet, LeaseAnswer, Msg
  <2> QED BY <2>1, StillStep
<1>27. ASSUME NEW w \in Workers, PatchSettled(w) PROVE LeaseInv'
  <2>1. DownQuiet /\ UpQuiet /\ UNCHANGED <<lease, releasing, visit, vat>>
    BY <1>27
       DEF PatchSettled, DownIs, workerVars, mainVars, visitVars, DownQuiet, UpQuiet,
           LeaseAnswer, Msg
  <2> QED BY <2>1, StillStep
<1>28. ASSUME NEW w \in Workers, CallFromElsewhere(w) PROVE LeaseInv'
  <2>1. DownQuiet /\ UpQuiet /\ UNCHANGED <<lease, releasing, visit, vat>>
    BY <1>28
       DEF CallFromElsewhere, DownIs, mainVars, visitVars, DownQuiet, UpQuiet, LeaseAnswer, Msg
  <2> QED BY <2>1, StillStep
<1>29. ASSUME NEW t \in Txns, NEW w \in Workers, LiveForElsewhere(t, w) PROVE LeaseInv'
  <2>1. DownQuiet /\ UpQuiet /\ UNCHANGED <<lease, releasing, visit, vat>>
    BY <1>29 DEF LiveForElsewhere, mainVars, visitVars, DownQuiet, UpQuiet, LeaseAnswer, Msg
  <2> QED BY <2>1, StillStep
<1>30. ASSUME NEW t \in Txns, NEW w \in Workers, HoldForElsewhere(t, w) PROVE LeaseInv'
  <2>1. DownQuiet /\ UpQuiet /\ UNCHANGED <<lease, releasing, visit, vat>>
    BY <1>30 DEF HoldForElsewhere, mainVars, visitVars, DownQuiet, UpQuiet, LeaseAnswer, Msg
  <2> QED BY <2>1, StillStep
<1>31. ASSUME NEW t \in Txns, NEW w \in Workers, HoldTurn(t, w) PROVE LeaseInv'
  <2>1. DownQuiet /\ UpQuiet /\ UNCHANGED <<lease, releasing, visit, vat>>
    BY <1>31 DEF HoldTurn, mainVars, visitVars, DownQuiet, UpQuiet, LeaseAnswer, Msg
  <2> QED BY <2>1, StillStep
<1>32. ASSUME NEW w \in Workers, PatchForElsewhere(w) PROVE LeaseInv'
  <2>1. DownQuiet /\ UpQuiet /\ UNCHANGED <<lease, releasing, visit, vat>>
    BY <1>32
       DEF PatchForElsewhere, DownIs, mainVars, visitVars, DownQuiet, UpQuiet, LeaseAnswer, Msg
  <2> QED BY <2>1, StillStep
<1>33. ASSUME NEW w \in Workers, ReleaseForElsewhere(w) PROVE LeaseInv'
  <2>1. DownQuiet /\ UpQuiet /\ UNCHANGED <<lease, releasing, visit, vat>>
    BY <1>33
       DEF ReleaseForElsewhere, DownIs, mainVars, visitVars, DownQuiet, UpQuiet, LeaseAnswer,
           Msg
  <2> QED BY <2>1, StillStep
<1>34. ASSUME NEW e \in Visits, Reward(e) PROVE LeaseInv'
  <2>1. DownQuiet /\ UpQuiet /\ UNCHANGED <<lease, releasing, visit, vat>>
    BY <1>34 DEF Reward, mainVars, visitVars, DownQuiet, UpQuiet, LeaseAnswer, Msg
  <2> QED BY <2>1, StillStep
<1>35. ASSUME NEW w \in Workers, WriteLands(w) PROVE LeaseInv'
  <2>1. DownQuiet /\ UpQuiet /\ UNCHANGED <<lease, releasing, visit, vat>>
    BY <1>35 DEF WriteLands, mainVars, visitVars, DownQuiet, UpQuiet, LeaseAnswer, Msg
  <2> QED BY <2>1, StillStep
<1>36. CASE UNCHANGED vars
  <2>1. DownQuiet /\ UpQuiet /\ UNCHANGED <<lease, releasing, visit, vat>>
    BY <1>36 DEF vars, mainVars, workerVars, visitVars, DownQuiet, UpQuiet
  <2> QED BY <2>1, StillStep
<1>37. ASSUME MainStep PROVE LeaseInv'
  BY <1>37, LeaseActions, <1>1, <1>2, <1>3, <1>4, <1>5, <1>6, <1>7, <1>8, <1>9, <1>10, <1>11,
     <1>12, <1>13, <1>14, <1>15, <1>16, <1>17
     DEF MainStep, MainReceives
<1>38. ASSUME WorkerStep PROVE LeaseInv'
  BY <1>38, LeaseActions, <1>1, <1>19, <1>20, <1>21, <1>22, <1>23, <1>24, <1>25, <1>26, <1>27,
     <1>28, <1>29, <1>30, <1>31, <1>32, <1>33, <1>35
     DEF WorkerStep, WorkerReceives
<1>39. ASSUME Players PROVE LeaseInv' BY <1>39, LeaseActions, <1>1, <1>18, <1>34 DEF Players
<1> QED BY LeaseActions, <1>36, <1>37, <1>38, <1>39 DEF Next

\* Nobody has the account at first.
LEMMA LeaseInit == Init => LeaseInv
<1> SUFFICES ASSUME Init PROVE LeaseInv OBVIOUS
<1>1. \A w \in Workers : Len(up[w]) = 0 /\ Len(down[w]) = 0 /\ lease # w /\ ~releasing[w]
  BY NamesAssumption DEF Init
<1>2. \A w \in Workers : ~Granting(w) /\ ~Returning(w) /\ ~Held(w)
  BY <1>1 DEF Granting, Returning, Held, Init
<1>3. LeaseIsInOnePlace BY <1>1, <1>2 DEF LeaseIsInOnePlace
<1>4. EntriesHaveWorkers BY DEF Init, EntriesHaveWorkers
<1>5. AnswersAreAwaited /\ OneAnswerEach /\ GrantedOnce /\ ReturnedOnce
  BY <1>1 DEF AnswersAreAwaited, OneAnswerEach, GrantedOnce, ReturnedOnce
<1> QED BY <1>3, <1>4, <1>5 DEF LeaseInv

\* match-worker-pool.js and match-worker-thread.js together keep the promise the table of leases
\* makes, whatever the workers, the RPCs and the entries do, and whichever workers die: an account
\* recorded as a worker's is on its way to that worker, held there, being written down there or
\* on its way back, exactly one of these, and is nowhere else (LeaseIsInOnePlace).
THEOREM LeaseInvHolds == Spec => []LeaseInv
BY TypeInit, TypeStep, LeaseInit, LeaseStep, PTL DEF Spec

\* Two workers never hold the account's live object at once.
OneLiveObject == \A v, w \in Workers : Held(v) /\ Held(w) => v = w

\* The reason for the lease: two dungeons on two workers never both play with the account
\* as theirs, so neither can save over what the other did to its live object.
THEOREM OneThreadPlays == Spec => []OneLiveObject
<1>1. LeaseInv => OneLiveObject BY DEF LeaseInv, LeaseIsInOnePlace, OneLiveObject
<1> QED BY <1>1, LeaseInvHolds, PTL

(***************************************************************************)
(* Nothing that was reported as saved is lost.  A save takes an update     *)
(* away when it writes an object read before that update was made, so the  *)
(* proof follows where each transaction is: what a message says of the     *)
(* transaction it is about, what the places it has in chains mean, which   *)
(* lock it works under, and how old the copy of the account it has can be. *)
(***************************************************************************)
\* The messages of a channel, and those about one transaction.
Items(s) == {s[i] : i \in 1..Len(s)}
About(s, t) == {m \in Items(s) : m.who = t}
OneAbout(s, t) == \A i, j \in 1..Len(s) : s[i].who = t /\ s[j].who = t => i = j
OnceIn(s, t) == \A i, j \in 1..Len(s) : s[i] = t /\ s[j] = t => i = j

\* A transaction that has ended, one the main thread has called worker w for, and one that
\* works on w and has called nobody.
Over(t) == pc[t] \in {"done", "failed"}
Calls(t, w, states) == awaiting[t] = w /\ pc[t] \in states
Works(t, w, states) == at[t] = w /\ awaiting[t] = NoWorker /\ pc[t] \in states
Reading == {"asking", "wasking"}
InWork  == {"wqueued", "wasking", "wloaded", "writing", "patching", "settled", "refused"}
InTown  == {"new", "queued", "asking", "loaded", "forwarded"}
Early   == InTown \cup {"arrivedOwn", "arrived", "locking", "awaitRelease"}

\* What a message on its way says of the transaction it is about.
PatchOf(t, m) == t \in Social /\ m.val = base[t] \cup {t}
UpFits(t, m, w) ==
  /\ m.op = "lock" => Works(t, w, {"locking"})
  /\ m.op = "account" => Works(t, w, {"wasking"})
  /\ m.op = "patch" => Works(t, w, {"patching"}) /\ PatchOf(t, m)
  /\ m.op = "retry" => Calls(t, w, {"forwarded"})
  /\ m.op = "held" => Calls(t, w, {"holding"})
  /\ m.op = "live" => Calls(t, w, Reading) \/ pc[t] = "failed"
  /\ m.op = "patched" => Calls(t, w, {"patching"}) \/ pc[t] = "failed"
  /\ m.op = "unlock" => Over(t)
DownFits(t, m, w) ==
  /\ m.op \in {"rpcOwn", "rpcOther"} => Calls(t, w, {"forwarded"})
  /\ m.op = "hold" => Calls(t, w, {"holding"})
  /\ m.op = "account" => Calls(t, w, Reading) \/ pc[t] = "failed"
  /\ m.op = "patch" => PatchOf(t, m) /\ at[t] # w /\ (Calls(t, w, {"patching"}) \/ pc[t] = "failed")
  /\ m.op = "refused" => Works(t, w, {"locking"})
  /\ m.op = "grant" => /\ t \notin orphans
                       /\ IF m.val = NoVal THEN Works(t, w, {"townQueued"}) /\ borrowed[t] = Main
                          ELSE Works(t, w, {"holding"})
  /\ m.op = "live" => Works(t, w, {"wasking"})
  /\ m.op = "patched" => Works(t, w, {"patching"})
  /\ m.op = "unhold" => Over(t)
\* Its turn for a hold is queued on w; its patch is applied there and not yet written.
HoldQueued(t, w) == pc[t] = "holding" /\ t \in Items(chain[w]) /\ t \notin holds[w]
Applied(t, w)    == at[t] # w /\ t \in Items(writes[w])
\* A transaction that goes on waits for one thing, in one place.
OneErrand(t) == \A w \in Workers :
  /\ OneAbout(up[w], t) /\ OneAbout(down[w], t)
  /\ About(up[w], t) # {} => About(down[w], t) = {}
  /\ t \in asked[w] => About(up[w], t) = {} /\ About(down[w], t) = {}
  /\ HoldQueued(t, w) \/ Applied(t, w) => About(up[w], t) = {} /\ About(down[w], t) = {} /\ t \notin asked[w]
MailFits(t) ==
  /\ \A w \in Workers : /\ \A m \in About(up[w], t) : UpFits(t, m, w)
                        /\ \A m \in About(down[w], t) : DownFits(t, m, w)
                        /\ t \in asked[w] => Calls(t, w, Reading \cup {"holding"}) \/ pc[t] = "failed"
  /\ ~Over(t) => OneErrand(t)
\* The places a transaction has in a worker's chain, among its holds and its writes.
RoomFits(t) == \A w \in Workers :
  /\ t \in Items(chain[w]) =>
       \/ at[t] = w /\ pc[t] \in InWork
       \/ Calls(t, w, {"holding"})
       \/ t \in holds[w] \/ Over(t)
  /\ t \in holds[w] =>
       \/ pc[t] \in InWork \/ Over(t)
       \/ pc[t] = "holding" /\ awaiting[t] = NoWorker /\ borrowed[t] = w
       \/ Calls(t, w, {"holding"}) /\ \E m \in About(up[w], t) : m.op = "held" /\ m.val # NoVal
  /\ t \in Items(writes[w]) => IF at[t] = w THEN pc[t] = "writing"
                               ELSE Calls(t, w, {"patching"}) \/ pc[t] = "failed"
  /\ ~Over(t) => OnceIn(chain[w], t) /\ OnceIn(writes[w], t)
\* Where it is, whom it waits for, and the lock it has.
InTownLock(t) == t \in granted /\ base[t] = NoVal
TxnFits(t) ==
  /\ awaiting[t] # NoWorker => pc[t] \in Reading \cup {"forwarded", "holding", "patching"}
  /\ pc[t] \in InTown => at[t] = Main
  /\ pc[t] \notin InTown /\ ~Over(t) => at[t] \in Workers
  /\ pc[t] \in Early => borrowed[t] = NoWorker
  /\ pc[t] \in Early \cup {"holding", "townQueued"} => t \notin granted
  /\ pc[t] = "holding" /\ awaiting[t] # NoWorker =>
       borrowed[t] = NoWorker /\ (t \notin orphans => awaiting[t] # at[t])
  /\ borrowed[t] \in Workers => borrowed[t] # at[t]
  /\ InTownLock(t) /\ pc[t] \in {"wqueued", "wasking", "wloaded", "writing"} => borrowed[t] = Main
  /\ pc[t] = "wasking" \/ (pc[t] \in {"wloaded", "writing"} /\ ref[t] = "own") => base[t] = NoVal
  /\ pc[t] = "wloaded" /\ ref[t] = "remote" => base[t] # NoVal /\ copy[t] = base[t]
  /\ t \in lost => Over(t)
  /\ t \in orphans => Over(t) \/ pc[t] \in {"awaitRelease", "townQueued", "holding"}
Fits(t) == MailFits(t) /\ RoomFits(t) /\ TxnFits(t)
\* Who has the main thread's lock is first in its chain.
HeadFits == \A t \in Txns : borrowed[t] = Main \/ pc[t] \in {"asking", "loaded"} => IsHead(t, mainChain)
ErrandInv == HeadFits /\ \A t \in Txns : Fits(t)

-----------------------------------------------------------------------------
\* What is in a channel, or a chain, after something has been added to it.
LEMMA ItemsPosted ==
  ASSUME NEW S, NEW s \in Seq(S), NEW m, NEW t
  PROVE  /\ Items(Append(s, m)) = Items(s) \cup {m}
         /\ About(Append(s, m), t) = IF m.who = t THEN About(s, t) \cup {m} ELSE About(s, t)
         /\ OneAbout(s, t) /\ (m.who = t => About(s, t) = {}) => OneAbout(Append(s, m), t)
         /\ OnceIn(s, t) /\ (m = t => t \notin Items(s)) => OnceIn(Append(s, m), t)
<1> DEFINE r == Append(s, m)  n == Len(s)
<1>1. n \in Nat /\ Len(r) = n + 1 /\ r[n + 1] = m /\ \A i \in 1..n : r[i] = s[i]
  <2>1. s \in Seq(S \cup {m}) /\ n \in Nat BY SeqMonotonic, LenProperties
  <2> QED BY <2>1, AppendProperties
<1>2. \A i : i \in 1..(n + 1) <=> i \in 1..n \/ i = n + 1 BY <1>1
<1> HIDE DEF r, n
<1>3. Items(r) = Items(s) \cup {m}
  <2>1. ASSUME NEW x \in Items(r) PROVE x \in Items(s) \cup {m} BY <1>1, <1>2 DEF Items, n
  <2>2. ASSUME NEW x \in Items(s) PROVE x \in Items(r)
    <3>1. PICK i \in 1..n : x = s[i] BY DEF Items, n
    <3> QED BY <3>1, <1>1, <1>2 DEF Items
  <2>3. m \in Items(r) BY <1>1, <1>2 DEF Items
  <2> QED BY <2>1, <2>2, <2>3
<1>4. About(r, t) = IF m.who = t THEN About(s, t) \cup {m} ELSE About(s, t) BY <1>3 DEF About
<1>5. ASSUME OneAbout(s, t), m.who = t => About(s, t) = {} PROVE OneAbout(r, t)
  <2>1. ASSUME NEW i \in 1..n, s[i].who = t PROVE m.who # t BY <1>5, <2>1 DEF About, Items, n
  <2>2. ASSUME NEW i \in 1..Len(r), NEW j \in 1..Len(r), r[i].who = t, r[j].who = t PROVE i = j
    <3>1. CASE i \in 1..n /\ j \in 1..n BY <3>1, <2>2, <1>1, <1>5 DEF OneAbout, n
    <3>2. CASE i = n + 1 /\ j = n + 1 BY <3>2
    <3>3. CASE (i = n + 1 /\ j \in 1..n) \/ (i \in 1..n /\ j = n + 1) BY <3>3, <2>1, <2>2, <1>1
    <3> QED BY <3>1, <3>2, <3>3, <1>1, <1>2
  <2> QED BY <2>2 DEF OneAbout
<1>6. ASSUME OnceIn(s, t), m = t => t \notin Items(s) PROVE OnceIn(r, t)
  <2>1. ASSUME NEW i \in 1..n, s[i] = t PROVE m # t BY <1>6, <2>1 DEF Items, n
  <2>2. ASSUME NEW i \in 1..Len(r), NEW j \in 1..Len(r), r[i] = t, r[j] = t PROVE i = j
    <3>1. CASE i \in 1..n /\ j \in 1..n BY <3>1, <2>2, <1>1, <1>6 DEF OnceIn, n
    <3>2. CASE i = n + 1 /\ j = n + 1 BY <3>2
    <3>3. CASE (i = n + 1 /\ j \in 1..n) \/ (i \in 1..n /\ j = n + 1) BY <3>3, <2>1, <2>2, <1>1
    <3> QED BY <3>1, <3>2, <3>3, <1>1, <1>2
  <2> QED BY <2>2 DEF OnceIn
<1> QED BY <1>3, <1>4, <1>5, <1>6 DEF r


\* What is in it once the first has been taken.
LEMMA ItemsTaken ==
  ASSUME NEW S, NEW s \in Seq(S), s # <<>>, NEW r, r = Tail(s) \/ r = Rest(s), NEW t
  PROVE  /\ Head(s) \in Items(s) /\ Items(s) = {Head(s)} \cup Items(r)
         /\ About(s, t) = IF Head(s).who = t THEN {Head(s)} \cup About(r, t) ELSE About(r, t)
         /\ OneAbout(s, t) => OneAbout(r, t) /\ (Head(s).who = t => About(r, t) = {})
         /\ OnceIn(s, t) => OnceIn(r, t) /\ (Head(s) = t => t \notin Items(r))
<1> DEFINE n == Len(s)
<1>1. n \in Nat /\ n >= 1 /\ Head(s) = s[1] BY LenProperties, EmptySeq
<1>2. Len(r) = n - 1 /\ \A i \in 1..(n - 1) : r[i] = s[i + 1]
  <2>1. CASE r = Tail(s) BY <2>1, HeadTailProperties
  <2>2. CASE r = Rest(s)
    <3>1. 2 \in 1..(n + 1) /\ n \in 2 - 1..n BY <1>1
    <3>2. r = SubSeq(s, 2, n) BY <2>2 DEF Rest
    <3> HIDE DEF n
    <3>3. Len(r) = IF 2 <= n THEN n - 2 + 1 ELSE 0 BY <3>2, <3>1, SubSeqProperties DEF n
    <3>4. \A i \in 1..n - 2 + 1 : r[i] = s[2 + i - 1] BY <3>2, <3>1, SubSeqProperties DEF n
    <3>5. \A i \in 1..(n - 1) : i \in 1..n - 2 + 1 /\ 2 + i - 1 = i + 1 BY <1>1
    <3>6. Len(r) = n - 1 BY <3>3, <1>1
    <3> QED BY <3>4, <3>5, <3>6
  <2> QED BY <2>1, <2>2
<1> HIDE DEF n
<1>3. \A i \in 1..(n - 1) : i + 1 \in 1..n /\ i + 1 # 1 BY <1>1
<1>4. \A i \in 1..n : i = 1 \/ (i - 1 \in 1..(n - 1) /\ r[i - 1] = s[i])
  <2>1. ASSUME NEW i \in 1..n, i # 1 PROVE i - 1 \in 1..(n - 1) /\ (i - 1) + 1 = i BY <1>1, <2>1
  <2> QED BY <2>1, <1>2
<1>5. Items(s) = {Head(s)} \cup Items(r) /\ Head(s) \in Items(s)
  <2>1. ASSUME NEW x \in Items(s) PROVE x \in {Head(s)} \cup Items(r)
    <3>1. PICK i \in 1..n : x = s[i] BY DEF Items, n
    <3> QED BY <3>1, <1>1, <1>2, <1>4 DEF Items
  <2>2. ASSUME NEW x \in Items(r) PROVE x \in Items(s)
    <3>1. PICK i \in 1..(n - 1) : x = r[i] BY <1>2 DEF Items
    <3> QED BY <3>1, <1>2, <1>3 DEF Items, n
  <2>3. Head(s) \in Items(s)
    <3>1. 1 \in 1..n BY <1>1
    <3> QED BY <3>1, <1>1 DEF Items, n
  <2> QED BY <2>1, <2>2, <2>3
<1>6. ASSUME OneAbout(s, t) PROVE OneAbout(r, t) /\ (Head(s).who = t => About(r, t) = {})
  <2>1. ASSUME NEW i \in 1..Len(r), NEW j \in 1..Len(r), r[i].who = t, r[j].who = t PROVE i = j
    <3>1. i \in 1..(n - 1) /\ j \in 1..(n - 1) BY <1>2
    <3>2. s[i + 1].who = t /\ s[j + 1].who = t /\ i + 1 \in 1..n /\ j + 1 \in 1..n
      BY <2>1, <3>1, <1>2, <1>3
    <3>3. i + 1 = j + 1 BY <3>2, <1>6 DEF OneAbout, n
    <3> QED BY <3>1, <3>3
  <2>2. ASSUME Head(s).who = t, NEW x \in Items(r), x.who = t PROVE FALSE
    <3>1. PICK i \in 1..(n - 1) : x = r[i] BY <1>2 DEF Items
    <3>2. s[i + 1].who = t /\ s[1].who = t /\ i + 1 \in 1..n /\ 1 \in 1..n /\ i + 1 # 1
      BY <2>2, <3>1, <1>1, <1>2, <1>3
    <3> QED BY <3>2, <1>6 DEF OneAbout, n
  <2> QED BY <2>1, <2>2 DEF OneAbout, About
<1>7. ASSUME OnceIn(s, t) PROVE OnceIn(r, t) /\ (Head(s) = t => t \notin Items(r))
  <2>1. ASSUME NEW i \in 1..Len(r), NEW j \in 1..Len(r), r[i] = t, r[j] = t PROVE i = j
    <3>1. i \in 1..(n - 1) /\ j \in 1..(n - 1) BY <1>2
    <3>2. s[i + 1] = t /\ s[j + 1] = t /\ i + 1 \in 1..n /\ j + 1 \in 1..n
      BY <2>1, <3>1, <1>2, <1>3
    <3>3. i + 1 = j + 1 BY <3>2, <1>7 DEF OnceIn, n
    <3> QED BY <3>1, <3>3
  <2>2. ASSUME Head(s) = t, t \in Items(r) PROVE FALSE
    <3>1. PICK i \in 1..(n - 1) : t = r[i] BY <2>2, <1>2 DEF Items
    <3>2. s[i + 1] = t /\ s[1] = t /\ i + 1 \in 1..n /\ 1 \in 1..n /\ i + 1 # 1
      BY <2>2, <3>1, <1>1, <1>2, <1>3
    <3> QED BY <3>2, <1>7 DEF OnceIn, n
  <2> QED BY <2>1, <2>2 DEF OnceIn
<1>8. About(s, t) = IF Head(s).who = t THEN {Head(s)} \cup About(r, t) ELSE About(r, t)
  BY <1>5 DEF About
<1> QED BY <1>5, <1>6, <1>7, <1>8

\* An empty sequence has nothing.
LEMMA ItemsOfNone == Items(<<>>) = {} /\ \A t : About(<<>>, t) = {} /\ OneAbout(<<>>, t) /\ OnceIn(<<>>, t)
BY EmptySeq DEF Items, About, OneAbout, OnceIn

-----------------------------------------------------------------------------
\* What a step does to a transaction's messages in the channels of one kind: nothing, it
\* leaves none, or it leaves one.
Spares(ch, ch2, t) == \A v \in Workers :
  About(ch2[v], t) = About(ch[v], t) /\ (OneAbout(ch[v], t) => OneAbout(ch2[v], t))
Clear(ch, t) == \A v \in Workers : About(ch[v], t) = {} /\ OneAbout(ch[v], t)
Sends(ch, t, w, m) == \A v \in Workers :
  About(ch[v], t) = (IF v = w THEN {m} ELSE {}) /\ OneAbout(ch[v], t)
\* And to its places in chains.
Keeps(ch, ch2, t) == \A v \in Workers :
  (t \in Items(ch2[v]) => t \in Items(ch[v])) /\ (OnceIn(ch[v], t) => OnceIn(ch2[v], t))

LEMMA NoneAbout == ASSUME NEW s, NEW t, About(s, t) = {} PROVE OneAbout(s, t)
BY DEF About, OneAbout, Items

LEMMA ClearIs == ASSUME NEW ch, NEW t, \A v \in Workers : About(ch[v], t) = {} PROVE Clear(ch, t)
BY NoneAbout DEF Clear

LEMMA SparesSame == ASSUME NEW ch, NEW t PROVE Spares(ch, ch, t)
BY DEF Spares

LEMMA SparesPost ==
  ASSUME NEW S, NEW ch \in [Workers -> Seq(S)], NEW w, NEW m, NEW t, m.who # t
  PROVE  Spares(ch, Post(ch, w, m), t)
<1>1. ASSUME NEW v \in Workers
      PROVE  /\ About(Post(ch, w, m)[v], t) = About(ch[v], t)
             /\ OneAbout(ch[v], t) => OneAbout(Post(ch, w, m)[v], t)
  <2> DEFINE s == ch[v]
  <2>1. Post(ch, w, m)[v] = IF v = w THEN Append(s, m) ELSE s BY DEF Post
  <2>2. s \in Seq(S) OBVIOUS
  <2> HIDE DEF s
  <2>3. About(Append(s, m), t) = About(s, t) /\ (OneAbout(s, t) => OneAbout(Append(s, m), t))
    BY <2>2, ItemsPosted
  <2> QED BY <2>1, <2>3 DEF s
<1> QED BY <1>1 DEF Spares

LEMMA SparesTake ==
  ASSUME NEW S, NEW ch \in [Workers -> Seq(S)], NEW w \in Workers, ch[w] # <<>>, NEW t, Head(ch[w]).who # t
  PROVE  Spares(ch, [ch EXCEPT ![w] = Tail(@)], t)
<1> DEFINE r == Tail(ch[w])
<1>1. About(r, t) = About(ch[w], t) /\ (OneAbout(ch[w], t) => OneAbout(r, t)) BY ItemsTaken
<1>2. \A v \in Workers : [ch EXCEPT ![w] = Tail(@)][v] = IF v = w THEN r ELSE ch[v] OBVIOUS
<1> HIDE DEF r
<1> QED BY <1>1, <1>2 DEF Spares

LEMMA SendsPost ==
  ASSUME NEW S, NEW ch \in [Workers -> Seq(S)], NEW w \in Workers, NEW m, NEW t, m.who = t, Clear(ch, t)
  PROVE  Sends(Post(ch, w, m), t, w, m)
<1>1. ASSUME NEW v \in Workers
      PROVE  /\ About(Post(ch, w, m)[v], t) = (IF v = w THEN {m} ELSE {})
             /\ OneAbout(Post(ch, w, m)[v], t)
  <2> DEFINE s == ch[v]
  <2>1. Post(ch, w, m)[v] = IF v = w THEN Append(s, m) ELSE s BY DEF Post
  <2>2. s \in Seq(S) /\ About(s, t) = {} /\ OneAbout(s, t) BY DEF Clear
  <2> HIDE DEF s
  <2>3. About(Append(s, m), t) = {m} /\ OneAbout(Append(s, m), t) BY <2>2, ItemsPosted
  <2> QED BY <2>1, <2>2, <2>3
<1> QED BY <1>1 DEF Sends

LEMMA TakesOwn ==
  ASSUME NEW S, NEW ch \in [Workers -> Seq(S)], NEW w \in Workers, ch[w] # <<>>, NEW t, Head(ch[w]).who = t,
         OneAbout(ch[w], t), \A v \in Workers : v # w => About(ch[v], t) = {}
  PROVE  Clear([ch EXCEPT ![w] = Tail(@)], t)
<1> DEFINE s == ch[w]  r == Tail(s)
<1>1. About(r, t) = {}
  <2>1. s \in Seq(S) /\ s # <<>> /\ OneAbout(s, t) /\ Head(s).who = t OBVIOUS
  <2> HIDE DEF s
  <2> QED BY <2>1, ItemsTaken
<1>2. \A v \in Workers : [ch EXCEPT ![w] = Tail(@)][v] = IF v = w THEN r ELSE ch[v] OBVIOUS
<1> HIDE DEF r
<1> QED BY <1>1, <1>2, ClearIs

LEMMA KeepsSame == ASSUME NEW ch, NEW t PROVE Keeps(ch, ch, t)
BY DEF Keeps

LEMMA KeepsPost ==
  ASSUME NEW S, NEW ch \in [Workers -> Seq(S)], NEW w, NEW x, NEW t, x # t
  PROVE  Keeps(ch, Post(ch, w, x), t)
<1>1. ASSUME NEW v \in Workers
      PROVE  /\ t \in Items(Post(ch, w, x)[v]) => t \in Items(ch[v])
             /\ OnceIn(ch[v], t) => OnceIn(Post(ch, w, x)[v], t)
  <2> DEFINE s == ch[v]
  <2>1. Post(ch, w, x)[v] = IF v = w THEN Append(s, x) ELSE s BY DEF Post
  <2>2. s \in Seq(S) OBVIOUS
  <2> HIDE DEF s
  <2>3. Items(Append(s, x)) = Items(s) \cup {x} /\ (OnceIn(s, t) => OnceIn(Append(s, x), t))
    BY <2>2, ItemsPosted
  <2> QED BY <2>1, <2>3 DEF s
<1> QED BY <1>1 DEF Keeps

LEMMA RestItems ==
  ASSUME NEW S, NEW s \in Seq(S), NEW t
  PROVE  (t \in Items(Rest(s)) => t \in Items(s)) /\ (OnceIn(s, t) => OnceIn(Rest(s), t))
<1>1. CASE s = <<>>
  <2>1. Len(s) = 0 BY <1>1, EmptySeq
  <2>2. Len(Rest(s)) = 0 BY <2>1, SubSeqProperties DEF Rest
  <2> QED BY <2>2 DEF Items, OnceIn
<1>2. CASE s # <<>> BY <1>2, ItemsTaken
<1> QED BY <1>1, <1>2

LEMMA KeepsRest ==
  ASSUME NEW S, NEW ch \in [Workers -> Seq(S)], NEW w, NEW t
  PROVE  Keeps(ch, [ch EXCEPT ![w] = Rest(@)], t)
<1> DEFINE r == Rest(ch[w])
<1>1. \A v \in Workers : [ch EXCEPT ![w] = Rest(@)][v] = IF v = w THEN r ELSE ch[v] OBVIOUS
<1>2. w \in Workers => (t \in Items(r) => t \in Items(ch[w])) /\ (OnceIn(ch[w], t) => OnceIn(r, t))
  BY RestItems
<1> HIDE DEF r
<1> QED BY <1>1, <1>2 DEF Keeps

LEMMA KeepsTail ==
  ASSUME NEW S, NEW ch \in [Workers -> Seq(S)], NEW w \in Workers, ch[w] # <<>>, NEW t
  PROVE  Keeps(ch, [ch EXCEPT ![w] = Tail(@)], t)
<1> DEFINE s == ch[w]  r == Tail(s)
<1>1. \A v \in Workers : [ch EXCEPT ![w] = Tail(@)][v] = IF v = w THEN r ELSE ch[v] OBVIOUS
<1>2. (t \in Items(r) => t \in Items(ch[w])) /\ (OnceIn(ch[w], t) => OnceIn(r, t))
  <2>1. s \in Seq(S) /\ s # <<>> OBVIOUS
  <2> HIDE DEF s
  <2>2. Items(s) = {Head(s)} \cup Items(r) /\ (OnceIn(s, t) => OnceIn(r, t)) BY <2>1, ItemsTaken
  <2> QED BY <2>2 DEF s
<1> HIDE DEF r
<1> QED BY <1>1, <1>2 DEF Keeps

-----------------------------------------------------------------------------
\* A step that is about another transaction.
SameWork(t) ==
  /\ pc'[t] = pc[t] /\ at'[t] = at[t] /\ awaiting'[t] = awaiting[t] /\ borrowed'[t] = borrowed[t]
  /\ base'[t] = base[t]
  /\ ref'[t] \in {"own", "remote"} => ref'[t] = ref[t] /\ copy'[t] = copy[t]
  /\ (t \in granted' <=> t \in granted) /\ (t \in orphans' <=> t \in orphans)
  /\ (t \in lost' => t \in lost)
SameState(t) == SameWork(t) /\ ref'[t] = ref[t] /\ copy'[t] = copy[t]
SameMail(t) ==
  /\ Spares(up, up', t) /\ Spares(down, down', t)
  /\ \A v \in Workers : t \in asked'[v] => t \in asked[v]
SameRoom(t) ==
  /\ Keeps(chain, chain', t) /\ Keeps(writes, writes', t)
  /\ \A v \in Workers : t \in holds'[v] <=> t \in holds[v]

LEMMA Undisturbed ==
  ASSUME NEW t, Fits(t), SameWork(t), SameMail(t), SameRoom(t)
  PROVE  Fits(t)'
<1>1. TxnFits(t)' BY DEF Fits, TxnFits, SameWork, InTownLock, Over
<1>2. RoomFits(t)'
  <2>1. ASSUME NEW v \in Workers PROVE About(up'[v], t) = About(up[v], t)
    BY DEF SameMail, Spares
  <2> QED BY <2>1 DEF Fits, RoomFits, SameWork, SameRoom, Keeps, Over, Calls
<1>3. MailFits(t)'
  <2>1. ASSUME NEW v \in Workers
        PROVE  /\ About(up'[v], t) = About(up[v], t) /\ (OneAbout(up[v], t) => OneAbout(up'[v], t))
               /\ About(down'[v], t) = About(down[v], t) /\ (OneAbout(down[v], t) => OneAbout(down'[v], t))
               /\ t \in asked'[v] => t \in asked[v]
               /\ HoldQueued(t, v)' => HoldQueued(t, v)
               /\ Applied(t, v)' => Applied(t, v)
    BY DEF SameMail, Spares, SameRoom, Keeps, SameWork, HoldQueued, Applied
  <2>2. ASSUME NEW v \in Workers, NEW m \in About(up[v], t) PROVE UpFits(t, m, v)'
    <3>1. UpFits(t, m, v) BY DEF Fits, MailFits
    <3> QED BY <3>1 DEF UpFits, SameWork, Works, Calls, PatchOf, Over
  <2>3. ASSUME NEW v \in Workers, NEW m \in About(down[v], t) PROVE DownFits(t, m, v)'
    <3>1. DownFits(t, m, v) BY DEF Fits, MailFits
    <3> QED BY <3>1 DEF DownFits, SameWork, Works, Calls, PatchOf, Over
  <2>4. ASSUME NEW v \in Workers, t \in asked'[v]
        PROVE  Calls(t, v, Reading \cup {"holding"})' \/ pc'[t] = "failed"
    <3>1. Calls(t, v, Reading \cup {"holding"}) \/ pc[t] = "failed"
      BY <2>1, <2>4 DEF Fits, MailFits
    <3> QED BY <3>1 DEF Calls, SameWork
  <2>5. ~Over(t)' => OneErrand(t)'
    <3>1. ~Over(t)' => ~Over(t) BY DEF Over, SameWork
    <3>2. ~Over(t) => OneErrand(t) BY DEF Fits, MailFits
    <3> QED BY <3>1, <3>2, <2>1 DEF OneErrand
  <2> QED BY <2>1, <2>2, <2>3, <2>4, <2>5 DEF MailFits
<1> QED BY <1>1, <1>2, <1>3 DEF Fits

-----------------------------------------------------------------------------
\* Where the one thing a transaction waits for can be.
Elsewhere(t) == \A v \in Workers : t \notin asked[v] /\ ~HoldQueued(t, v) /\ ~Applied(t, v)
Unplaced(t)  == Clear(up, t) /\ Clear(down, t) /\ Elsewhere(t)
Spot(t, w)   == awaiting[t] = w \/ (awaiting[t] = NoWorker /\ at[t] = w)
PlacedAt(t, w) ==
  \/ About(up[w], t) # {} \/ About(down[w], t) # {} \/ t \in asked[w]
  \/ HoldQueued(t, w) \/ Applied(t, w)

LEMMA ItemsTyped ==
  ASSUME NEW S, NEW s \in Seq(S), NEW m \in Items(s)
  PROVE  m \in S
BY ElementOfSeq DEF Items

LEMMA MailTyped ==
  ASSUME TypeOK, NEW t \in Txns, NEW w \in Workers
  PROVE  /\ \A m \in About(up[w], t) : m \in UpMsg /\ m.who = t /\ m.op \notin {"lease", "release"}
         /\ \A m \in About(down[w], t) : m \in DownMsg /\ m.who = t /\ m.op \notin {"leased", "leaseFailed"}
<1>1. up[w] \in Seq(UpMsg) /\ down[w] \in Seq(DownMsg) BY DEF TypeOK, ChannelsTypeOK
<1>2. ASSUME NEW m \in About(up[w], t) PROVE m \in UpMsg /\ m.who = t
  BY <1>1, ItemsTyped DEF About
<1>3. ASSUME NEW m \in About(down[w], t) PROVE m \in DownMsg /\ m.who = t
  BY <1>1, ItemsTyped DEF About
<1>4. t \notin Visits /\ t # Main BY NamesAssumption
<1>5. ASSUME NEW m \in About(up[w], t) PROVE m.op \notin {"lease", "release"}
  BY <1>2, <1>4 DEF UpMsg
<1>6. ASSUME NEW m \in About(down[w], t) PROVE m.op \notin {"leased", "leaseFailed"}
  BY <1>3, <1>4 DEF DownMsg
<1> QED BY <1>2, <1>3, <1>5, <1>6

LEMMA PlacedIsSpot ==
  ASSUME TypeOK, NEW t \in Txns, Fits(t), ~Over(t), NEW w \in Workers, PlacedAt(t, w)
  PROVE  Spot(t, w)
<1>1. ASSUME NEW m \in About(up[w], t) PROVE Spot(t, w)
  <2>1. UpFits(t, m, w) /\ m \in UpMsg /\ m.op \notin {"lease", "release"}
    BY MailTyped DEF Fits, MailFits
  <2>2. m.op \in {"lock", "account", "patch", "retry", "held", "live", "patched", "unlock"}
    BY <2>1 DEF UpMsg
  <2> QED BY <2>1, <2>2 DEF UpFits, Spot, Calls, Works, Over
<1>2. ASSUME NEW m \in About(down[w], t) PROVE Spot(t, w)
  <2>1. DownFits(t, m, w) /\ m \in DownMsg /\ m.op \notin {"leased", "leaseFailed"}
    BY MailTyped DEF Fits, MailFits
  <2>2. m.op \in {"rpcOwn", "rpcOther", "refused", "hold", "unhold", "account", "grant", "live", "patch", "patched"}
    BY <2>1 DEF DownMsg
  <2> QED BY <2>1, <2>2 DEF DownFits, Spot, Calls, Works, Over
<1>3. CASE t \in asked[w] BY <1>3 DEF Fits, MailFits, Spot, Calls, Over
<1>4. CASE HoldQueued(t, w) BY <1>4 DEF Fits, RoomFits, HoldQueued, Spot, Calls, InWork, Over
<1>5. CASE Applied(t, w) BY <1>5 DEF Fits, RoomFits, Applied, Spot, Calls, Over
<1> QED BY <1>1, <1>2, <1>3, <1>4, <1>5 DEF PlacedAt

\* It is in one place only.
LEMMA OnePlace ==
  ASSUME TypeOK, NEW t \in Txns, Fits(t), ~Over(t), NEW w \in Workers, PlacedAt(t, w)
  PROVE  \A v \in Workers : v # w => ~PlacedAt(t, v)
<1>1. NoWorker \notin Workers BY NamesAssumption
<1> QED BY <1>1, PlacedIsSpot DEF Spot

\* Most of the time a transaction waits for nothing but its turn.
Idle(t) ==
  \/ pc[t] \in {"new", "queued", "loaded", "arrived", "arrivedOwn", "awaitRelease", "wqueued", "wloaded",
                "settled", "refused", "writing"}
  \/ pc[t] = "townQueued" /\ borrowed[t] # Main
  \/ awaiting[t] = Main

LEMMA IdleIs ==
  ASSUME TypeOK, NEW t \in Txns, Fits(t), ~Over(t), Idle(t)
  PROVE  Unplaced(t)
<1>1. NoWorker \notin Workers /\ Main \notin Workers /\ Main # NoWorker BY NamesAssumption
<1>2. ASSUME NEW w \in Workers, NEW m \in About(up[w], t) PROVE FALSE
  <2>1. UpFits(t, m, w) /\ m \in UpMsg /\ m.op \notin {"lease", "release"}
    BY <1>2, MailTyped DEF Fits, MailFits
  <2>2. m.op \in {"lock", "account", "patch", "retry", "held", "live", "patched", "unlock"}
    BY <2>1 DEF UpMsg
  <2> QED BY <1>1, <2>1, <2>2 DEF UpFits, Calls, Works, Over, Idle, Reading
<1>3. ASSUME NEW w \in Workers, NEW m \in About(down[w], t) PROVE FALSE
  <2>1. DownFits(t, m, w) /\ m \in DownMsg /\ m.op \notin {"leased", "leaseFailed"}
    BY <1>3, MailTyped DEF Fits, MailFits
  <2>2. m.op \in {"rpcOwn", "rpcOther", "refused", "hold", "unhold", "account", "grant", "live", "patch", "patched"}
    BY <2>1 DEF DownMsg
  <2> QED BY <1>1, <2>1, <2>2 DEF DownFits, Calls, Works, Over, Idle, Reading
<1>4. ASSUME NEW w \in Workers PROVE t \notin asked[w] /\ ~HoldQueued(t, w) /\ ~Applied(t, w)
  BY <1>1 DEF Fits, MailFits, RoomFits, HoldQueued, Applied, Calls, Over, Idle, Reading, InWork
<1> QED BY <1>2, <1>3, <1>4, ClearIs DEF Unplaced, Elsewhere

\* The message a thread takes says what UpFits and DownFits say of it.
LEMMA HeadAbout ==
  ASSUME TypeOK, NEW w \in Workers
  PROVE  /\ up[w] # <<>> => Head(up[w]) \in About(up[w], Head(up[w]).who)
         /\ down[w] # <<>> => Head(down[w]) \in About(down[w], Head(down[w]).who)
<1>1. ASSUME NEW S, NEW s \in Seq(S), s # <<>> PROVE Head(s) \in About(s, Head(s).who)
  <2>1. Head(s) \in Items(s) BY <1>1, ItemsTaken
  <2> QED BY <2>1 DEF About
<1>2. up[w] \in Seq(UpMsg) /\ down[w] \in Seq(DownMsg) BY DEF TypeOK, ChannelsTypeOK
<1> QED BY <1>1, <1>2

\* The place is left when the main thread takes the message,
LEMMA TakenUp ==
  ASSUME TypeOK, NEW t \in Txns, Fits(t), ~Over(t), NEW w \in Workers, up[w] # <<>>, Head(up[w]).who = t, TakeUp(w)
  PROVE  /\ Clear(up', t) /\ Clear(down, t) /\ Elsewhere(t)
         /\ UpFits(t, Head(up[w]), w) /\ Head(up[w]) \in About(up[w], t)
<1>1. up \in [Workers -> Seq(UpMsg)] /\ up' = [up EXCEPT ![w] = Tail(@)]
  BY DEF TypeOK, ChannelsTypeOK, TakeUp
<1>2. Head(up[w]) \in About(up[w], t)
  <2> DEFINE s == up[w]
  <2>1. s \in Seq(UpMsg) /\ s # <<>> BY <1>1
  <2> HIDE DEF s
  <2>2. Head(s) \in Items(s) BY <2>1, ItemsTaken
  <2> QED BY <2>2 DEF About, s
<1>3. OneErrand(t) BY DEF Fits, MailFits
<1>4. PlacedAt(t, w) BY <1>2 DEF PlacedAt
<1>5. \A v \in Workers : v # w => ~PlacedAt(t, v) BY <1>4, OnePlace
<1>6. Clear(up', t)
  <2>1. OneAbout(up[w], t) /\ \A v \in Workers : v # w => About(up[v], t) = {}
    BY <1>3, <1>5 DEF OneErrand, PlacedAt
  <2> QED BY <1>1, <2>1, TakesOwn
<1>7. Clear(down, t) BY <1>2, <1>3, <1>5, ClearIs DEF OneErrand, PlacedAt
<1>8. Elsewhere(t) BY <1>2, <1>3, <1>5 DEF OneErrand, PlacedAt, Elsewhere
<1>9. UpFits(t, Head(up[w]), w) BY <1>2 DEF Fits, MailFits
<1> QED BY <1>2, <1>6, <1>7, <1>8, <1>9

\* or the worker does,
LEMMA TakenDown ==
  ASSUME TypeOK, NEW t \in Txns, Fits(t), ~Over(t), NEW w \in Workers, down[w] # <<>>, Head(down[w]).who = t, TakeDown(w)
  PROVE  /\ Clear(down', t) /\ Clear(up, t) /\ Elsewhere(t)
         /\ DownFits(t, Head(down[w]), w) /\ Head(down[w]) \in About(down[w], t)
<1>1. down \in [Workers -> Seq(DownMsg)] /\ down' = [down EXCEPT ![w] = Tail(@)]
  BY DEF TypeOK, ChannelsTypeOK, TakeDown
<1>2. Head(down[w]) \in About(down[w], t)
  <2> DEFINE s == down[w]
  <2>1. s \in Seq(DownMsg) /\ s # <<>> BY <1>1
  <2> HIDE DEF s
  <2>2. Head(s) \in Items(s) BY <2>1, ItemsTaken
  <2> QED BY <2>2 DEF About, s
<1>3. OneErrand(t) BY DEF Fits, MailFits
<1>4. PlacedAt(t, w) BY <1>2 DEF PlacedAt
<1>5. \A v \in Workers : v # w => ~PlacedAt(t, v) BY <1>4, OnePlace
<1>6. Clear(down', t)
  <2>1. OneAbout(down[w], t) /\ \A v \in Workers : v # w => About(down[v], t) = {}
    BY <1>3, <1>5 DEF OneErrand, PlacedAt
  <2> QED BY <1>1, <2>1, TakesOwn
<1>7. Clear(up, t) BY <1>2, <1>3, <1>5, ClearIs DEF OneErrand, PlacedAt
<1>8. Elsewhere(t) BY <1>2, <1>3, <1>5 DEF OneErrand, PlacedAt, Elsewhere
<1>9. DownFits(t, Head(down[w]), w) BY <1>2 DEF Fits, MailFits
<1> QED BY <1>2, <1>6, <1>7, <1>8, <1>9

\* or it is waiting there, queued there, or applied.
LEMMA TakenThere ==
  ASSUME TypeOK, NEW t \in Txns, Fits(t), ~Over(t), NEW w \in Workers, t \in asked[w] \/ HoldQueued(t, w) \/ Applied(t, w)
  PROVE  /\ Clear(up, t) /\ Clear(down, t)
         /\ \A v \in Workers : v # w => t \notin asked[v] /\ ~HoldQueued(t, v) /\ ~Applied(t, v)
         /\ t \in asked[w] => ~HoldQueued(t, w) /\ ~Applied(t, w)
         /\ ~(HoldQueued(t, w) /\ Applied(t, w))
<1>3. OneErrand(t) BY DEF Fits, MailFits
<1>4. PlacedAt(t, w) BY DEF PlacedAt
<1>5. \A v \in Workers : v # w => ~PlacedAt(t, v) BY <1>4, OnePlace
<1>6. Clear(up, t) BY <1>3, <1>5, ClearIs DEF OneErrand, PlacedAt
<1>7. Clear(down, t) BY <1>3, <1>5, ClearIs DEF OneErrand, PlacedAt
<1>8. ~(HoldQueued(t, w) /\ Applied(t, w)) BY DEF Fits, RoomFits, HoldQueued, Applied, Calls
<1> QED BY <1>3, <1>5, <1>6, <1>7, <1>8 DEF OneErrand, PlacedAt

\* What makes a transaction's messages fit: there is none, or one that fits.
Asked(t, w) == \A v \in Workers : t \in asked[v] <=> v = w
LoneFits ==
  \A t \in Txns :
    /\ Clear(up, t) /\ Clear(down, t) /\ (\A v \in Workers : t \notin asked[v]) => MailFits(t)
    /\ \A w \in Workers :
       /\ \A m : Sends(up, t, w, m) /\ Clear(down, t) /\ Elsewhere(t) /\ UpFits(t, m, w) => MailFits(t)
       /\ \A m : Sends(down, t, w, m) /\ Clear(up, t) /\ Elsewhere(t) /\ DownFits(t, m, w) => MailFits(t)
       /\ /\ Clear(up, t) /\ Clear(down, t) /\ Asked(t, w)
          /\ (\A v \in Workers : ~HoldQueued(t, v) /\ ~Applied(t, v)) /\ Calls(t, w, Reading \cup {"holding"})
          => MailFits(t)

LEMMA LoneFitsHolds == LoneFits
<1> SUFFICES ASSUME NEW t \in Txns
             PROVE
    /\ Clear(up, t) /\ Clear(down, t) /\ (\A v \in Workers : t \notin asked[v]) => MailFits(t)
    /\ \A w \in Workers :
       /\ \A m : Sends(up, t, w, m) /\ Clear(down, t) /\ Elsewhere(t) /\ UpFits(t, m, w) => MailFits(t)
       /\ \A m : Sends(down, t, w, m) /\ Clear(up, t) /\ Elsewhere(t) /\ DownFits(t, m, w) => MailFits(t)
       /\ /\ Clear(up, t) /\ Clear(down, t) /\ Asked(t, w)
          /\ (\A v \in Workers : ~HoldQueued(t, v) /\ ~Applied(t, v)) /\ Calls(t, w, Reading \cup {"holding"})
          => MailFits(t)
  BY DEF LoneFits
<1>1. Clear(up, t) /\ Clear(down, t) /\ (\A v \in Workers : t \notin asked[v]) => MailFits(t)
  BY DEF Clear, MailFits, OneErrand
<1>2. ASSUME NEW w \in Workers, NEW m, Sends(up, t, w, m), Clear(down, t), Elsewhere(t), UpFits(t, m, w) PROVE MailFits(t)
  BY <1>2 DEF Sends, Clear, Elsewhere, MailFits, OneErrand
<1>3. ASSUME NEW w \in Workers, NEW m, Sends(down, t, w, m), Clear(up, t), Elsewhere(t), DownFits(t, m, w) PROVE MailFits(t)
  BY <1>3 DEF Sends, Clear, Elsewhere, MailFits, OneErrand
<1>4. ASSUME NEW w \in Workers, Clear(up, t), Clear(down, t), Asked(t, w),
             \A v \in Workers : ~HoldQueued(t, v) /\ ~Applied(t, v), Calls(t, w, Reading \cup {"holding"})
      PROVE  MailFits(t)
  BY <1>4 DEF Asked, Clear, MailFits, OneErrand
<1> QED BY <1>1, <1>2, <1>3, <1>4

LEMMA LoneFitsNext == LoneFits'
BY LoneFitsHolds, PTL

-----------------------------------------------------------------------------
\* A step about one transaction (or an entry): it takes or sends at most one message at each
\* end, about it, and moves one place in a chain.
UpMoves(t) ==
  \/ up' = up
  \/ \E w, m : m.who = t /\ up' = Post(up, w, m)
  \/ \E w \in Workers : up[w] # <<>> /\ Head(up[w]).who = t /\ TakeUp(w)
DownMoves(t) ==
  \/ down' = down
  \/ \E w, m : m.who = t /\ down' = Post(down, w, m)
  \/ \E w \in Workers : down[w] # <<>> /\ Head(down[w]).who = t /\ TakeDown(w)
ChainMoves(t) ==
  \/ chain' = chain
  \/ \E w : chain' = Post(chain, w, t)
  \/ \E w : chain' = [chain EXCEPT ![w] = Rest(@)]
WritesMove(t) ==
  \/ writes' = writes
  \/ \E w : writes' = Post(writes, w, t)
  \/ \E w \in Workers : writes[w] # <<>> /\ writes' = [writes EXCEPT ![w] = Tail(@)]
OthersStay(t) == \A u \in Txns : u # t =>
  /\ SameState(u)
  /\ \A v \in Workers : (u \in asked'[v] => u \in asked[v]) /\ (u \in holds'[v] <=> u \in holds[v])
Moves(t) == UpMoves(t) /\ DownMoves(t) /\ ChainMoves(t) /\ WritesMove(t) /\ OthersStay(t)

AllFit == \A t \in Txns : Fits(t)

LEMMA OthersFit ==
  ASSUME TypeOK, AllFit, NEW t, UpMoves(t), DownMoves(t), ChainMoves(t), WritesMove(t), NEW u \in Txns, u # t,
         SameWork(u), \A v \in Workers : (u \in asked'[v] => u \in asked[v]) /\ (u \in holds'[v] <=> u \in holds[v])
  PROVE  Fits(u)'
<1>1. up \in [Workers -> Seq(UpMsg)] /\ down \in [Workers -> Seq(DownMsg)]
  BY DEF TypeOK, ChannelsTypeOK
<1>2. chain \in [Workers -> Seq(Txns)] /\ writes \in [Workers -> Seq(Txns \cup Visits)]
  BY DEF TypeOK, WorkersTypeOK
<1>3. Spares(up, up', u)
  <2>1. CASE up' = up BY <2>1, SparesSame
  <2>2. ASSUME NEW w, NEW m, m.who = t, up' = Post(up, w, m) PROVE Spares(up, up', u)
    BY <2>2, <1>1, SparesPost
  <2>3. ASSUME NEW w \in Workers, up[w] # <<>>, Head(up[w]).who = t, TakeUp(w) PROVE Spares(up, up', u)
    BY <2>3, <1>1, SparesTake DEF TakeUp
  <2> QED BY <2>1, <2>2, <2>3 DEF UpMoves
<1>4. Spares(down, down', u)
  <2>1. CASE down' = down BY <2>1, SparesSame
  <2>2. ASSUME NEW w, NEW m, m.who = t, down' = Post(down, w, m) PROVE Spares(down, down', u)
    BY <2>2, <1>1, SparesPost
  <2>3. ASSUME NEW w \in Workers, down[w] # <<>>, Head(down[w]).who = t, TakeDown(w) PROVE Spares(down, down', u)
    BY <2>3, <1>1, SparesTake DEF TakeDown
  <2> QED BY <2>1, <2>2, <2>3 DEF DownMoves
<1>5. Keeps(chain, chain', u)
  <2>1. CASE chain' = chain BY <2>1, KeepsSame
  <2>2. ASSUME NEW w, chain' = Post(chain, w, t) PROVE Keeps(chain, chain', u)
    BY <2>2, <1>2, KeepsPost
  <2>3. ASSUME NEW w, chain' = [chain EXCEPT ![w] = Rest(@)] PROVE Keeps(chain, chain', u)
    BY <2>3, <1>2, KeepsRest
  <2> QED BY <2>1, <2>2, <2>3 DEF ChainMoves
<1>6. Keeps(writes, writes', u)
  <2>1. CASE writes' = writes BY <2>1, KeepsSame
  <2>2. ASSUME NEW w, writes' = Post(writes, w, t) PROVE Keeps(writes, writes', u)
    BY <2>2, <1>2, KeepsPost
  <2>3. ASSUME NEW w \in Workers, writes[w] # <<>>, writes' = [writes EXCEPT ![w] = Tail(@)]
        PROVE  Keeps(writes, writes', u)
    BY <2>3, <1>2, KeepsTail
  <2> QED BY <2>1, <2>2, <2>3 DEF WritesMove
<1>8. SameMail(u) /\ SameRoom(u) BY <1>3, <1>4, <1>5, <1>6 DEF SameMail, SameRoom
<1> QED BY <1>8, Undisturbed DEF AllFit

LEMMA StepFits ==
  ASSUME TypeOK, AllFit, NEW t, Moves(t), t \in Txns => Fits(t)'
  PROVE  AllFit'
BY OthersFit DEF AllFit, Moves, OthersStay, SameState

\* The message it sends fits, and there is no other.
LEMMA PostedDown ==
  ASSUME TypeOK, NEW t \in Txns, Clear(up', t), Clear(down, t), Elsewhere(t)', NEW w \in Workers, NEW m,
         m.who = t, down' = Post(down, w, m), DownFits(t, m, w)'
  PROVE  MailFits(t)'
<1>1. down \in [Workers -> Seq(DownMsg)] BY DEF TypeOK, ChannelsTypeOK
<1>2. Sends(down', t, w, m) BY <1>1, SendsPost
<1>3. Sends(down, t, w, m)' /\ Clear(up, t)' BY <1>2 DEF Sends, Clear
<1> QED BY <1>3, LoneFitsNext DEF LoneFits

LEMMA PostedUp ==
  ASSUME TypeOK, NEW t \in Txns, Clear(down', t), Clear(up, t), Elsewhere(t)', NEW w \in Workers, NEW m,
         m.who = t, up' = Post(up, w, m), UpFits(t, m, w)'
  PROVE  MailFits(t)'
<1>1. up \in [Workers -> Seq(UpMsg)] BY DEF TypeOK, ChannelsTypeOK
<1>2. Sends(up', t, w, m) BY <1>1, SendsPost
<1>3. Sends(up, t, w, m)' /\ Clear(down, t)' BY <1>2 DEF Sends, Clear
<1> QED BY <1>3, LoneFitsNext DEF LoneFits

LEMMA PostedNone ==
  ASSUME NEW t \in Txns, Clear(up', t), Clear(down', t), \A v \in Workers : t \notin asked'[v]
  PROVE  MailFits(t)'
<1>1. Clear(up, t)' /\ Clear(down, t)' BY DEF Clear
<1> QED BY <1>1, LoneFitsNext DEF LoneFits

LEMMA PostedAsked ==
  ASSUME NEW t \in Txns, NEW w \in Workers, Clear(up', t), Clear(down', t), Asked(t, w)',
         (\A v \in Workers : ~HoldQueued(t, v) /\ ~Applied(t, v))', Calls(t, w, Reading \cup {"holding"})'
  PROVE  MailFits(t)'
<1>1. Clear(up, t)' /\ Clear(down, t)' BY DEF Clear
<1> QED BY <1>1, LoneFitsNext DEF LoneFits

\* Nothing of it is queued or held anywhere while it has no lock.
LEMMA NowhereQueued ==
  ASSUME NEW t \in Txns, Fits(t), ~Over(t), pc[t] \notin InWork, pc[t] # "holding", NEW w \in Workers
  PROVE  t \notin Items(chain[w]) /\ t \notin holds[w] /\ t \notin Items(writes[w])
<1>1. RoomFits(t) BY DEF Fits
<1> QED BY <1>1 DEF RoomFits, Calls, InWork, Over

-----------------------------------------------------------------------------
\* Transactions of the main thread.
LEMMA Dispatched ==
  ASSUME TypeOK, NEW t \in Txns, Fits(t), pc[t] \in {"new", "forwarded"},
         Clear(up', t), Clear(down, t), Elsewhere(t), DispatchWhereOwned(t),
         UNCHANGED <<borrowed, workerVars, at, ref, copy, base, granted, orphans, lost>>
  PROVE  Fits(t)'
<1>1. TxnFits(t)'
  BY DEF Fits, TxnFits, DispatchWhereOwned, InTown, Early, Reading, InTownLock, Over, TypeOK, TxnsTypeOK
<1>2. RoomFits(t)'
  <2>1. \A v \in Workers : t \notin Items(chain[v]) /\ t \notin holds[v] /\ t \notin Items(writes[v])
    BY NowhereQueued DEF Over, InWork
  <2> QED BY <2>1 DEF Fits, RoomFits, workerVars, Over
<1>3. MailFits(t)'
  <2>1. Elsewhere(t)' /\ \A v \in Workers : t \notin asked'[v]
    BY DEF Elsewhere, HoldQueued, Applied, workerVars, DispatchWhereOwned, TypeOK, TxnsTypeOK
  <2>2. CASE OwnerOf = NoWorker
    <3>1. down' = down BY <2>2 DEF DispatchWhereOwned
    <3> QED BY <2>1, <3>1, PostedNone
  <2>3. CASE OwnerOf # NoWorker
    <3>1. PICK w \in Workers : w = OwnerOf BY <2>3 DEF OwnerOf, TypeOK, MainTypeOK
    <3>2. PICK m : m = Msg("rpcOwn", t, NoVal) OBVIOUS
    <3>3. down' = Post(down, w, m) /\ awaiting'[t] = w /\ pc'[t] = "forwarded"
      BY <2>3, <3>1, <3>2 DEF DispatchWhereOwned, TypeOK, TxnsTypeOK
    <3>4. m.who = t /\ m.op = "rpcOwn" BY <3>2 DEF Msg
    <3>5. DownFits(t, m, w)' BY <3>3, <3>4 DEF DownFits, Calls
    <3> QED BY <2>1, <3>3, <3>4, <3>5, PostedDown
  <2> QED BY <2>2, <2>3
<1> QED BY <1>1, <1>2, <1>3 DEF Fits

LEMMA RpcFits ==
  ASSUME TypeOK, AllFit, NEW t \in Txns, Rpc(t)
  PROVE  AllFit' /\ Moves(t)
<1>1. pc[t] = "new" /\ up' = up /\ DispatchWhereOwned(t) BY DEF Rpc
<1>2. Unplaced(t) BY <1>1, IdleIs DEF AllFit, Idle, Over
<1>3. Fits(t)' BY <1>1, <1>2, Dispatched DEF Rpc, Unplaced, AllFit
<1>4. Moves(t)
  <2>1. \A x, v : Msg(x, t, v).who = t BY DEF Msg
  <2>2. UpMoves(t) /\ DownMoves(t) /\ ChainMoves(t) /\ WritesMove(t)
    BY <2>1 DEF Rpc, DispatchWhereOwned, UpMoves, DownMoves, ChainMoves, WritesMove, workerVars
  <2>3. OthersStay(t)
    BY DEF Rpc, DispatchWhereOwned, OthersStay, SameState, SameWork, workerVars, TypeOK, TxnsTypeOK
  <2> QED BY <2>2, <2>3 DEF Moves
<1> QED BY <1>3, <1>4, StepFits

LEMMA RpcRetryFits ==
  ASSUME TypeOK, AllFit, NEW w \in Workers, RpcRetry(w)
  PROVE  AllFit' /\ Moves(Head(up[w]).who)
<1>0. up[w] # <<>> /\ Head(up[w]).op = "retry" /\ TakeUp(w) BY DEF RpcRetry, UpIs
<1>m. PICK t \in Txns : Head(up[w]).who = t BY <1>0, UpHead
<1>1. up[w] # <<>> /\ Head(up[w]).op = "retry" /\ TakeUp(w) /\ DispatchWhereOwned(t)
  BY <1>0, <1>m DEF RpcRetry
<1>u. UNCHANGED <<storage, lease, borrowed, workerVars, at, ref, copy, base, granted,
                 orphans, handedBack, lost, behind, visitVars, ghostVars>>
  BY DEF RpcRetry
<1>2. Fits(t) BY <1>1 DEF AllFit
<1>3. pc[t] = "forwarded"
  <2>1. UpFits(t, Head(up[w]), w) BY <1>1, <1>2, <1>m, HeadAbout DEF Fits, MailFits
  <2> QED BY <2>1, <1>1 DEF UpFits, Calls
<1>4. Clear(up', t) /\ Clear(down, t) /\ Elsewhere(t)
  BY <1>1, <1>2, <1>3, <1>m, TakenUp DEF Over
<1>5. Fits(t)'
  <2>1. UNCHANGED <<borrowed, workerVars, at, ref, copy, base, granted, orphans, lost>> BY <1>u
  <2> QED BY <1>1, <1>2, <1>3, <1>4, <2>1, Dispatched
<1>6. Moves(t)
  <2>1. \A x, v : Msg(x, t, v).who = t BY DEF Msg
  <2>2. UpMoves(t) /\ DownMoves(t) /\ ChainMoves(t) /\ WritesMove(t)
    BY <1>1, <1>m, <1>u, <2>1 DEF DispatchWhereOwned, UpMoves, DownMoves, ChainMoves, WritesMove, workerVars
  <2>3. OthersStay(t)
    BY <1>1, <1>u DEF DispatchWhereOwned, OthersStay, SameState, SameWork, workerVars, TypeOK, TxnsTypeOK
  <2> QED BY <2>2, <2>3 DEF Moves
<1> QED BY <1>m, <1>1, <1>5, <1>6, StepFits

-----------------------------------------------------------------------------
\* A transaction that has ended: what is still on its way about it may go or arrive.
LEMMA StaysOver ==
  ASSUME NEW t \in Txns, Fits(t), Over(t),
         pc'[t] = pc[t], at'[t] = at[t], base'[t] = base[t], awaiting'[t] = awaiting[t],
         borrowed'[t] \in {borrowed[t], NoWorker},
         \A v \in Workers : \A m \in About(up'[v], t) : m \in About(up[v], t) \/ UpFits(t, m, v)',
         \A v \in Workers : \A m \in About(down'[v], t) : m \in About(down[v], t) \/ DownFits(t, m, v)',
         \A v \in Workers : t \in asked'[v] => t \in asked[v] \/ pc[t] = "failed",
         \A v \in Workers : t \in Items(writes'[v]) => t \in Items(writes[v]) \/ (at[t] # v /\ pc[t] = "failed")
  PROVE  Fits(t)'
<1>1. TxnFits(t)' BY NamesAssumption DEF Fits, TxnFits, Over, InTown, Early, Reading, InTownLock
<1>2. RoomFits(t)' BY DEF Fits, RoomFits, Over, Calls
<1>3. MailFits(t)'
  <2>1. ASSUME NEW v \in Workers, NEW m \in About(up'[v], t) PROVE UpFits(t, m, v)'
    BY DEF Fits, MailFits, UpFits, Works, Calls, Over
  <2>2. ASSUME NEW v \in Workers, NEW m \in About(down'[v], t) PROVE DownFits(t, m, v)'
    BY DEF Fits, MailFits, DownFits, Works, Calls, Over, PatchOf
  <2>3. ASSUME NEW v \in Workers, t \in asked'[v] PROVE pc'[t] = "failed"
    BY <2>3 DEF Fits, MailFits, Calls, Over, Reading
  <2> QED BY <2>1, <2>2, <2>3 DEF MailFits, Over
<1> QED BY <1>1, <1>2, <1>3 DEF Fits

LEMMA Taking ==
  ASSUME NEW S, NEW ch \in [Workers -> Seq(S)], NEW w \in Workers, ch[w] # <<>>, NEW t, NEW v \in Workers
  PROVE  About([ch EXCEPT ![w] = Tail(@)][v], t) \subseteq About(ch[v], t)
<1>1. ASSUME NEW s \in Seq(S), s # <<>>, NEW r, r = Tail(s) PROVE About(r, t) \subseteq About(s, t)
  <2>1. About(s, t) = IF Head(s).who = t THEN {Head(s)} \cup About(r, t) ELSE About(r, t)
    BY <1>1, ItemsTaken
  <2> QED BY <2>1
<1>2. ch[w] \in Seq(S) /\ ch[w] # <<>> OBVIOUS
<1> QED BY <1>1, <1>2

LEMMA Posting ==
  ASSUME NEW S, NEW ch \in [Workers -> Seq(S)], NEW w, NEW m, NEW t, NEW v \in Workers
  PROVE  \A x \in About(Post(ch, w, m)[v], t) : x \in About(ch[v], t) \/ (x = m /\ v = w)
<1>1. PICK s : s = ch[v] /\ s \in Seq(S) OBVIOUS
<1>2. Post(ch, w, m)[v] = IF v = w THEN Append(s, m) ELSE s BY <1>1 DEF Post
<1>3. \A x \in About(Append(s, m), t) : x \in About(s, t) \/ x = m BY <1>1, ItemsPosted
<1> QED BY <1>1, <1>2, <1>3

\* A transaction that has no place in a chain has none after a step that adds none.
LEMMA NoRoom ==
  ASSUME NEW t \in Txns, \A v \in Workers : t \notin Items(chain'[v]) /\ t \notin holds'[v] /\ t \notin Items(writes'[v])
  PROVE  RoomFits(t)' /\ \A v \in Workers : ~HoldQueued(t, v)' /\ ~Applied(t, v)'
BY DEF RoomFits, OnceIn, Items, HoldQueued, Applied

\* What every message of a transaction is about.
LEMMA MsgIs == \A x, t, v : Msg(x, t, v).who = t /\ Msg(x, t, v).op = x /\ Msg(x, t, v).val = v
BY DEF Msg

LEMMA MainLoadFits ==
  ASSUME TypeOK, AllFit, NEW t \in Txns, MainLoad(t)
  PROVE  AllFit' /\ Moves(t)
<1>1. pc[t] = "queued" /\ Fits(t) /\ UNCHANGED <<storage, mainVars, workerVars, up, at, base, granted, orphans, handedBack,
                 lost, behind, visitVars, ghostVars>>
  BY DEF MainLoad, AllFit
<1>2. Unplaced(t) BY <1>1, IdleIs DEF Idle, Over
<1>3. pc'[t] \in {"loaded", "asking"} /\ (pc'[t] = "loaded" => awaiting'[t] = awaiting[t])
  BY DEF MainLoad, TypeOK, TxnsTypeOK
<1>4. TxnFits(t)'
  BY <1>1, <1>3, NamesAssumption DEF Fits, TxnFits, mainVars, InTown, Early, Reading, InTownLock, Over
<1>5. RoomFits(t)' /\ Elsewhere(t)' /\ \A v \in Workers : t \notin asked'[v]
  <2>1. \A v \in Workers : t \notin Items(chain'[v]) /\ t \notin holds'[v] /\ t \notin Items(writes'[v])
    BY <1>1, NowhereQueued DEF Over, InWork, workerVars
  <2> QED BY <1>1, <1>2, <2>1, NoRoom DEF Unplaced, Elsewhere, workerVars
<1>6. MailFits(t)'
  <2>1. CASE OwnerOf = NoWorker
    <3>1. down' = down BY <2>1 DEF MainLoad
    <3> QED BY <1>1, <1>2, <1>5, <3>1, PostedNone DEF Unplaced
  <2>2. CASE OwnerOf # NoWorker
    <3>1. PICK w \in Workers : w = OwnerOf BY <2>2 DEF OwnerOf, TypeOK, MainTypeOK
    <3>2. PICK m : m = Msg("account", t, NoVal) /\ m.who = t /\ m.op = "account" BY MsgIs
    <3>3. down' = Post(down, w, m) /\ awaiting'[t] = w /\ pc'[t] = "asking"
      BY <2>2, <3>1, <3>2 DEF MainLoad, TypeOK, TxnsTypeOK
    <3>4. DownFits(t, m, w)' BY <3>2, <3>3 DEF DownFits, Calls, Reading
    <3> QED BY <1>1, <1>2, <1>5, <3>2, <3>3, <3>4, PostedDown DEF Unplaced
  <2> QED BY <2>1, <2>2
<1>7. Moves(t)
  <2>1. UpMoves(t) /\ DownMoves(t) /\ ChainMoves(t) /\ WritesMove(t)
    BY <1>1, MsgIs DEF MainLoad, UpMoves, DownMoves, ChainMoves, WritesMove, workerVars
  <2>2. OthersStay(t)
    BY <1>1 DEF MainLoad, OthersStay, SameState, SameWork, workerVars, mainVars, TypeOK, TxnsTypeOK
  <2> QED BY <2>1, <2>2 DEF Moves
<1> QED BY <1>4, <1>5, <1>6, <1>7, StepFits DEF Fits

LEMMA MainSaveFits ==
  ASSUME TypeOK, AllFit, NEW t \in Txns, MainSave(t)
  PROVE  AllFit' /\ Moves(t)
<1>1. pc[t] = "loaded" /\ Fits(t) /\ UNCHANGED <<lease, borrowed, workerVars, up, at, copy, base, granted, orphans,
                 handedBack, lost, behind, visitVars, crashes>>
  BY DEF MainSave, AllFit
<1>2. Unplaced(t) BY <1>1, IdleIs DEF Idle, Over
<1>3. pc'[t] \in {"done", "forwarded"} /\ (pc'[t] = "done" => awaiting'[t] = awaiting[t]) /\ ref'[t] = "none"
  BY DEF MainSave, TypeOK, TxnsTypeOK
<1>4. TxnFits(t)'
  BY <1>1, <1>3, NamesAssumption DEF Fits, TxnFits, InTown, Early, Reading, InTownLock, Over
<1>5. RoomFits(t)' /\ Elsewhere(t)' /\ \A v \in Workers : t \notin asked'[v]
  <2>1. \A v \in Workers : t \notin Items(chain'[v]) /\ t \notin holds'[v] /\ t \notin Items(writes'[v])
    BY <1>1, NowhereQueued DEF Over, InWork, workerVars
  <2> QED BY <1>1, <1>2, <2>1, NoRoom DEF Unplaced, Elsewhere, workerVars
<1>6. MailFits(t)'
  <2>1. CASE OwnerOf = NoWorker
    <3>1. down' = down BY <2>1 DEF MainSave
    <3> QED BY <1>1, <1>2, <1>5, <3>1, PostedNone DEF Unplaced
  <2>2. CASE OwnerOf # NoWorker
    <3>1. PICK w \in Workers : w = OwnerOf BY <2>2 DEF OwnerOf, TypeOK, MainTypeOK
    <3>2. PICK m : m = Msg("rpcOther", t, NoVal) /\ m.who = t /\ m.op = "rpcOther" BY MsgIs
    <3>3. down' = Post(down, w, m) /\ awaiting'[t] = w /\ pc'[t] = "forwarded"
      BY <2>2, <3>1, <3>2 DEF MainSave, TypeOK, TxnsTypeOK
    <3>4. DownFits(t, m, w)' BY <3>2, <3>3 DEF DownFits, Calls
    <3> QED BY <1>1, <1>2, <1>5, <3>2, <3>3, <3>4, PostedDown DEF Unplaced
  <2> QED BY <2>1, <2>2
<1>7. Moves(t)
  <2>1. UpMoves(t) /\ DownMoves(t) /\ ChainMoves(t) /\ WritesMove(t)
    BY <1>1, MsgIs DEF MainSave, UpMoves, DownMoves, ChainMoves, WritesMove, workerVars
  <2>2. OthersStay(t)
    BY <1>1 DEF MainSave, OthersStay, SameState, SameWork, workerVars, TypeOK, TxnsTypeOK
  <2> QED BY <2>1, <2>2 DEF Moves
<1> QED BY <1>4, <1>5, <1>6, <1>7, StepFits DEF Fits

LEMMA AccountAnsweredFits ==
  ASSUME TypeOK, AllFit, NEW w \in Workers, AccountAnswered(w)
  PROVE  AllFit' /\ Moves(Head(up[w]).who)
<1>0. up[w] # <<>> /\ Head(up[w]).op = "live" /\ TakeUp(w) BY DEF AccountAnswered, UpIs
<1>m. PICK t \in Txns : t = Head(up[w]).who BY <1>0, UpHead
<1>1. /\ Fits(t)
      /\ UNCHANGED <<storage, mainVars, workerVars, at, base, granted, orphans, handedBack,
                 lost, behind, visitVars, ghostVars>>
      /\ awaiting' = [awaiting EXCEPT ![t] = IF @ = w THEN NoWorker ELSE @]
  BY <1>m DEF AccountAnswered, AllFit
<1>2. UpFits(t, Head(up[w]), w) BY <1>0, <1>1, <1>m, HeadAbout DEF Fits, MailFits
<1>3. Moves(t)
  <2>1. UpMoves(t) /\ DownMoves(t) /\ ChainMoves(t) /\ WritesMove(t)
    BY <1>0, <1>1, <1>m, MsgIs DEF AccountAnswered, UpMoves, DownMoves, ChainMoves, WritesMove, workerVars
  <2>2. OthersStay(t)
    BY <1>0, <1>1, <1>m DEF AccountAnswered, OthersStay, SameState, SameWork, workerVars, mainVars, TypeOK, TxnsTypeOK
  <2> QED BY <2>1, <2>2 DEF Moves
<1>4. CASE pc[t] = "failed"
  <2>1. pc' = pc /\ down' = down /\ awaiting'[t] = awaiting[t]
    BY <1>1, <1>4, <1>m DEF AccountAnswered, Fits, TxnFits, Reading, TypeOK, TxnsTypeOK
  <2>2. \A v \in Workers : About(up'[v], t) \subseteq About(up[v], t)
    BY <1>0, Taking DEF TakeUp, TypeOK, ChannelsTypeOK
  <2>3. Fits(t)' BY <1>1, <1>4, <2>1, <2>2, StaysOver DEF Over, workerVars, mainVars
  <2> QED BY <1>m, <1>3, <2>3, StepFits
<1>5. CASE pc[t] # "failed"
  <2>1. pc[t] \in Reading /\ awaiting[t] = w BY <1>0, <1>2, <1>5 DEF UpFits, Calls
  <2>2. Clear(up', t) /\ Clear(down, t) /\ Elsewhere(t)
    BY <1>0, <1>1, <1>m, <2>1, TakenUp DEF Over, Reading
  <2>3. awaiting'[t] = NoWorker BY <1>1, <2>1 DEF TypeOK, TxnsTypeOK
  <2>4. CASE pc[t] = "asking"
    <3>1. pc'[t] = "loaded" /\ down' = down
      BY <1>m, <2>4 DEF AccountAnswered, TypeOK, TxnsTypeOK
    <3>2. TxnFits(t)'
      BY <1>1, <2>3, <2>4, <3>1 DEF Fits, TxnFits, mainVars, InTown, Early, Reading, InTownLock, Over
    <3>3. \A v \in Workers : t \notin Items(chain'[v]) /\ t \notin holds'[v] /\ t \notin Items(writes'[v])
      BY <1>1, <2>4, NowhereQueued DEF Over, InWork, workerVars
    <3>4. RoomFits(t)' BY <3>3, NoRoom
    <3>5. MailFits(t)' BY <1>1, <2>2, <3>1, PostedNone DEF Elsewhere, workerVars
    <3> QED BY <1>m, <1>3, <3>2, <3>4, <3>5, StepFits DEF Fits
  <2>5. CASE pc[t] = "wasking"
    <3>1. PICK m : m = Msg("live", t, Head(up[w]).val) /\ m.who = t /\ m.op = "live" BY MsgIs
    <3>2. pc' = pc /\ down' = Post(down, at[t], m) BY <1>m, <2>5, <3>1 DEF AccountAnswered
    <3>3. at[t] \in Workers BY <1>1, <2>5 DEF Fits, TxnFits, InTown, Over
    <3>4. PICK b \in Workers : b = at[t] BY <3>3
    <3>5. TxnFits(t)'
      BY <1>0, <1>1, <1>m, <2>3, <2>5, <3>2 DEF AccountAnswered, Fits, TxnFits, mainVars, InTown, Early, Reading, InTownLock, Over
    <3>6. RoomFits(t)' BY <1>1, <2>5, <3>2 DEF Fits, RoomFits, workerVars, Calls, InWork, Over
    <3>7. DownFits(t, m, b)' BY <1>1, <2>3, <2>5, <3>1, <3>2, <3>4 DEF DownFits, Works
    <3>8. Elsewhere(t)' BY <1>1, <2>2, <3>2 DEF Elsewhere, HoldQueued, Applied, workerVars
    <3>9. MailFits(t)' BY <2>2, <3>1, <3>2, <3>4, <3>7, <3>8, PostedDown
    <3> QED BY <1>m, <1>3, <3>5, <3>6, <3>9, StepFits DEF Fits
  <2> QED BY <2>1, <2>4, <2>5 DEF Reading
<1> QED BY <1>4, <1>5

LEMMA LeaseAskedFits ==
  ASSUME TypeOK, AllFit, NEW w \in Workers, LeaseAsked(w) \/ LeaseReleased(w)
  PROVE  AllFit' /\ Moves(Head(up[w]).who)
<1>0. up[w] # <<>> /\ Head(up[w]).op \in {"lease", "release"} /\ TakeUp(w)
  BY DEF LeaseAsked, LeaseReleased, UpIs
<1>1. PICK e : e = Head(up[w]).who OBVIOUS
<1>2. e \notin Txns BY <1>0, <1>1, UpHead, NamesAssumption DEF UpMsg
<1>3. UNCHANGED <<borrowed, workerVars, down, pc, at, awaiting, ref, copy, base, granted, orphans, lost>>
  BY DEF LeaseAsked, LeaseReleased, mainVars, txnVars
<1>4. Moves(e)
  BY <1>0, <1>1, <1>3 DEF Moves, UpMoves, DownMoves, ChainMoves, WritesMove, OthersStay, SameState, SameWork, workerVars
<1> QED BY <1>1, <1>2, <1>4, StepFits

\* The main thread decides where a lock is borrowed from.
LEMMA Borrowing ==
  ASSUME TypeOK, NEW t \in Txns, Fits(t), pc[t] \in {"locking", "awaitRelease"},
         Clear(up', t), Clear(down, t), Elsewhere(t), BorrowLock(t),
         UNCHANGED <<storage, lease, borrowed, workerVars, at, ref, copy, base, granted, orphans,
                 lost, behind, visitVars, ghostVars>>
  PROVE  Fits(t)' /\ DownMoves(t) /\ OthersStay(t)
<1>0. at[t] \in Workers /\ awaiting[t] = NoWorker /\ lease \in Workers \cup {NoWorker}
  BY DEF Fits, TxnFits, InTown, Over, Reading, TypeOK, MainTypeOK
<1>1. /\ pc'[t] \in {"townQueued", "locking", "holding"}
      /\ pc'[t] # "holding" => awaiting'[t] = NoWorker
      /\ pc'[t] = "locking" => t \notin orphans
      /\ pc'[t] = "holding" => awaiting'[t] \in Workers /\ (awaiting'[t] # at[t] \/ t \in orphans)
  BY <1>0 DEF BorrowLock, TypeOK, TxnsTypeOK
<1>2. TxnFits(t)'
  BY <1>1, NamesAssumption DEF Fits, TxnFits, InTown, Early, Reading, InTownLock, Over
<1>3. \A v \in Workers : t \notin Items(chain'[v]) /\ t \notin holds'[v] /\ t \notin Items(writes'[v])
  BY NowhereQueued DEF Over, InWork, workerVars
<1>4. RoomFits(t)' /\ Elsewhere(t)' /\ \A v \in Workers : t \notin asked'[v]
  BY <1>3, NoRoom DEF Elsewhere, workerVars
<1>5. MailFits(t)'
  <2>1. CASE down' = down BY <1>4, <2>1, PostedNone
  <2>2. ASSUME NEW x, down' = Post(down, at[t], Msg(x, t, NoVal)), x = "refused", pc' = [pc EXCEPT ![t] = "locking"], awaiting' = awaiting
        PROVE  MailFits(t)'
    <3>1. PICK m : m = Msg("refused", t, NoVal) /\ m.who = t /\ m.op = "refused" BY MsgIs
    <3>2. PICK w \in Workers : w = at[t] BY <1>0
    <3>3. DownFits(t, m, w)' BY <1>0, <2>2, <3>1, <3>2 DEF DownFits, Works, TypeOK, TxnsTypeOK
    <3> QED BY <1>4, <2>2, <3>1, <3>2, <3>3, PostedDown
  <2>3. ASSUME lease \in Workers, down' = Post(down, lease, Msg("hold", t, NoVal)),
               pc' = [pc EXCEPT ![t] = "holding"], awaiting' = [awaiting EXCEPT ![t] = lease]
        PROVE  MailFits(t)'
    <3>1. PICK m : m = Msg("hold", t, NoVal) /\ m.who = t /\ m.op = "hold" BY MsgIs
    <3>2. PICK w \in Workers : w = lease BY <2>3
    <3>3. DownFits(t, m, w)' BY <2>3, <3>1, <3>2 DEF DownFits, Calls, TypeOK, TxnsTypeOK
    <3> QED BY <1>4, <2>3, <3>1, <3>2, <3>3, PostedDown
  <2> QED BY <1>0, <2>1, <2>2, <2>3 DEF BorrowLock
<1>6. DownMoves(t) BY MsgIs DEF BorrowLock, DownMoves
<1>7. OthersStay(t)
  BY DEF BorrowLock, OthersStay, SameState, SameWork, workerVars, TypeOK, TxnsTypeOK
<1> QED BY <1>2, <1>4, <1>5, <1>6, <1>7 DEF Fits

LEMMA LockAskedFits ==
  ASSUME TypeOK, AllFit, NEW w \in Workers, LockAsked(w)
  PROVE  AllFit' /\ Moves(Head(up[w]).who)
<1>0. up[w] # <<>> /\ Head(up[w]).op = "lock" /\ TakeUp(w) BY DEF LockAsked, UpIs
<1>m. PICK t \in Txns : t = Head(up[w]).who BY <1>0, UpHead
<1>1. /\ Fits(t) /\ BorrowLock(t)
      /\ UNCHANGED <<storage, lease, borrowed, workerVars, at, ref, copy, base, granted, orphans,
                 lost, behind, visitVars, ghostVars>>
  BY <1>m DEF LockAsked, AllFit
<1>2. pc[t] = "locking"
  <2>1. UpFits(t, Head(up[w]), w) BY <1>0, <1>1, <1>m, HeadAbout DEF Fits, MailFits
  <2> QED BY <1>0, <2>1 DEF UpFits, Works
<1>3. Clear(up', t) /\ Clear(down, t) /\ Elsewhere(t)
  BY <1>0, <1>1, <1>2, <1>m, TakenUp DEF Over
<1>4. Fits(t)' /\ DownMoves(t) /\ OthersStay(t) BY <1>1, <1>2, <1>3, Borrowing
<1>5. Moves(t) BY <1>0, <1>1, <1>m, <1>4 DEF Moves, UpMoves, ChainMoves, WritesMove, workerVars
<1> QED BY <1>m, <1>4, <1>5, StepFits

LEMMA BorrowAgainFits ==
  ASSUME TypeOK, AllFit, NEW t \in Txns, BorrowAgain(t)
  PROVE  AllFit' /\ Moves(t)
<1>1. /\ Fits(t) /\ BorrowLock(t) /\ pc[t] = "awaitRelease" /\ up' = up
      /\ UNCHANGED <<storage, lease, borrowed, workerVars, at, ref, copy, base, granted, orphans,
                 lost, behind, visitVars, ghostVars>>
  BY DEF BorrowAgain, AllFit
<1>2. Unplaced(t) BY <1>1, IdleIs DEF Idle, Over
<1>3. Fits(t)' /\ DownMoves(t) /\ OthersStay(t) BY <1>1, <1>2, Borrowing DEF Unplaced
<1>4. Moves(t) BY <1>1, <1>3 DEF Moves, UpMoves, ChainMoves, WritesMove, workerVars
<1> QED BY <1>3, <1>4, StepFits

LEMMA TownTurnFits ==
  ASSUME TypeOK, AllFit, NEW t \in Txns, TownTurn(t)
  PROVE  AllFit' /\ Moves(t)
<1>1. /\ Fits(t) /\ pc[t] = "townQueued" /\ borrowed[t] = NoWorker
      /\ UNCHANGED <<storage, lease, workerVars, up, at, awaiting, ref, copy, base, granted,
                 orphans, handedBack, lost, behind, visitVars, ghostVars>>
  BY DEF TownTurn, AllFit
<1>2. Unplaced(t) /\ at[t] \in Workers /\ awaiting[t] = NoWorker
  BY <1>1, IdleIs, NamesAssumption DEF Idle, Over, Fits, TxnFits, InTown, Reading
<1>3. \A v \in Workers : t \notin Items(chain'[v]) /\ t \notin holds'[v] /\ t \notin Items(writes'[v])
  BY <1>1, NowhereQueued DEF Over, InWork, workerVars
<1>4. RoomFits(t)' /\ Elsewhere(t)' /\ \A v \in Workers : t \notin asked'[v]
  BY <1>1, <1>2, <1>3, NoRoom DEF Unplaced, Elsewhere, workerVars
<1>5. Moves(t)
  <2>1. UpMoves(t) /\ DownMoves(t) /\ ChainMoves(t) /\ WritesMove(t)
    BY <1>1, MsgIs DEF TownTurn, UpMoves, DownMoves, ChainMoves, WritesMove, workerVars
  <2>2. OthersStay(t)
    BY <1>1 DEF TownTurn, OthersStay, SameState, SameWork, workerVars, TypeOK, TxnsTypeOK, MainTypeOK
  <2> QED BY <2>1, <2>2 DEF Moves
<1>6. CASE t \in orphans
  <2>1. pc'[t] = "failed" /\ borrowed' = borrowed /\ down' = down
    BY <1>6 DEF TownTurn, TypeOK, TxnsTypeOK
  <2>2. TxnFits(t)'
    BY <1>1, <1>2, <2>1, NamesAssumption DEF Fits, TxnFits, InTown, Early, Reading, InTownLock, Over
  <2>3. MailFits(t)' BY <1>1, <1>2, <1>4, <2>1, PostedNone DEF Unplaced
  <2> QED BY <1>4, <1>5, <2>2, <2>3, StepFits DEF Fits
<1>7. CASE t \notin orphans
  <2>1. PICK m : m = Msg("grant", t, NoVal) /\ m.who = t /\ m.op = "grant" /\ m.val = NoVal
    BY MsgIs
  <2>2. PICK w \in Workers : w = at[t] BY <1>2
  <2>3. pc' = pc /\ borrowed'[t] = Main /\ down' = Post(down, w, m)
    BY <1>7, <2>1, <2>2 DEF TownTurn, TypeOK, TxnsTypeOK, MainTypeOK
  <2>4. TxnFits(t)'
    BY <1>1, <1>2, <2>3, NamesAssumption DEF Fits, TxnFits, InTown, Early, Reading, InTownLock, Over
  <2>5. DownFits(t, m, w)' BY <1>1, <1>2, <1>7, <2>1, <2>2, <2>3 DEF DownFits, Works
  <2>6. MailFits(t)' BY <1>1, <1>2, <1>4, <2>1, <2>3, <2>5, PostedDown DEF Unplaced
  <2> QED BY <1>4, <1>5, <2>4, <2>6, StepFits DEF Fits
<1> QED BY <1>6, <1>7

\* The message a thread takes is the only one.
LEMMA LoneHead ==
  ASSUME TypeOK, NEW w \in Workers, NEW t
  PROVE  /\ up[w] # <<>> /\ Head(up[w]).who = t /\ OneAbout(up[w], t) => About(up[w], t) = {Head(up[w])}
         /\ down[w] # <<>> /\ Head(down[w]).who = t /\ OneAbout(down[w], t) => About(down[w], t) = {Head(down[w])}
<1>1. ASSUME NEW S, NEW s \in Seq(S), s # <<>>, Head(s).who = t, OneAbout(s, t) PROVE About(s, t) = {Head(s)}
  <2>1. PICK r : r = Tail(s) OBVIOUS
  <2>2. About(s, t) = {Head(s)} \cup About(r, t) /\ About(r, t) = {} BY <1>1, <2>1, ItemsTaken
  <2> QED BY <2>2
<1>2. up[w] \in Seq(UpMsg) /\ down[w] \in Seq(DownMsg) BY DEF TypeOK, ChannelsTypeOK
<1> QED BY <1>1, <1>2

LEMMA HoldAnsweredFits ==
  ASSUME TypeOK, AllFit, NEW w \in Workers, HoldAnswered(w)
  PROVE  AllFit' /\ Moves(Head(up[w]).who)
<1>0. up[w] # <<>> /\ Head(up[w]).op = "held" /\ TakeUp(w) BY DEF HoldAnswered, UpIs
<1>m. PICK t \in Txns : t = Head(up[w]).who BY <1>0, UpHead
<1>1. /\ Fits(t) /\ awaiting' = [awaiting EXCEPT ![t] = NoWorker]
      /\ UNCHANGED <<storage, lease, mainChain, workerVars, at, ref, copy, base, granted,
                 orphans, handedBack, lost, behind, visitVars, ghostVars>>
  BY <1>m DEF HoldAnswered, AllFit
<1>2. pc[t] = "holding" /\ awaiting[t] = w
  <2>1. UpFits(t, Head(up[w]), w) BY <1>0, <1>1, <1>m, HeadAbout DEF Fits, MailFits
  <2> QED BY <1>0, <2>1 DEF UpFits, Calls
<1>3. Clear(up', t) /\ Clear(down, t) /\ Elsewhere(t)
  BY <1>0, <1>1, <1>2, <1>m, TakenUp DEF Over
<1>4. About(up[w], t) = {Head(up[w])}
  BY <1>0, <1>1, <1>2, <1>m, LoneHead DEF Fits, MailFits, Over, OneErrand
<1>5. /\ at[t] \in Workers /\ borrowed[t] = NoWorker /\ (t \notin orphans => w # at[t])
      /\ awaiting'[t] = NoWorker /\ w # NoWorker
  BY <1>1, <1>2, NamesAssumption DEF Fits, TxnFits, InTown, Over, TypeOK, TxnsTypeOK
<1>6. \A v \in Workers :
        /\ t \in holds[v] => v = w /\ Head(up[w]).val # NoVal
        /\ t \in Items(chain[v]) => t \in holds[v]
        /\ t \notin Items(writes[v])
  <2>1. RoomFits(t) BY <1>1 DEF Fits
  <2> QED BY <1>2, <1>3, <1>4, <1>5, <2>1 DEF RoomFits, InWork, Over, Calls, Elsewhere, HoldQueued
<1>7. Moves(t)
  <2>1. UpMoves(t) /\ DownMoves(t) /\ ChainMoves(t) /\ WritesMove(t)
    BY <1>0, <1>1, <1>m, MsgIs DEF HoldAnswered, UpMoves, DownMoves, ChainMoves, WritesMove, workerVars
  <2>2. OthersStay(t)
    BY <1>0, <1>1, <1>m DEF HoldAnswered, OthersStay, SameState, SameWork, workerVars, TypeOK, TxnsTypeOK, MainTypeOK
  <2> QED BY <2>1, <2>2 DEF Moves
<1>8. CASE Head(up[w]).val = NoVal
  <2>1. pc'[t] = "awaitRelease" /\ borrowed' = borrowed /\ down' = down
    BY <1>8, <1>m DEF HoldAnswered, TypeOK, TxnsTypeOK
  <2>2. TxnFits(t)'
    BY <1>1, <1>2, <1>5, <2>1 DEF Fits, TxnFits, InTown, Early, Reading, InTownLock, Over
  <2>3. RoomFits(t)' BY <1>1, <1>6, <1>8, NoRoom DEF workerVars
  <2>4. MailFits(t)' BY <1>1, <1>3, <2>1, PostedNone DEF Elsewhere, workerVars
  <2> QED BY <1>m, <1>7, <2>2, <2>3, <2>4, StepFits DEF Fits
<1>9. CASE Head(up[w]).val # NoVal /\ t \in orphans
  <2>1. PICK m : m = Msg("unhold", t, NoVal) /\ m.who = t /\ m.op = "unhold" BY MsgIs
  <2>2. pc'[t] = "failed" /\ borrowed' = borrowed /\ down' = Post(down, w, m)
    BY <1>9, <1>m, <2>1 DEF HoldAnswered, TypeOK, TxnsTypeOK
  <2>3. TxnFits(t)'
    BY <1>1, <1>2, <1>5, <2>2, NamesAssumption DEF Fits, TxnFits, InTown, Early, Reading, InTownLock, Over
  <2>4. RoomFits(t)' /\ Elsewhere(t)'
    BY <1>1, <1>3, <1>6, <2>2 DEF RoomFits, Over, Elsewhere, HoldQueued, Applied, workerVars
  <2>5. DownFits(t, m, w)' BY <2>1, <2>2 DEF DownFits, Over
  <2>6. MailFits(t)' BY <1>3, <2>1, <2>2, <2>4, <2>5, PostedDown
  <2> QED BY <1>m, <1>7, <2>3, <2>4, <2>6, StepFits DEF Fits
<1>10. CASE Head(up[w]).val # NoVal /\ t \notin orphans
  <2>1. PICK m : m = Msg("grant", t, Head(up[w]).val) /\ m.who = t /\ m.op = "grant" /\ m.val # NoVal
    BY <1>10, MsgIs
  <2>2. PICK b \in Workers : b = at[t] BY <1>5
  <2>3. pc' = pc /\ borrowed'[t] = w /\ down' = Post(down, b, m)
    BY <1>10, <1>m, <2>1, <2>2 DEF HoldAnswered, TypeOK, TxnsTypeOK, MainTypeOK
  <2>4. TxnFits(t)'
    BY <1>1, <1>2, <1>5, <1>10, <2>3, NamesAssumption DEF Fits, TxnFits, InTown, Early, Reading, InTownLock, Over
  <2>5. Elsewhere(t)' BY <1>1, <1>3, <2>3 DEF Elsewhere, HoldQueued, Applied, workerVars
  <2>6. RoomFits(t)'
    <3>1. \A v \in Workers : OnceIn(chain[v], t) /\ OnceIn(writes[v], t)
      BY <1>1, <1>2 DEF Fits, RoomFits, Over
    <3> QED BY <1>1, <1>2, <1>5, <1>6, <2>3, <3>1 DEF RoomFits, workerVars, Over
  <2>7. DownFits(t, m, b)' BY <1>1, <1>2, <1>5, <1>10, <2>1, <2>2, <2>3 DEF DownFits, Works
  <2>8. MailFits(t)' BY <1>3, <2>1, <2>3, <2>5, <2>7, PostedDown
  <2> QED BY <1>m, <1>7, <2>4, <2>6, <2>8, StepFits DEF Fits
<1> QED BY <1>8, <1>9, <1>10

LEMMA PatchHeldFits ==
  ASSUME TypeOK, AllFit, NEW w \in Workers, PatchHeld(w)
  PROVE  AllFit' /\ Moves(Head(up[w]).who)
<1>0. up[w] # <<>> /\ Head(up[w]).op = "patch" /\ TakeUp(w) BY DEF PatchHeld, UpIs
<1>m. PICK t \in Txns : t = Head(up[w]).who BY <1>0, UpHead
<1>1. /\ Fits(t)
      /\ UNCHANGED <<storage, mainVars, workerVars, pc, at, ref, copy, base, granted, orphans,
                 handedBack, lost, behind, visitVars, ghostVars>>
  BY <1>m DEF PatchHeld, AllFit
<1>2. pc[t] = "patching" /\ at[t] = w /\ awaiting[t] = NoWorker /\ PatchOf(t, Head(up[w]))
  <2>1. UpFits(t, Head(up[w]), w) BY <1>0, <1>1, <1>m, HeadAbout DEF Fits, MailFits
  <2> QED BY <1>0, <2>1 DEF UpFits, Works
<1>3. Clear(up', t) /\ Clear(down, t) /\ Elsewhere(t)
  BY <1>0, <1>1, <1>2, <1>m, TakenUp DEF Over
<1>4. Elsewhere(t)' BY <1>1, <1>3 DEF Elsewhere, HoldQueued, Applied, workerVars
<1>5. TxnFits(t)'
  BY <1>0, <1>1, <1>2, <1>m DEF Fits, TxnFits, mainVars, InTown, Early, Reading, InTownLock, Over
<1>6. RoomFits(t)'
  <2>1. \A v \in Workers : t \notin Items(writes[v])
    BY <1>1, <1>2, NamesAssumption DEF Fits, RoomFits, Calls
  <2> QED BY <1>1, <1>2, <2>1 DEF Fits, RoomFits, workerVars, Calls, InWork, Over
<1>7. Moves(t)
  <2>1. UpMoves(t) /\ DownMoves(t) /\ ChainMoves(t) /\ WritesMove(t)
    BY <1>0, <1>1, <1>m, MsgIs DEF PatchHeld, UpMoves, DownMoves, ChainMoves, WritesMove, workerVars
  <2>2. OthersStay(t)
    BY <1>0, <1>1, <1>m DEF PatchHeld, OthersStay, SameState, SameWork, workerVars, mainVars, TypeOK, TxnsTypeOK
  <2> QED BY <2>1, <2>2 DEF Moves
<1>8. CASE borrowed[t] \in Workers
  <2>1. PICK m : m = Head(up[w]) /\ m.who = t /\ m.op = "patch" /\ PatchOf(t, m)
    BY <1>0, <1>2, <1>m
  <2>2. PICK b \in Workers : b = borrowed[t] BY <1>8
  <2>3. down' = Post(down, b, m) /\ awaiting'[t] = b /\ at[t] # b
    BY <1>1, <1>8, <1>m, <2>1, <2>2 DEF PatchHeld, Fits, TxnFits, TypeOK, TxnsTypeOK
  <2>4. DownFits(t, m, b)' BY <1>1, <1>2, <2>1, <2>3 DEF DownFits, Calls, PatchOf
  <2>5. MailFits(t)' BY <1>3, <1>4, <2>1, <2>3, <2>4, PostedDown
  <2> QED BY <1>m, <1>5, <1>6, <1>7, <2>5, StepFits DEF Fits
<1>9. CASE borrowed[t] \notin Workers
  <2>1. PICK m : m = Msg("patched", t, NoVal) /\ m.who = t /\ m.op = "patched" BY MsgIs
  <2>2. down' = Post(down, w, m) /\ awaiting' = awaiting BY <1>9, <1>m, <2>1 DEF PatchHeld
  <2>3. DownFits(t, m, w)' BY <1>1, <1>2, <2>1, <2>2 DEF DownFits, Works
  <2>4. MailFits(t)' BY <1>3, <1>4, <2>1, <2>2, <2>3, PostedDown
  <2> QED BY <1>m, <1>5, <1>6, <1>7, <2>4, StepFits DEF Fits
<1> QED BY <1>8, <1>9

LEMMA PatchAnsweredFits ==
  ASSUME TypeOK, AllFit, NEW w \in Workers, PatchAnswered(w)
  PROVE  AllFit' /\ Moves(Head(up[w]).who)
<1>0. up[w] # <<>> /\ Head(up[w]).op = "patched" /\ TakeUp(w) BY DEF PatchAnswered, UpIs
<1>m. PICK t \in Txns : t = Head(up[w]).who BY <1>0, UpHead
<1>1. /\ Fits(t) /\ awaiting' = [awaiting EXCEPT ![t] = IF @ = w THEN NoWorker ELSE @]
      /\ down' = IF pc[t] = "patching" THEN Post(down, at[t], Head(up[w])) ELSE down
      /\ UNCHANGED <<storage, mainVars, workerVars, pc, at, ref, copy, base, granted, orphans,
                 handedBack, lost, behind, visitVars, ghostVars>>
  BY <1>m DEF PatchAnswered, AllFit
<1>2. UpFits(t, Head(up[w]), w) BY <1>0, <1>1, <1>m, HeadAbout DEF Fits, MailFits
<1>3. Moves(t)
  <2>1. UpMoves(t) /\ DownMoves(t) /\ ChainMoves(t) /\ WritesMove(t)
    BY <1>0, <1>1, <1>m DEF UpMoves, DownMoves, ChainMoves, WritesMove, workerVars
  <2>2. OthersStay(t)
    BY <1>0, <1>1, <1>m DEF OthersStay, SameState, SameWork, workerVars, mainVars, TypeOK, TxnsTypeOK
  <2> QED BY <2>1, <2>2 DEF Moves
<1>4. CASE pc[t] = "failed"
  <2>1. pc' = pc /\ down' = down /\ awaiting'[t] = awaiting[t]
    BY <1>1, <1>4 DEF Fits, TxnFits, Reading, TypeOK, TxnsTypeOK
  <2>2. \A v \in Workers : About(up'[v], t) \subseteq About(up[v], t)
    BY <1>0, Taking DEF TakeUp, TypeOK, ChannelsTypeOK
  <2>3. Fits(t)' BY <1>1, <1>4, <2>1, <2>2, StaysOver DEF Over, workerVars, mainVars
  <2> QED BY <1>m, <1>3, <2>3, StepFits
<1>5. CASE pc[t] # "failed"
  <2>1. pc[t] = "patching" /\ awaiting[t] = w BY <1>0, <1>2, <1>5 DEF UpFits, Calls
  <2>2. Clear(up', t) /\ Clear(down, t) /\ Elsewhere(t)
    BY <1>0, <1>1, <1>m, <2>1, TakenUp DEF Over
  <2>3. awaiting'[t] = NoWorker /\ pc' = pc BY <1>1, <2>1 DEF TypeOK, TxnsTypeOK
  <2>4. PICK m : m = Head(up[w]) /\ m.who = t /\ m.op = "patched" BY <1>0, <1>m
  <2>5. PICK b \in Workers : b = at[t] BY <1>1, <2>1 DEF Fits, TxnFits, InTown, Over
  <2>6. down' = Post(down, b, m) BY <1>1, <2>1, <2>4, <2>5
  <2>7. TxnFits(t)'
    BY <1>1, <2>1, <2>3 DEF Fits, TxnFits, mainVars, InTown, Early, Reading, InTownLock, Over
  <2>8. RoomFits(t)'
    <3>1. \A v \in Workers : t \notin Items(writes[v])
      BY <1>1, <2>1, <2>2 DEF Fits, RoomFits, Elsewhere, Applied
    <3> QED BY <1>1, <2>1, <2>3, <3>1 DEF Fits, RoomFits, workerVars, Calls, InWork, Over
  <2>9. Elsewhere(t)' BY <1>1, <2>2, <2>3 DEF Elsewhere, HoldQueued, Applied, workerVars
  <2>10. DownFits(t, m, b)' BY <1>1, <2>1, <2>3, <2>4, <2>5 DEF DownFits, Works
  <2>11. MailFits(t)' BY <2>2, <2>4, <2>6, <2>9, <2>10, PostedDown
  <2> QED BY <1>m, <1>3, <2>7, <2>8, <2>11, StepFits DEF Fits
<1> QED BY <1>4, <1>5

LEMMA AccountAskedFits ==
  ASSUME TypeOK, AllFit, NEW w \in Workers, AccountAsked(w)
  PROVE  AllFit' /\ Moves(Head(up[w]).who)
<1>0. up[w] # <<>> /\ Head(up[w]).op = "account" /\ TakeUp(w) BY DEF AccountAsked, UpIs
<1>m. PICK t \in Txns : t = Head(up[w]).who BY <1>0, UpHead
<1>1. /\ Fits(t)
      /\ UNCHANGED <<storage, mainVars, workerVars, pc, at, ref, copy, base, granted, orphans,
                 handedBack, lost, behind, visitVars, ghostVars>>
  BY <1>m DEF AccountAsked, AllFit
<1>2. pc[t] = "wasking" /\ at[t] = w /\ awaiting[t] = NoWorker
  <2>1. UpFits(t, Head(up[w]), w) BY <1>0, <1>1, <1>m, HeadAbout DEF Fits, MailFits
  <2> QED BY <1>0, <2>1 DEF UpFits, Works
<1>3. Clear(up', t) /\ Clear(down, t) /\ Elsewhere(t)
  BY <1>0, <1>1, <1>2, <1>m, TakenUp DEF Over
<1>4. Elsewhere(t)' BY <1>1, <1>3 DEF Elsewhere, HoldQueued, Applied, workerVars
<1>5. TxnFits(t)'
  BY <1>0, <1>1, <1>2, <1>m DEF Fits, TxnFits, mainVars, InTown, Early, Reading, InTownLock, Over
<1>6. RoomFits(t)'
  BY <1>1, <1>2, NamesAssumption DEF Fits, RoomFits, workerVars, Calls, InWork, Over
<1>7. Moves(t)
  <2>1. UpMoves(t) /\ DownMoves(t) /\ ChainMoves(t) /\ WritesMove(t)
    BY <1>0, <1>1, <1>m, MsgIs DEF AccountAsked, UpMoves, DownMoves, ChainMoves, WritesMove, workerVars
  <2>2. OthersStay(t)
    BY <1>0, <1>1, <1>m DEF AccountAsked, OthersStay, SameState, SameWork, workerVars, mainVars, TypeOK, TxnsTypeOK
  <2> QED BY <2>1, <2>2 DEF Moves
<1>8. CASE OwnerOf \in {NoWorker, w}
  <2>1. PICK m : m = Msg("live", t, NoVal) /\ m.who = t /\ m.op = "live" BY MsgIs
  <2>2. down' = Post(down, w, m) /\ awaiting' = awaiting BY <1>8, <1>m, <2>1 DEF AccountAsked
  <2>3. DownFits(t, m, w)' BY <1>1, <1>2, <2>1, <2>2 DEF DownFits, Works
  <2>4. MailFits(t)' BY <1>3, <1>4, <2>1, <2>2, <2>3, PostedDown
  <2> QED BY <1>m, <1>5, <1>6, <1>7, <2>4, StepFits DEF Fits
<1>9. CASE OwnerOf \notin {NoWorker, w}
  <2>1. PICK m : m = Msg("account", t, NoVal) /\ m.who = t /\ m.op = "account" BY MsgIs
  <2>2. PICK b \in Workers : b = OwnerOf BY <1>9 DEF OwnerOf, TypeOK, MainTypeOK
  <2>3. down' = Post(down, b, m) /\ awaiting'[t] = b
    BY <1>9, <1>m, <2>1, <2>2 DEF AccountAsked, TypeOK, TxnsTypeOK
  <2>4. DownFits(t, m, b)' BY <1>1, <1>2, <2>1, <2>3 DEF DownFits, Calls, Reading
  <2>5. MailFits(t)' BY <1>3, <1>4, <2>1, <2>3, <2>4, PostedDown
  <2> QED BY <1>m, <1>5, <1>6, <1>7, <2>5, StepFits DEF Fits
<1> QED BY <1>8, <1>9

LEMMA LockReturnedFits ==
  ASSUME TypeOK, AllFit, NEW w \in Workers, LockReturned(w)
  PROVE  AllFit' /\ Moves(Head(up[w]).who)
<1>0. up[w] # <<>> /\ Head(up[w]).op = "unlock" /\ TakeUp(w) BY DEF LockReturned, UpIs
<1>m. PICK t \in Txns : t = Head(up[w]).who BY <1>0, UpHead
<1>1. /\ Fits(t) /\ borrowed' = [borrowed EXCEPT ![t] = NoWorker]
      /\ down' = IF borrowed[t] \in Workers
                    THEN Post(down, borrowed[t], Msg("unhold", t, NoVal))
                    ELSE down
      /\ UNCHANGED <<storage, lease, workerVars, txnVars, visitVars, ghostVars>>
  BY <1>m DEF LockReturned, AllFit
<1>2. Over(t)
  <2>1. UpFits(t, Head(up[w]), w) BY <1>0, <1>1, <1>m, HeadAbout DEF Fits, MailFits
  <2> QED BY <1>0, <2>1 DEF UpFits
<1>3. Moves(t)
  <2>1. UpMoves(t) /\ DownMoves(t) /\ ChainMoves(t) /\ WritesMove(t)
    BY <1>0, <1>1, <1>m, MsgIs DEF UpMoves, DownMoves, ChainMoves, WritesMove, workerVars
  <2>2. OthersStay(t)
    BY <1>0, <1>1, <1>m DEF OthersStay, SameState, SameWork, workerVars, txnVars, TypeOK, MainTypeOK
  <2> QED BY <2>1, <2>2 DEF Moves
<1>4. \A v \in Workers : About(up'[v], t) \subseteq About(up[v], t)
  BY <1>0, Taking DEF TakeUp, TypeOK, ChannelsTypeOK
<1>5. \A v \in Workers : \A m \in About(down'[v], t) : m \in About(down[v], t) \/ DownFits(t, m, v)'
  <2>1. \A m, v : m.op = "unhold" => DownFits(t, m, v)'
    BY <1>1, <1>2 DEF DownFits, Over, txnVars
  <2>2. PICK b, u : b = borrowed[t] /\ u = Msg("unhold", t, NoVal) /\ u.op = "unhold" BY MsgIs
  <2>3. down \in [Workers -> Seq(DownMsg)] BY DEF TypeOK, ChannelsTypeOK
  <2>4. ASSUME NEW v \in Workers PROVE \A m \in About(Post(down, b, u)[v], t) : m \in About(down[v], t) \/ (m = u /\ v = b)
    BY <2>3, Posting
  <2>5. down' = Post(down, b, u) \/ down' = down BY <1>1, <2>2
  <2> QED BY <2>1, <2>2, <2>4, <2>5
<1>6. borrowed'[t] = NoWorker BY <1>1 DEF TypeOK, MainTypeOK
<1>7. Fits(t)' BY <1>1, <1>2, <1>4, <1>5, <1>6, StaysOver DEF workerVars, txnVars
<1> QED BY <1>m, <1>3, <1>7, StepFits

LEMMA LostLockReturnedFits ==
  ASSUME TypeOK, AllFit, NEW t \in Txns, LostLockReturned(t)
  PROVE  AllFit' /\ Moves(t)
<1>1. /\ Fits(t) /\ borrowed' = [borrowed EXCEPT ![t] = NoWorker]
      /\ down' = IF borrowed[t] \in Workers
                    THEN Post(down, borrowed[t], Msg("unhold", t, NoVal))
                    ELSE down
      /\ lost' = lost \ {t}
      /\ UNCHANGED <<storage, lease, workerVars, up, pc, at, awaiting, ref, copy, base, granted,
                 orphans, behind, handedBack, visitVars, ghostVars>>
  BY DEF LostLockReturned, AllFit
<1>2. Over(t) BY <1>1 DEF LostLockReturned, Fits, TxnFits
<1>3. Moves(t)
  <2>1. UpMoves(t) /\ DownMoves(t) /\ ChainMoves(t) /\ WritesMove(t)
    BY <1>1, MsgIs DEF UpMoves, DownMoves, ChainMoves, WritesMove, workerVars
  <2>2. OthersStay(t)
    BY <1>1 DEF OthersStay, SameState, SameWork, workerVars, TypeOK, MainTypeOK
  <2> QED BY <2>1, <2>2 DEF Moves
<1>5. \A v \in Workers : \A m \in About(down'[v], t) : m \in About(down[v], t) \/ DownFits(t, m, v)'
  <2>1. \A m, v : m.op = "unhold" => DownFits(t, m, v)' BY <1>1, <1>2 DEF DownFits, Over
  <2>2. PICK b, u : b = borrowed[t] /\ u = Msg("unhold", t, NoVal) /\ u.op = "unhold" BY MsgIs
  <2>3. down \in [Workers -> Seq(DownMsg)] BY DEF TypeOK, ChannelsTypeOK
  <2>4. ASSUME NEW v \in Workers PROVE \A m \in About(Post(down, b, u)[v], t) : m \in About(down[v], t) \/ (m = u /\ v = b)
    BY <2>3, Posting
  <2>5. down' = Post(down, b, u) \/ down' = down BY <1>1, <2>2
  <2> QED BY <2>1, <2>2, <2>4, <2>5
<1>6. borrowed'[t] = NoWorker BY <1>1 DEF TypeOK, MainTypeOK
<1>7. Fits(t)' BY <1>1, <1>2, <1>5, <1>6, StaysOver DEF workerVars
<1> QED BY <1>3, <1>7, StepFits

LEMMA CallFailsFits ==
  ASSUME TypeOK, AllFit, NEW t \in Txns, CallFails(t)
  PROVE  AllFit' /\ Moves(t)
<1>1. /\ Fits(t) /\ awaiting[t] = Main /\ awaiting' = [awaiting EXCEPT ![t] = NoWorker]
      /\ pc[t] \in {"asking", "wasking", "patching", "holding", "forwarded"}
      /\ UNCHANGED <<storage, mainVars, workerVars, up, at, base, granted, orphans, handedBack,
                 lost, behind, visitVars, ghostVars>>
  BY DEF CallFails, AllFit
<1>2. Unplaced(t) /\ awaiting'[t] = NoWorker BY <1>1, IdleIs DEF Idle, Over, TypeOK, TxnsTypeOK
<1>3. Moves(t)
  <2>1. UpMoves(t) /\ DownMoves(t) /\ ChainMoves(t) /\ WritesMove(t)
    BY <1>1, MsgIs DEF CallFails, UpMoves, DownMoves, ChainMoves, WritesMove, workerVars
  <2>2. OthersStay(t)
    BY <1>1 DEF CallFails, OthersStay, SameState, SameWork, workerVars, mainVars, TypeOK, TxnsTypeOK
  <2> QED BY <2>1, <2>2 DEF Moves
<1>4. \A w \in Workers : awaiting[t] # w /\ t \notin Items(writes[w])
  BY <1>1, NamesAssumption DEF Fits, RoomFits, Calls
<1>5. CASE pc[t] \in {"asking", "forwarded"} \/ (pc[t] = "holding" /\ t \in orphans)
  <2>1. /\ down' = down /\ pc'[t] \in {"loaded", "failed"}
        /\ pc[t] = "holding" => pc'[t] = "failed"
        /\ pc'[t] = "loaded" => at[t] = Main /\ borrowed[t] = NoWorker /\ t \notin granted /\ t \notin lost
    BY <1>1, <1>5 DEF CallFails, TypeOK, TxnsTypeOK, Fits, TxnFits, InTown, Early, Over
  <2>2. TxnFits(t)'
    BY <1>1, <1>2, <1>5, <2>1, NamesAssumption DEF Fits, TxnFits, mainVars, InTown, Early, Reading, InTownLock, Over
  <2>3. RoomFits(t)'
    <3>1. CASE pc[t] = "holding" BY <1>1, <1>4, <2>1, <3>1 DEF RoomFits, workerVars, Over
    <3>2. CASE pc[t] # "holding"
      <4>1. \A v \in Workers : t \notin Items(chain'[v]) /\ t \notin holds'[v] /\ t \notin Items(writes'[v])
        BY <1>1, <1>5, <3>2, NowhereQueued DEF Over, InWork, workerVars
      <4> QED BY <4>1, NoRoom
    <3> QED BY <3>1, <3>2
  <2>4. MailFits(t)' BY <1>1, <1>2, <2>1, PostedNone DEF Unplaced, Elsewhere, workerVars
  <2> QED BY <1>3, <2>2, <2>3, <2>4, StepFits DEF Fits
<1>6. CASE pc[t] \in {"wasking", "patching"} \/ (pc[t] = "holding" /\ t \notin orphans)
  <2>1. PICK x : x = IF pc[t] = "wasking" THEN "live" ELSE IF pc[t] = "patching" THEN "patched" ELSE "refused"
    OBVIOUS
  <2>2. PICK m : m = Msg(x, t, NoVal) /\ m.who = t /\ m.op = x BY MsgIs
  <2>3. PICK b \in Workers : b = at[t] BY <1>1, <1>6 DEF Fits, TxnFits, InTown, Over
  <2>4. down' = Post(down, b, m) /\ pc'[t] = (IF pc[t] = "holding" THEN "locking" ELSE pc[t])
    BY <1>6, <2>1, <2>2, <2>3 DEF CallFails, TypeOK, TxnsTypeOK
  <2>5. TxnFits(t)'
    BY <1>1, <1>2, <1>6, <2>3, <2>4, NamesAssumption DEF CallFails, Fits, TxnFits, mainVars, InTown, Early, Reading, InTownLock, Over
  <2>6. RoomFits(t)' /\ Elsewhere(t)'
    <3>1. CASE pc[t] = "holding"
      <4>1. RoomFits(t) /\ borrowed[t] = NoWorker
        BY <1>1, <3>1, NamesAssumption DEF Fits, TxnFits
      <4>2. \A v \in Workers : t \notin holds[v]
        BY <1>1, <1>4, <3>1, <4>1, NamesAssumption DEF RoomFits, InWork, Over, Calls
      <4>3. \A v \in Workers : t \notin Items(chain[v])
        BY <1>4, <3>1, <4>1, <4>2 DEF RoomFits, InWork, Over, Calls
      <4> QED BY <1>1, <1>2, <1>4, <4>2, <4>3, NoRoom DEF Unplaced, Elsewhere, workerVars
    <3>2. CASE pc[t] # "holding"
      BY <1>1, <1>2, <1>4, <1>6, <2>4, <3>2 DEF Fits, RoomFits, workerVars, Calls, InWork, Over, Unplaced, Elsewhere, HoldQueued, Applied
    <3> QED BY <3>1, <3>2
  <2>7. DownFits(t, m, b)' BY <1>1, <1>2, <1>6, <2>1, <2>2, <2>3, <2>4 DEF DownFits, Works
  <2>8. MailFits(t)' BY <1>1, <1>2, <2>2, <2>4, <2>6, <2>7, PostedDown DEF Unplaced
  <2> QED BY <1>3, <2>5, <2>6, <2>8, StepFits DEF Fits
<1> QED BY <1>1, <1>5, <1>6

-----------------------------------------------------------------------------
\* Transactions on a worker.
LEMMA SecondAccountFits ==
  ASSUME TypeOK, AllFit, NEW t \in Txns, NEW w \in Workers, SecondAccount(t, w)
  PROVE  AllFit' /\ Moves(t)
<1>1. /\ Fits(t) /\ pc[t] = "new" /\ pc'[t] = "arrived" /\ at'[t] = w
      /\ UNCHANGED <<storage, mainVars, workerVars, up, down, awaiting, ref, copy, base, granted,
                 orphans, handedBack, lost, behind, visitVars, ghostVars>>
  BY DEF SecondAccount, AllFit, TypeOK, TxnsTypeOK
<1>2. Unplaced(t) BY <1>1, IdleIs DEF Idle, Over
<1>3. \A v \in Workers : t \notin Items(chain'[v]) /\ t \notin holds'[v] /\ t \notin Items(writes'[v])
  BY <1>1, NowhereQueued DEF Over, InWork, workerVars
<1>4. RoomFits(t)' BY <1>3, NoRoom
<1>5. TxnFits(t)'
  BY <1>1, NamesAssumption DEF Fits, TxnFits, mainVars, InTown, Early, Reading, InTownLock, Over
<1>6. MailFits(t)' BY <1>1, <1>2, PostedNone DEF Unplaced, Elsewhere, workerVars
<1>7. Moves(t)
  <2>1. UpMoves(t) /\ DownMoves(t) /\ ChainMoves(t) /\ WritesMove(t)
    BY <1>1 DEF UpMoves, DownMoves, ChainMoves, WritesMove, workerVars
  <2>2. OthersStay(t)
    BY <1>1 DEF SecondAccount, OthersStay, SameState, SameWork, workerVars, mainVars, TypeOK, TxnsTypeOK
  <2> QED BY <2>1, <2>2 DEF Moves
<1> QED BY <1>4, <1>5, <1>6, <1>7, StepFits DEF Fits

LEMMA RpcForwardedFits ==
  ASSUME TypeOK, AllFit, NEW w \in Workers, RpcForwarded(w)
  PROVE  AllFit' /\ Moves(Head(down[w]).who)
<1>0. down[w] # <<>> /\ Head(down[w]).op \in {"rpcOwn", "rpcOther"} /\ TakeDown(w)
  BY DEF RpcForwarded, DownIs
<1>m. PICK t \in Txns : t = Head(down[w]).who BY <1>0, DownHead
<1>1. /\ Fits(t) /\ pc'[t] \in {"arrivedOwn", "arrived"} /\ at'[t] = w /\ awaiting'[t] = NoWorker
      /\ UNCHANGED <<storage, mainVars, workerVars, up, ref, copy, base, granted,
                 orphans, handedBack, lost, behind, visitVars, ghostVars>>
  BY <1>m DEF RpcForwarded, AllFit, TypeOK, TxnsTypeOK
<1>2. pc[t] = "forwarded"
  <2>1. DownFits(t, Head(down[w]), w) BY <1>0, <1>1, <1>m, HeadAbout DEF Fits, MailFits
  <2> QED BY <1>0, <2>1 DEF DownFits, Calls
<1>3. Clear(down', t) /\ Clear(up, t) /\ Elsewhere(t)
  BY <1>0, <1>1, <1>2, <1>m, TakenDown DEF Over
<1>4. \A v \in Workers : t \notin Items(chain'[v]) /\ t \notin holds'[v] /\ t \notin Items(writes'[v])
  BY <1>1, <1>2, NowhereQueued DEF Over, InWork, workerVars
<1>5. RoomFits(t)' BY <1>4, NoRoom
<1>6. TxnFits(t)'
  BY <1>1, <1>2, NamesAssumption DEF Fits, TxnFits, mainVars, InTown, Early, Reading, InTownLock, Over
<1>7. MailFits(t)' BY <1>1, <1>3, PostedNone DEF Elsewhere, workerVars
<1>8. Moves(t)
  <2>1. UpMoves(t) /\ DownMoves(t) /\ ChainMoves(t) /\ WritesMove(t)
    BY <1>0, <1>1, <1>m DEF UpMoves, DownMoves, ChainMoves, WritesMove, workerVars
  <2>2. OthersStay(t)
    BY <1>1, <1>m DEF RpcForwarded, OthersStay, SameState, SameWork, workerVars, mainVars, TypeOK, TxnsTypeOK
  <2> QED BY <2>1, <2>2 DEF Moves
<1> QED BY <1>m, <1>5, <1>6, <1>7, <1>8, StepFits DEF Fits

\* A place taken in a chain by a transaction that had none in it.
LEMMA PostPlace ==
  ASSUME NEW S, NEW ch \in [Workers -> Seq(S)], NEW w, NEW t, NEW v \in Workers, v = w => t \notin Items(ch[v])
  PROVE  /\ t \in Items(Post(ch, w, t)[v]) => v = w \/ t \in Items(ch[v])
         /\ OnceIn(ch[v], t) => OnceIn(Post(ch, w, t)[v], t)
<1>1. PICK s \in Seq(S) : s = ch[v] OBVIOUS
<1>2. Post(ch, w, t)[v] = IF v = w THEN Append(s, t) ELSE s BY <1>1 DEF Post
<1>3. OnceIn(s, t) /\ t \notin Items(s) => OnceIn(Append(s, t), t) BY ItemsPosted
<1> QED BY <1>1, <1>2, <1>3

LEMMA WorkerLockFits ==
  ASSUME TypeOK, AllFit, NEW t \in Txns, WorkerLock(t)
  PROVE  AllFit' /\ Moves(t)
<1>1. /\ Fits(t) /\ pc[t] \in {"arrived", "arrivedOwn"}
      /\ UNCHANGED <<storage, mainVars, alive, live, releasing, writes, acquiring, holds, asked,
                    down, ref, copy, base, granted, orphans, handedBack, lost, behind, visitVars,
                    ghostVars>>
  BY DEF WorkerLock, AllFit
<1>w. PICK w \in Workers : w = at[t] BY <1>1 DEF Fits, TxnFits, InTown, Over
<1>2. Unplaced(t) /\ awaiting[t] = NoWorker
  BY <1>1, IdleIs DEF Idle, Over, Fits, TxnFits, Reading
<1>3. \A v \in Workers : t \notin Items(chain[v]) /\ t \notin holds[v] /\ t \notin Items(writes[v])
  BY <1>1, NowhereQueued DEF Over, InWork
<1>4. Moves(t)
  <2>1. UpMoves(t) /\ DownMoves(t) /\ ChainMoves(t) /\ WritesMove(t)
    BY <1>1, MsgIs DEF WorkerLock, UpMoves, DownMoves, ChainMoves, WritesMove
  <2>2. OthersStay(t)
    BY <1>1 DEF WorkerLock, OthersStay, SameState, SameWork, mainVars, TypeOK, TxnsTypeOK
  <2> QED BY <2>1, <2>2 DEF Moves
<1>5. CASE Held(w)
  <2>1. chain' = Post(chain, w, t) /\ pc'[t] = "wqueued" /\ up' = up /\ at' = at /\ awaiting' = awaiting
    BY <1>5, <1>w DEF WorkerLock, TypeOK, TxnsTypeOK
  <2>2. TxnFits(t)'
    BY <1>1, <1>2, <1>w, <2>1 DEF Fits, TxnFits, mainVars, InTown, Early, Reading, InTownLock, Over
  <2>3. RoomFits(t)' /\ Elsewhere(t)'
    <3>1. chain \in [Workers -> Seq(Txns)] BY DEF TypeOK, WorkersTypeOK
    <3>3. \A v \in Workers : OnceIn(writes[v], t) /\ OnceIn(chain[v], t)
      BY <1>3 DEF OnceIn, Items
    <3>2. \A v \in Workers : (t \in Items(chain'[v]) => v = w) /\ OnceIn(chain'[v], t)
      BY <1>3, <2>1, <3>1, <3>3, PostPlace
    <3> QED BY <1>1, <1>2, <1>3, <1>w, <2>1, <3>2, <3>3 DEF RoomFits, Unplaced, Elsewhere, HoldQueued, Applied, InWork
  <2>4. MailFits(t)' BY <1>1, <1>2, <2>1, <2>3, PostedNone DEF Unplaced, Elsewhere
  <2> QED BY <1>4, <2>2, <2>3, <2>4, StepFits DEF Fits
<1>6. CASE ~Held(w)
  <2>1. PICK x : x = IF pc[t] = "arrived" THEN "lock" ELSE "retry" OBVIOUS
  <2>2. PICK m : m = Msg(x, t, NoVal) /\ m.who = t /\ m.op = x BY MsgIs
  <2>3. /\ up' = Post(up, w, m) /\ chain' = chain
        /\ x = "lock" => pc'[t] = "locking" /\ at'[t] = w /\ awaiting'[t] = NoWorker
        /\ x = "retry" => pc'[t] = "forwarded" /\ at'[t] = Main /\ awaiting'[t] = w
    BY <1>1, <1>2, <1>6, <1>w, <2>1, <2>2 DEF WorkerLock, TypeOK, TxnsTypeOK
  <2>4. TxnFits(t)'
    BY <1>1, <1>2, <2>1, <2>3, NamesAssumption DEF Fits, TxnFits, mainVars, InTown, Early, Reading, InTownLock, Over
  <2>5. RoomFits(t)' /\ Elsewhere(t)' BY <1>1, <1>2, <1>3, <2>3, NoRoom DEF Unplaced, Elsewhere
  <2>6. UpFits(t, m, w)' BY <2>1, <2>2, <2>3 DEF UpFits, Works, Calls
  <2>7. MailFits(t)' BY <1>1, <1>2, <2>2, <2>3, <2>5, <2>6, PostedUp DEF Unplaced
  <2> QED BY <1>4, <2>4, <2>5, <2>7, StepFits DEF Fits
<1> QED BY <1>5, <1>6

LEMMA LockGrantedFits ==
  ASSUME TypeOK, AllFit, NEW w \in Workers, LockGranted(w)
  PROVE  AllFit' /\ Moves(Head(down[w]).who)
<1>0. down[w] # <<>> /\ Head(down[w]).op = "grant" /\ TakeDown(w) BY DEF LockGranted, DownIs
<1>m. PICK t \in Txns : t = Head(down[w]).who BY <1>0, DownHead
<1>1. /\ Fits(t) /\ pc'[t] = "wqueued" /\ base'[t] = Head(down[w]).val /\ granted' = granted \cup {t}
      /\ chain' = Post(chain, w, t)
      /\ UNCHANGED <<storage, mainVars, alive, live, releasing, writes, acquiring, holds, asked, up,
                 at, awaiting, ref, copy, orphans, handedBack, lost, behind, visitVars,
                 ghostVars>>
  BY <1>m DEF LockGranted, AllFit, TypeOK, TxnsTypeOK
<1>2. /\ pc[t] \in {"townQueued", "holding"} /\ at[t] = w /\ awaiting[t] = NoWorker
      /\ Head(down[w]).val = NoVal => borrowed[t] = Main
      /\ pc[t] = "townQueued" => borrowed[t] = Main
      /\ t \notin orphans
  <2>1. DownFits(t, Head(down[w]), w) BY <1>0, <1>1, <1>m, HeadAbout DEF Fits, MailFits
  <2> QED BY <1>0, <2>1 DEF DownFits, Works
<1>3. Clear(down', t) /\ Clear(up, t) /\ Elsewhere(t)
  BY <1>0, <1>1, <1>2, <1>m, TakenDown DEF Over
<1>4. TxnFits(t)'
  BY <1>1, <1>2, NamesAssumption DEF Fits, TxnFits, mainVars, InTown, Early, Reading, InTownLock, Over
<1>5. \A v \in Workers :
        /\ t \in holds[v] => v # w
        /\ t \in Items(chain[v]) => t \in holds[v]
        /\ t \notin Items(writes[v])
        /\ OnceIn(chain[v], t) /\ OnceIn(writes[v], t)
  <2>1. RoomFits(t) /\ TxnFits(t) BY <1>1 DEF Fits
  <2> QED BY <1>2, <2>1, NamesAssumption DEF RoomFits, TxnFits, InWork, Over, Calls
<1>6. RoomFits(t)' /\ Elsewhere(t)'
  <2>1. chain \in [Workers -> Seq(Txns)] BY DEF TypeOK, WorkersTypeOK
  <2>2. \A v \in Workers : (t \in Items(chain'[v]) => v = w \/ t \in Items(chain[v])) /\ OnceIn(chain'[v], t)
    BY <1>1, <1>5, <2>1, PostPlace
  <2> QED BY <1>1, <1>2, <1>3, <1>5, <2>2 DEF RoomFits, Elsewhere, HoldQueued, Applied, InWork
<1>7. MailFits(t)' BY <1>1, <1>3, PostedNone DEF Elsewhere
<1>8. Moves(t)
  <2>1. UpMoves(t) /\ DownMoves(t) /\ ChainMoves(t) /\ WritesMove(t)
    BY <1>0, <1>1, <1>m DEF UpMoves, DownMoves, ChainMoves, WritesMove
  <2>2. OthersStay(t)
    BY <1>1, <1>m DEF LockGranted, OthersStay, SameState, SameWork, mainVars, TypeOK, TxnsTypeOK
  <2> QED BY <2>1, <2>2 DEF Moves
<1> QED BY <1>m, <1>4, <1>6, <1>7, <1>8, StepFits DEF Fits

LEMMA LockRefusedFits ==
  ASSUME TypeOK, AllFit, NEW w \in Workers, LockRefused(w)
  PROVE  AllFit' /\ Moves(Head(down[w]).who)
<1>0. down[w] # <<>> /\ Head(down[w]).op = "refused" /\ TakeDown(w) BY DEF LockRefused, DownIs
<1>m. PICK t \in Txns : t = Head(down[w]).who BY <1>0, DownHead
<1>1. /\ Fits(t) /\ pc'[t] = "failed"
      /\ UNCHANGED <<storage, mainVars, workerVars, up, at, awaiting, ref, copy, base, granted,
                 orphans, handedBack, lost, behind, visitVars, ghostVars>>
  BY <1>m DEF LockRefused, AllFit, TypeOK, TxnsTypeOK
<1>2. pc[t] = "locking" /\ awaiting[t] = NoWorker
  <2>1. DownFits(t, Head(down[w]), w) BY <1>0, <1>1, <1>m, HeadAbout DEF Fits, MailFits
  <2> QED BY <1>0, <2>1 DEF DownFits, Works
<1>3. Clear(down', t) /\ Clear(up, t) /\ Elsewhere(t)
  BY <1>0, <1>1, <1>2, <1>m, TakenDown DEF Over
<1>4. \A v \in Workers : t \notin Items(chain'[v]) /\ t \notin holds'[v] /\ t \notin Items(writes'[v])
  BY <1>1, <1>2, NowhereQueued DEF Over, InWork, workerVars
<1>5. RoomFits(t)' BY <1>4, NoRoom
<1>6. TxnFits(t)'
  BY <1>1, <1>2, NamesAssumption DEF Fits, TxnFits, mainVars, InTown, Early, Reading, InTownLock, Over
<1>7. MailFits(t)' BY <1>1, <1>3, PostedNone DEF Elsewhere, workerVars
<1>8. Moves(t)
  <2>1. UpMoves(t) /\ DownMoves(t) /\ ChainMoves(t) /\ WritesMove(t)
    BY <1>0, <1>1, <1>m DEF UpMoves, DownMoves, ChainMoves, WritesMove, workerVars
  <2>2. OthersStay(t)
    BY <1>1, <1>m DEF LockRefused, OthersStay, SameState, SameWork, workerVars, mainVars, TypeOK, TxnsTypeOK
  <2> QED BY <2>1, <2>2 DEF Moves
<1> QED BY <1>m, <1>5, <1>6, <1>7, <1>8, StepFits DEF Fits

LEMMA WorkerLoadFits ==
  ASSUME TypeOK, AllFit, NEW t \in Txns, WorkerLoad(t)
  PROVE  AllFit' /\ Moves(t)
<1>1. /\ Fits(t) /\ pc[t] = "wqueued"
      /\ UNCHANGED <<storage, mainVars, workerVars, down, at, awaiting, base, granted, orphans,
                    handedBack, lost, behind, visitVars, ghostVars>>
  BY DEF WorkerLoad, AllFit
<1>w. PICK w \in Workers : w = at[t] BY <1>1 DEF Fits, TxnFits, InTown, Over
<1>2. Unplaced(t) /\ awaiting[t] = NoWorker
  BY <1>1, IdleIs DEF Idle, Over, Fits, TxnFits, Reading
<1>3. Moves(t)
  <2>1. UpMoves(t) /\ DownMoves(t) /\ ChainMoves(t) /\ WritesMove(t)
    BY <1>1, MsgIs DEF WorkerLoad, UpMoves, DownMoves, ChainMoves, WritesMove, workerVars
  <2>2. OthersStay(t)
    BY <1>1 DEF WorkerLoad, OthersStay, SameState, SameWork, mainVars, workerVars, TypeOK, TxnsTypeOK
  <2> QED BY <2>1, <2>2 DEF Moves
<1>4. /\ pc'[t] \in {"wloaded", "wasking"}
      /\ pc'[t] = "wasking" => base[t] = NoVal
      /\ pc'[t] = "wloaded" => ref'[t] \in {"live", "remote"}
      /\ pc'[t] = "wloaded" /\ ref'[t] = "remote" => base[t] # NoVal /\ copy'[t] = base[t]
  BY <1>1 DEF WorkerLoad, TypeOK, TxnsTypeOK
<1>5. TxnFits(t)'
  BY <1>1, <1>2, <1>4, NamesAssumption DEF Fits, TxnFits, mainVars, InTown, Early, Reading, InTownLock, Over
<1>6. RoomFits(t)' /\ Elsewhere(t)'
  BY <1>1, <1>2, <1>4, NamesAssumption DEF Fits, RoomFits, workerVars, Calls, InWork, Over, Unplaced, Elsewhere, HoldQueued, Applied
<1>7. MailFits(t)'
  <2>1. CASE pc'[t] = "wloaded"
    <3>1. up' = up BY <1>1, <2>1 DEF WorkerLoad, TypeOK, TxnsTypeOK
    <3> QED BY <1>1, <1>2, <3>1, PostedNone DEF Unplaced, Elsewhere, workerVars
  <2>2. CASE pc'[t] = "wasking"
    <3>1. PICK m : m = Msg("account", t, NoVal) /\ m.who = t /\ m.op = "account" BY MsgIs
    <3>2. up' = Post(up, w, m) BY <1>1, <1>w, <2>2, <3>1 DEF WorkerLoad, TypeOK, TxnsTypeOK
    <3>3. UpFits(t, m, w)' BY <1>1, <1>2, <1>w, <2>2, <3>1 DEF UpFits, Works
    <3> QED BY <1>1, <1>2, <1>6, <3>1, <3>2, <3>3, PostedUp DEF Unplaced
  <2> QED BY <1>4, <2>1, <2>2
<1> QED BY <1>3, <1>5, <1>6, <1>7, StepFits DEF Fits

LEMMA WorkerReadFits ==
  ASSUME TypeOK, AllFit, NEW w \in Workers, WorkerRead(w)
  PROVE  AllFit' /\ Moves(Head(down[w]).who)
<1>0. down[w] # <<>> /\ Head(down[w]).op = "live" /\ TakeDown(w) BY DEF WorkerRead, DownIs
<1>m. PICK t \in Txns : t = Head(down[w]).who BY <1>0, DownHead
<1>1. /\ Fits(t) /\ pc'[t] = "wloaded" /\ ref'[t] \in {"own", "read"}
      /\ UNCHANGED <<storage, mainVars, workerVars, up, at, awaiting, base, granted, orphans,
                 handedBack, lost, behind, visitVars, crashes, acked>>
  BY <1>m DEF WorkerRead, AllFit, TypeOK, TxnsTypeOK
<1>2. pc[t] = "wasking" /\ awaiting[t] = NoWorker
  <2>1. DownFits(t, Head(down[w]), w) BY <1>0, <1>1, <1>m, HeadAbout DEF Fits, MailFits
  <2> QED BY <1>0, <2>1 DEF DownFits, Works
<1>3. Clear(down', t) /\ Clear(up, t) /\ Elsewhere(t)
  BY <1>0, <1>1, <1>2, <1>m, TakenDown DEF Over
<1>5. RoomFits(t)'
  BY <1>1, <1>2, NamesAssumption DEF Fits, RoomFits, workerVars, Calls, InWork, Over
<1>6. TxnFits(t)'
  BY <1>1, <1>2, NamesAssumption DEF Fits, TxnFits, mainVars, InTown, Early, Reading, InTownLock, Over
<1>7. MailFits(t)' BY <1>1, <1>3, PostedNone DEF Elsewhere, workerVars
<1>8. Moves(t)
  <2>1. UpMoves(t) /\ DownMoves(t) /\ ChainMoves(t) /\ WritesMove(t)
    BY <1>0, <1>1, <1>m DEF UpMoves, DownMoves, ChainMoves, WritesMove, workerVars
  <2>2. OthersStay(t)
    BY <1>1, <1>m DEF WorkerRead, OthersStay, SameState, SameWork, workerVars, mainVars, TypeOK, TxnsTypeOK
  <2> QED BY <2>1, <2>2 DEF Moves
<1> QED BY <1>m, <1>5, <1>6, <1>7, <1>8, StepFits DEF Fits

LEMMA WorkerSaveFits ==
  ASSUME TypeOK, AllFit, NEW t \in Txns, WorkerSave(t)
  PROVE  AllFit' /\ Moves(t)
<1>1. /\ Fits(t) /\ pc[t] = "wloaded"
      /\ UNCHANGED <<storage, mainVars, alive, releasing, acquiring, chain, holds, asked, down,
                    at, awaiting, ref, base, granted, orphans, handedBack, lost, behind,
                    visitVars, crashes, acked>>
  BY DEF WorkerSave, AllFit
<1>w. PICK w \in Workers : w = at[t] BY <1>1 DEF Fits, TxnFits, InTown, Over
<1>2. Unplaced(t) /\ awaiting[t] = NoWorker
  BY <1>1, IdleIs DEF Idle, Over, Fits, TxnFits, Reading
<1>3. Moves(t)
  <2>1. UpMoves(t) /\ DownMoves(t) /\ ChainMoves(t) /\ WritesMove(t)
    BY <1>1, MsgIs DEF WorkerSave, UpMoves, DownMoves, ChainMoves, WritesMove
  <2>2. OthersStay(t)
    BY <1>1 DEF WorkerSave, OthersStay, SameState, SameWork, mainVars, TypeOK, TxnsTypeOK
  <2> QED BY <2>1, <2>2 DEF Moves
<1>4. \A v \in Workers : t \notin Items(writes[v]) /\ OnceIn(writes[v], t) /\ OnceIn(chain[v], t)
  BY <1>1, <1>2, NamesAssumption DEF Fits, RoomFits, Calls, Over
<1>5. CASE ref[t] \in {"live", "own", "ended"}
  <2>1. writes' = Post(writes, w, t) /\ up' = up /\ pc'[t] = "writing"
    BY <1>5, <1>w DEF WorkerSave, TypeOK, TxnsTypeOK
  <2>2. TxnFits(t)'
    BY <1>1, <1>2, <2>1, NamesAssumption DEF Fits, TxnFits, mainVars, InTown, Early, Reading, InTownLock, Over
  <2>3. RoomFits(t)'
    <3>1. writes \in [Workers -> Seq(Txns \cup Visits)] BY DEF TypeOK, WorkersTypeOK
    <3>2. \A v \in Workers : (t \in Items(writes'[v]) => v = w) /\ OnceIn(writes'[v], t)
      BY <1>4, <2>1, <3>1, PostPlace
    <3> QED BY <1>1, <1>2, <1>4, <1>w, <2>1, <3>2, NamesAssumption DEF Fits, RoomFits, Calls, InWork, Over
  <2>4. MailFits(t)' BY <1>1, <1>2, <2>1, PostedNone DEF Unplaced, Elsewhere
  <2> QED BY <1>3, <2>2, <2>3, <2>4, StepFits DEF Fits
<1>6. CASE ref[t] = "remote" /\ t \in Social
  <2>1. PICK m : m = Msg("patch", t, copy[t] \cup {t}) /\ m.who = t /\ m.op = "patch" /\ m.val = copy[t] \cup {t}
    BY MsgIs
  <2>2. up' = Post(up, w, m) /\ writes' = writes /\ pc'[t] = "patching"
    BY <1>6, <1>w, <2>1 DEF WorkerSave, TypeOK, TxnsTypeOK
  <2>3. TxnFits(t)'
    BY <1>1, <1>2, <2>2, NamesAssumption DEF Fits, TxnFits, mainVars, InTown, Early, Reading, InTownLock, Over
  <2>4. RoomFits(t)' /\ Elsewhere(t)'
    BY <1>1, <1>2, <1>4, <2>2, NamesAssumption DEF Fits, RoomFits, Calls, InWork, Over, Unplaced, Elsewhere, HoldQueued, Applied
  <2>5. UpFits(t, m, w)'
    BY <1>1, <1>2, <1>6, <1>w, <2>1, <2>2 DEF UpFits, Works, PatchOf, Fits, TxnFits
  <2>6. MailFits(t)' BY <1>1, <1>2, <2>1, <2>2, <2>4, <2>5, PostedUp DEF Unplaced
  <2> QED BY <1>3, <2>3, <2>4, <2>6, StepFits DEF Fits
<1>7. CASE ref[t] = "read" \/ (ref[t] = "remote" /\ t \notin Social)
  <2>1. up' = up /\ writes' = writes /\ pc'[t] = "refused"
    BY <1>7 DEF WorkerSave, TypeOK, TxnsTypeOK
  <2>2. TxnFits(t)'
    BY <1>1, <1>2, <2>1, NamesAssumption DEF Fits, TxnFits, mainVars, InTown, Early, Reading, InTownLock, Over
  <2>3. RoomFits(t)'
    BY <1>1, <1>2, <1>4, <2>1, NamesAssumption DEF Fits, RoomFits, Calls, InWork, Over
  <2>4. MailFits(t)' BY <1>1, <1>2, <2>1, PostedNone DEF Unplaced, Elsewhere
  <2> QED BY <1>3, <2>2, <2>3, <2>4, StepFits DEF Fits
<1> QED BY <1>5, <1>6, <1>7 DEF WorkerSave

LEMMA TransactionEndsFits ==
  ASSUME TypeOK, AllFit, NEW t \in Txns, TransactionEnds(t)
  PROVE  AllFit' /\ Moves(t)
<1>1. /\ Fits(t) /\ pc[t] \in {"settled", "refused"} /\ pc'[t] \in {"done", "failed"}
      /\ Unlocking(t, at[t])
      /\ up' = IF t \in granted THEN Post(up, at[t], Msg("unlock", t, NoVal)) ELSE up
      /\ UNCHANGED <<storage, mainVars, alive, live, releasing, writes, acquiring, holds, asked,
                 down, at, awaiting, ref, copy, orphans, handedBack, lost, behind, visitVars,
                 ghostVars>>
  BY DEF TransactionEnds, AllFit, TypeOK, TxnsTypeOK
<1>w. PICK w \in Workers : w = at[t] BY <1>1 DEF Fits, TxnFits, InTown, Over
<1>2. Unplaced(t) /\ awaiting[t] = NoWorker
  BY <1>1, IdleIs DEF Idle, Over, Fits, TxnFits, Reading
<1>3. Moves(t)
  <2>3. UpMoves(t)
    <3>1. PICK m : m = Msg("unlock", t, NoVal) /\ m.who = t BY MsgIs
    <3>2. up' = Post(up, w, m) \/ up' = up BY <1>1, <1>w, <3>1
    <3> QED BY <3>1, <3>2 DEF UpMoves
  <2>4. DownMoves(t) /\ ChainMoves(t) /\ WritesMove(t)
    BY <1>1 DEF Unlocking, DownMoves, ChainMoves, WritesMove
  <2>1. UpMoves(t) /\ DownMoves(t) /\ ChainMoves(t) /\ WritesMove(t) BY <2>3, <2>4
  <2>2. OthersStay(t)
    BY <1>1 DEF TransactionEnds, Unlocking, OthersStay, SameState, SameWork, mainVars, TypeOK, TxnsTypeOK
  <2> QED BY <2>1, <2>2 DEF Moves
<1>4. \A v \in Workers : t \notin Items(writes[v])
  BY <1>1, <1>2, NamesAssumption DEF Fits, RoomFits, Calls, Over
<1>5. TxnFits(t)'
  BY <1>1, <1>2, NamesAssumption DEF Fits, TxnFits, mainVars, InTown, Early, Reading, InTownLock, Over
<1>6. RoomFits(t)' /\ Elsewhere(t)'
  BY <1>1, <1>2, <1>4 DEF RoomFits, Over, Unplaced, Elsewhere, HoldQueued, Applied
<1>7. MailFits(t)'
  <2>1. CASE t \notin granted BY <1>1, <1>2, <2>1, PostedNone DEF Unplaced, Elsewhere
  <2>2. CASE t \in granted
    <3>1. PICK m : m = Msg("unlock", t, NoVal) /\ m.who = t /\ m.op = "unlock" BY MsgIs
    <3>2. up' = Post(up, w, m) BY <1>1, <1>w, <2>2, <3>1
    <3>3. UpFits(t, m, w)' BY <1>1, <3>1 DEF UpFits, Over
    <3> QED BY <1>1, <1>2, <1>6, <3>1, <3>2, <3>3, PostedUp DEF Unplaced
  <2> QED BY <2>1, <2>2
<1> QED BY <1>3, <1>5, <1>6, <1>7, StepFits DEF Fits

LEMMA PatchSettledFits ==
  ASSUME TypeOK, AllFit, NEW w \in Workers, PatchSettled(w)
  PROVE  AllFit' /\ Moves(Head(down[w]).who)
<1>0. down[w] # <<>> /\ Head(down[w]).op = "patched" /\ TakeDown(w) BY DEF PatchSettled, DownIs
<1>m. PICK t \in Txns : t = Head(down[w]).who BY <1>0, DownHead
<1>1. /\ Fits(t) /\ pc'[t] \in {"refused", "settled"}
      /\ UNCHANGED <<storage, mainVars, workerVars, up, at, awaiting, ref, copy, base, granted,
                 orphans, handedBack, lost, behind, visitVars, ghostVars>>
  BY <1>m DEF PatchSettled, AllFit, TypeOK, TxnsTypeOK
<1>2. pc[t] = "patching" /\ awaiting[t] = NoWorker
  <2>1. DownFits(t, Head(down[w]), w) BY <1>0, <1>1, <1>m, HeadAbout DEF Fits, MailFits
  <2> QED BY <1>0, <2>1 DEF DownFits, Works
<1>3. Clear(down', t) /\ Clear(up, t) /\ Elsewhere(t)
  BY <1>0, <1>1, <1>2, <1>m, TakenDown DEF Over
<1>5. RoomFits(t)'
  BY <1>1, <1>2, NamesAssumption DEF Fits, RoomFits, workerVars, Calls, InWork, Over
<1>6. TxnFits(t)'
  BY <1>1, <1>2, NamesAssumption DEF Fits, TxnFits, mainVars, InTown, Early, Reading, InTownLock, Over
<1>7. MailFits(t)' BY <1>1, <1>3, PostedNone DEF Elsewhere, workerVars
<1>8. Moves(t)
  <2>1. UpMoves(t) /\ DownMoves(t) /\ ChainMoves(t) /\ WritesMove(t)
    BY <1>0, <1>1, <1>m DEF UpMoves, DownMoves, ChainMoves, WritesMove, workerVars
  <2>2. OthersStay(t)
    BY <1>1, <1>m DEF PatchSettled, OthersStay, SameState, SameWork, workerVars, mainVars, TypeOK, TxnsTypeOK
  <2> QED BY <2>1, <2>2 DEF Moves
<1> QED BY <1>m, <1>5, <1>6, <1>7, <1>8, StepFits DEF Fits

-----------------------------------------------------------------------------
\* A worker's live object, wanted from elsewhere.
LEMMA CallFromElsewhereFits ==
  ASSUME TypeOK, AllFit, NEW w \in Workers, CallFromElsewhere(w)
  PROVE  AllFit' /\ Moves(Head(down[w]).who)
<1>0. down[w] # <<>> /\ Head(down[w]).op \in {"hold", "account"} /\ TakeDown(w)
  BY DEF CallFromElsewhere, DownIs
<1>m. PICK t \in Txns : t = Head(down[w]).who BY <1>0, DownHead
<1>1. /\ Fits(t) /\ asked' = [asked EXCEPT ![w] = @ \cup {t}]
      /\ UNCHANGED <<storage, mainVars, alive, live, releasing, writes, acquiring, chain, holds, up,
                 pc, at, awaiting, ref, copy, base, granted, orphans, handedBack, lost, visitVars,
                 ghostVars>>
  BY <1>m DEF CallFromElsewhere, AllFit
<1>2. DownFits(t, Head(down[w]), w) BY <1>0, <1>1, <1>m, HeadAbout DEF Fits, MailFits
<1>3. \A v \in Workers : t \in asked'[v] => v = w \/ t \in asked[v]
  BY <1>1 DEF TypeOK, WorkersTypeOK
<1>4. Moves(t)
  <2>1. UpMoves(t) /\ DownMoves(t) /\ ChainMoves(t) /\ WritesMove(t)
    BY <1>0, <1>1, <1>m DEF UpMoves, DownMoves, ChainMoves, WritesMove
  <2>2. OthersStay(t)
    BY <1>1 DEF OthersStay, SameState, SameWork, mainVars, TypeOK, WorkersTypeOK
  <2> QED BY <2>1, <2>2 DEF Moves
<1>5. CASE pc[t] = "failed"
  <2>1. \A v \in Workers : About(down'[v], t) \subseteq About(down[v], t)
    BY <1>0, Taking DEF TakeDown, TypeOK, ChannelsTypeOK
  <2>2. Fits(t)' BY <1>1, <1>3, <1>5, <2>1, StaysOver DEF Over, mainVars
  <2> QED BY <1>m, <1>4, <2>2, StepFits
<1>6. CASE pc[t] # "failed"
  <2>1. Calls(t, w, Reading \cup {"holding"}) BY <1>0, <1>2, <1>6 DEF DownFits, Calls
  <2>2. Clear(down', t) /\ Clear(up, t) /\ Elsewhere(t)
    BY <1>0, <1>1, <1>6, <1>m, <2>1, TakenDown DEF Over, Calls, Reading
  <2>3. TxnFits(t)' BY <1>1 DEF Fits, TxnFits, mainVars, InTownLock, Over
  <2>4. RoomFits(t)' BY <1>1 DEF Fits, RoomFits, Over, Calls, mainVars
  <2>5. Asked(t, w)' BY <1>1, <2>2 DEF Asked, Elsewhere, TypeOK, WorkersTypeOK
  <2>6. (\A v \in Workers : ~HoldQueued(t, v) /\ ~Applied(t, v))' /\ Calls(t, w, Reading \cup {"holding"})'
    BY <1>1, <2>1, <2>2 DEF Elsewhere, HoldQueued, Applied, Calls
  <2>7. MailFits(t)' BY <1>1, <2>2, <2>5, <2>6, PostedAsked
  <2> QED BY <1>m, <1>4, <2>3, <2>4, <2>7, StepFits DEF Fits
<1> QED BY <1>5, <1>6

LEMMA LiveForElsewhereFits ==
  ASSUME TypeOK, AllFit, NEW t \in Txns, NEW w \in Workers, LiveForElsewhere(t, w)
  PROVE  AllFit' /\ Moves(t)
<1>m. PICK m : m = Msg("live", t, IF Held(w) THEN live[w] ELSE NoVal) /\ m.who = t /\ m.op = "live"
  BY MsgIs
<1>1. /\ Fits(t) /\ t \in asked[w] /\ pc[t] # "holding" /\ asked' = [asked EXCEPT ![w] = @ \ {t}]
      /\ up' = Post(up, w, m)
      /\ UNCHANGED <<storage, mainVars, alive, live, releasing, writes, acquiring, chain, holds, down,
                 pc, at, awaiting, ref, copy, base, granted, orphans, handedBack, lost, visitVars,
                 ghostVars>>
  BY <1>m DEF LiveForElsewhere, AllFit
<1>2. Calls(t, w, Reading) \/ pc[t] = "failed" BY <1>1 DEF Fits, MailFits, Calls
<1>3. \A v \in Workers : t \in asked'[v] => v # w /\ t \in asked[v]
  BY <1>1 DEF TypeOK, WorkersTypeOK
<1>4. UpFits(t, m, w)' BY <1>1, <1>2, <1>m DEF UpFits, Calls
<1>5. Moves(t)
  <2>1. UpMoves(t) /\ DownMoves(t) /\ ChainMoves(t) /\ WritesMove(t)
    BY <1>1, <1>m DEF UpMoves, DownMoves, ChainMoves, WritesMove
  <2>2. OthersStay(t)
    BY <1>1 DEF OthersStay, SameState, SameWork, mainVars, TypeOK, WorkersTypeOK
  <2> QED BY <2>1, <2>2 DEF Moves
<1>6. CASE pc[t] = "failed"
  <2>1. up \in [Workers -> Seq(UpMsg)] BY DEF TypeOK, ChannelsTypeOK
  <2>2. ASSUME NEW v \in Workers PROVE \A x \in About(up'[v], t) : x \in About(up[v], t) \/ (x = m /\ v = w)
    BY <1>1, <2>1, Posting
  <2>3. Fits(t)' BY <1>1, <1>3, <1>4, <1>6, <2>2, StaysOver DEF Over, mainVars
  <2> QED BY <1>5, <2>3, StepFits
<1>7. CASE pc[t] # "failed"
  <2>1. /\ Clear(up, t) /\ Clear(down, t)
        /\ \A v \in Workers : v # w => t \notin asked[v] /\ ~HoldQueued(t, v) /\ ~Applied(t, v)
        /\ ~HoldQueued(t, w) /\ ~Applied(t, w)
    BY <1>1, <1>2, <1>7, TakenThere DEF Over, Calls, Reading
  <2>2. TxnFits(t)' BY <1>1 DEF Fits, TxnFits, mainVars, InTownLock, Over
  <2>3. RoomFits(t)' BY <1>1, <1>2, <1>7, <2>1 DEF Fits, RoomFits, Over, Calls, Reading
  <2>4. Elsewhere(t)' BY <1>1, <1>3, <2>1 DEF Elsewhere, HoldQueued, Applied
  <2>5. MailFits(t)' BY <1>1, <1>4, <1>m, <2>1, <2>4, PostedUp
  <2> QED BY <1>5, <2>2, <2>3, <2>5, StepFits DEF Fits
<1> QED BY <1>6, <1>7

\* The object is not null.
LEMMA LiveIsNotNull == ASSUME TypeOK, NEW w \in Workers PROVE live[w] # NoVal
BY NamesAssumption DEF TypeOK, WorkersTypeOK, Values, Updates, NoVal

\* Nothing of a hold is in a worker's chain while it is only asked for, and one place once it is queued.
LEMMA HoldPlaces ==
  ASSUME TypeOK, NEW t \in Txns, Fits(t), pc[t] = "holding", NEW w \in Workers, awaiting[t] = w,
         t \in asked[w] \/ HoldQueued(t, w)
  PROVE  /\ \A v \in Workers : t \notin holds[v] /\ t \notin Items(writes[v])
         /\ \A v \in Workers : t \in Items(chain[v]) => v = w /\ HoldQueued(t, w)
<1>1. /\ Clear(up, t) /\ Clear(down, t)
      /\ \A v \in Workers : v # w => t \notin asked[v] /\ ~HoldQueued(t, v) /\ ~Applied(t, v)
      /\ t \in asked[w] => ~HoldQueued(t, w) /\ ~Applied(t, w)
      /\ ~(HoldQueued(t, w) /\ Applied(t, w))
  BY TakenThere DEF Over
<1>2. w # NoWorker BY NamesAssumption
<1>3. RoomFits(t) BY DEF Fits
<1>4. \A v \in Workers : About(up[v], t) = {} BY <1>1 DEF Clear
<1>5. \A v \in Workers : t \notin holds[v] BY <1>2, <1>3, <1>4 DEF RoomFits, InWork, Over, Calls
<1>6. \A v \in Workers : t \notin Items(writes[v]) BY <1>2, <1>3 DEF RoomFits, Calls
<1> QED BY <1>1, <1>3, <1>5, <1>6 DEF RoomFits, InWork, Over, Calls, HoldQueued

LEMMA HoldForElsewhereFits ==
  ASSUME TypeOK, AllFit, NEW t \in Txns, NEW w \in Workers, HoldForElsewhere(t, w)
  PROVE  AllFit' /\ Moves(t)
<1>1. /\ Fits(t) /\ t \in asked[w] /\ pc[t] = "holding" /\ asked' = [asked EXCEPT ![w] = @ \ {t}]
      /\ UNCHANGED <<storage, mainVars, alive, live, releasing, writes, acquiring, holds, down,
                 txnVars, visitVars, ghostVars>>
  BY DEF HoldForElsewhere, AllFit
<1>2. awaiting[t] = w BY <1>1 DEF Fits, MailFits, Calls
<1>3. \A v \in Workers : t \notin asked'[v]
  BY <1>1, <1>2, NamesAssumption DEF Fits, MailFits, Calls, TypeOK, WorkersTypeOK
<1>4. /\ Clear(up, t) /\ Clear(down, t)
      /\ \A v \in Workers : ~HoldQueued(t, v) /\ ~Applied(t, v)
  BY <1>1, TakenThere DEF Over
<1>5. \A v \in Workers : t \notin holds[v] /\ t \notin Items(writes[v]) /\ t \notin Items(chain[v])
  BY <1>1, <1>2, <1>4, HoldPlaces
<1>6. Moves(t)
  <2>1. UpMoves(t) /\ DownMoves(t) /\ ChainMoves(t) /\ WritesMove(t)
    BY <1>1, MsgIs DEF HoldForElsewhere, UpMoves, DownMoves, ChainMoves, WritesMove
  <2>2. OthersStay(t)
    BY <1>1 DEF OthersStay, SameState, SameWork, mainVars, txnVars, TypeOK, WorkersTypeOK
  <2> QED BY <2>1, <2>2 DEF Moves
<1>7. TxnFits(t)' BY <1>1 DEF Fits, TxnFits, mainVars, txnVars, InTownLock, Over
<1>8. CASE Held(w)
  <2>1. chain' = Post(chain, w, t) /\ up' = up BY <1>8 DEF HoldForElsewhere
  <2>2. RoomFits(t)'
    <3>1. chain \in [Workers -> Seq(Txns)] BY DEF TypeOK, WorkersTypeOK
    <3>2. \A v \in Workers : OnceIn(chain[v], t) /\ OnceIn(writes[v], t)
      BY <1>1 DEF Fits, RoomFits, Over
    <3>3. \A v \in Workers : (t \in Items(chain'[v]) => v = w) /\ OnceIn(chain'[v], t)
      BY <1>5, <2>1, <3>1, <3>2, PostPlace
    <3> QED BY <1>1, <1>2, <1>5, <3>2, <3>3 DEF RoomFits, Calls, txnVars
  <2>3. MailFits(t)' BY <1>1, <1>3, <1>4, <2>1, PostedNone
  <2> QED BY <1>6, <1>7, <2>2, <2>3, StepFits DEF Fits
<1>9. CASE ~Held(w)
  <2>1. PICK m : m = Msg("held", t, NoVal) /\ m.who = t /\ m.op = "held" BY MsgIs
  <2>2. up' = Post(up, w, m) /\ chain' = chain BY <1>9, <2>1 DEF HoldForElsewhere
  <2>3. RoomFits(t)' /\ Elsewhere(t)' BY <1>1, <1>3, <1>5, <2>2, NoRoom DEF Elsewhere
  <2>4. UpFits(t, m, w)' BY <1>1, <1>2, <2>1 DEF UpFits, Calls, txnVars
  <2>5. MailFits(t)' BY <1>1, <1>4, <2>1, <2>2, <2>3, <2>4, PostedUp
  <2> QED BY <1>6, <1>7, <2>3, <2>5, StepFits DEF Fits
<1> QED BY <1>8, <1>9

LEMMA HoldTurnFits ==
  ASSUME TypeOK, AllFit, NEW t \in Txns, NEW w \in Workers, HoldTurn(t, w)
  PROVE  AllFit' /\ Moves(t)
<1>1. /\ Fits(t) /\ IsHead(t, chain[w]) /\ pc[t] = "holding" /\ awaiting[t] = w /\ t \notin holds[w]
      /\ UNCHANGED <<storage, mainVars, alive, live, releasing, writes, acquiring, asked, down,
                 txnVars, visitVars, ghostVars>>
  BY DEF HoldTurn, AllFit
<1>c. PICK s \in Seq(Txns) : s = chain[w] /\ s # <<>> /\ Head(s) = t
  BY <1>1 DEF IsHead, TypeOK, WorkersTypeOK
<1>2. HoldQueued(t, w)
  <2>1. Head(s) \in Items(s) BY <1>c, ItemsTaken
  <2> QED BY <1>1, <1>c, <2>1 DEF HoldQueued
<1>4. /\ Clear(up, t) /\ Clear(down, t)
      /\ \A v \in Workers : t \notin asked[v] /\ ~Applied(t, v)
      /\ \A v \in Workers : v # w => ~HoldQueued(t, v)
  BY <1>1, <1>2, TakenThere DEF Over
<1>5. /\ \A v \in Workers : t \notin holds[v] /\ t \notin Items(writes[v])
      /\ \A v \in Workers : t \in Items(chain[v]) => v = w
  BY <1>1, <1>2, HoldPlaces
<1>o. \A v \in Workers : OnceIn(chain[v], t) /\ OnceIn(writes[v], t)
  BY <1>1 DEF Fits, RoomFits, Over
<1>6. Moves(t)
  <2>1. UpMoves(t) /\ DownMoves(t) /\ ChainMoves(t) /\ WritesMove(t)
    BY <1>1, MsgIs DEF HoldTurn, UpMoves, DownMoves, ChainMoves, WritesMove
  <2>3. \A u \in Txns : u # t => \A v \in Workers : u \in holds'[v] <=> u \in holds[v]
    <3>1. holds' = [holds EXCEPT ![w] = @ \cup {t}] \/ holds' = holds BY DEF HoldTurn
    <3>2. DOMAIN holds = Workers BY DEF TypeOK, WorkersTypeOK
    <3>3. ASSUME NEW v \in Workers PROVE holds'[v] = holds[v] \/ holds'[v] = holds[v] \cup {t}
      BY <3>1, <3>2
    <3> QED BY <3>3
  <2>2. OthersStay(t) BY <1>1, <2>3 DEF OthersStay, SameState, SameWork, mainVars, txnVars
  <2> QED BY <2>1, <2>2 DEF Moves
<1>7. TxnFits(t)' BY <1>1 DEF Fits, TxnFits, mainVars, txnVars, InTownLock, Over
<1>8. CASE Held(w)
  <2>1. PICK m : m = Msg("held", t, live[w]) /\ m.who = t /\ m.op = "held" /\ m.val # NoVal
    BY MsgIs, LiveIsNotNull
  <2>2. up' = Post(up, w, m) /\ chain' = chain /\ holds' = [holds EXCEPT ![w] = @ \cup {t}]
    BY <1>8, <2>1 DEF HoldTurn
  <2>3. \A v \in Workers : t \in holds'[v] <=> v = w BY <1>5, <2>2 DEF TypeOK, WorkersTypeOK
  <2>4. m \in About(up'[w], t)
    <3>1. up \in [Workers -> Seq(UpMsg)] BY DEF TypeOK, ChannelsTypeOK
    <3>2. Sends(up', t, w, m) BY <1>4, <2>1, <2>2, <3>1, SendsPost
    <3> QED BY <3>2 DEF Sends
  <2>5. RoomFits(t)' BY <1>1, <1>5, <1>o, <2>1, <2>2, <2>3, <2>4 DEF RoomFits, Calls, txnVars
  <2>6. Elsewhere(t)'
    BY <1>1, <1>4, <1>5, <2>2, <2>3 DEF Elsewhere, HoldQueued, Applied, txnVars
  <2>7. UpFits(t, m, w)' BY <1>1, <2>1 DEF UpFits, Calls, txnVars
  <2>8. MailFits(t)' BY <1>1, <1>4, <2>1, <2>2, <2>6, <2>7, PostedUp
  <2> QED BY <1>6, <1>7, <2>5, <2>8, StepFits DEF Fits
<1>9. CASE ~Held(w)
  <2>1. PICK m : m = Msg("held", t, NoVal) /\ m.who = t /\ m.op = "held" BY MsgIs
  <2>2. up' = Post(up, w, m) /\ chain' = [chain EXCEPT ![w] = Rest(@)] /\ holds' = holds
    BY <1>9, <2>1 DEF HoldTurn
  <2>3. \A v \in Workers : t \notin Items(chain'[v])
    <3>1. PICK r : r = Rest(s) OBVIOUS
    <3>2. t \notin Items(r) BY <1>c, <1>o, <3>1, ItemsTaken
    <3>3. \A v \in Workers : chain'[v] = IF v = w THEN r ELSE chain[v]
      BY <1>c, <2>2, <3>1 DEF TypeOK, WorkersTypeOK
    <3> QED BY <1>5, <3>2, <3>3
  <2>4. RoomFits(t)' /\ Elsewhere(t)' BY <1>1, <1>4, <1>5, <2>2, <2>3, NoRoom DEF Elsewhere
  <2>5. UpFits(t, m, w)' BY <1>1, <2>1 DEF UpFits, Calls, txnVars
  <2>6. MailFits(t)' BY <1>1, <1>4, <2>1, <2>2, <2>4, <2>5, PostedUp
  <2> QED BY <1>6, <1>7, <2>4, <2>6, StepFits DEF Fits
<1> QED BY <1>8, <1>9

LEMMA PatchForElsewhereFits ==
  ASSUME TypeOK, AllFit, NEW w \in Workers, PatchForElsewhere(w)
  PROVE  AllFit' /\ Moves(Head(down[w]).who)
<1>0. down[w] # <<>> /\ Head(down[w]).op = "patch" /\ TakeDown(w)
  BY DEF PatchForElsewhere, DownIs
<1>m. PICK t \in Txns : t = Head(down[w]).who BY <1>0, DownHead
<1>1. /\ Fits(t)
      /\ UNCHANGED <<storage, mainVars, alive, releasing, acquiring, chain, holds, asked, txnVars,
                 visitVars, ghostVars>>
  BY <1>m DEF PatchForElsewhere, AllFit
<1>n. PICK m : m = Msg("patched", t, NoVal) /\ m.who = t /\ m.op = "patched" BY MsgIs
<1>2. at[t] # w /\ (Calls(t, w, {"patching"}) \/ pc[t] = "failed")
  <2>1. DownFits(t, Head(down[w]), w) BY <1>0, <1>1, <1>m, HeadAbout DEF Fits, MailFits
  <2> QED BY <1>0, <2>1 DEF DownFits
<1>3. \/ up' = up /\ writes' = Post(writes, w, t)
      \/ up' = Post(up, w, m) /\ writes' = writes
  BY <1>m, <1>n DEF PatchForElsewhere
<1>t. up \in [Workers -> Seq(UpMsg)] /\ writes \in [Workers -> Seq(Txns \cup Visits)]
  BY DEF TypeOK, ChannelsTypeOK, WorkersTypeOK
<1>4. Moves(t)
  <2>1. UpMoves(t) /\ DownMoves(t) /\ ChainMoves(t) /\ WritesMove(t)
    BY <1>0, <1>1, <1>3, <1>m, <1>n DEF UpMoves, DownMoves, ChainMoves, WritesMove
  <2>2. OthersStay(t) BY <1>1 DEF OthersStay, SameState, SameWork, mainVars, txnVars
  <2> QED BY <2>1, <2>2 DEF Moves
<1>5. UpFits(t, m, w)' BY <1>1, <1>2, <1>n DEF UpFits, Calls, txnVars
<1>6. CASE pc[t] = "failed"
  <2>1. \A v \in Workers : About(down'[v], t) \subseteq About(down[v], t)
    BY <1>0, Taking DEF TakeDown, TypeOK, ChannelsTypeOK
  <2>2. ASSUME NEW v \in Workers PROVE \A x \in About(Post(up, w, m)[v], t) : x \in About(up[v], t) \/ (x = m /\ v = w)
    BY <1>t, Posting
  <2>3. \A v \in Workers : \A x \in About(up'[v], t) : x \in About(up[v], t) \/ UpFits(t, x, v)'
    BY <1>3, <1>5, <2>2
  <2>4. ASSUME NEW v \in Workers, t \in Items(writes'[v]) PROVE t \in Items(writes[v]) \/ at[t] # v
    <3>1. PICK s \in Seq(Txns \cup Visits) : s = writes[v] BY <1>t
    <3>2. Items(Append(s, t)) = Items(s) \cup {t} BY ItemsPosted
    <3>3. writes'[v] = s \/ v = w BY <1>3, <1>t, <3>1 DEF Post
    <3> QED BY <1>2, <2>4, <3>1, <3>3
  <2>5. Fits(t)' BY <1>1, <1>6, <2>1, <2>3, <2>4, StaysOver DEF Over, mainVars, txnVars
  <2> QED BY <1>m, <1>4, <2>5, StepFits
<1>7. CASE pc[t] # "failed"
  <2>1. pc[t] = "patching" /\ awaiting[t] = w BY <1>2, <1>7 DEF Calls
  <2>2. Clear(down', t) /\ Clear(up, t) /\ Elsewhere(t)
    BY <1>0, <1>1, <1>m, <2>1, TakenDown DEF Over
  <2>3. \A v \in Workers : t \notin Items(writes[v]) /\ OnceIn(writes[v], t)
    BY <1>1, <2>1, <2>2 DEF Fits, RoomFits, Over, Elsewhere, Applied
  <2>4. TxnFits(t)' BY <1>1 DEF Fits, TxnFits, mainVars, txnVars, InTownLock, Over
  <2>5. \A v \in Workers : (t \in Items(writes'[v]) => v = w) /\ OnceIn(writes'[v], t)
    BY <1>3, <1>t, <2>3, PostPlace
  <2>6. RoomFits(t)'
    BY <1>1, <1>2, <2>1, <2>5 DEF Fits, RoomFits, Over, Calls, InWork, mainVars, txnVars
  <2>7. CASE up' = up
    BY <1>m, <1>1, <1>4, <2>2, <2>4, <2>6, <2>7, PostedNone, StepFits DEF Elsewhere, Fits
  <2>8. CASE up' = Post(up, w, m) /\ writes' = writes
    <3>1. Elsewhere(t)' BY <1>1, <2>2, <2>8 DEF Elsewhere, HoldQueued, Applied, txnVars
    <3>2. MailFits(t)' BY <1>5, <1>n, <2>2, <2>8, <3>1, PostedUp
    <3> QED BY <1>m, <1>4, <2>4, <2>6, <3>2, StepFits DEF Fits
  <2> QED BY <1>3, <2>7, <2>8
<1> QED BY <1>6, <1>7

LEMMA ReleaseForElsewhereFits ==
  ASSUME TypeOK, AllFit, NEW w \in Workers, ReleaseForElsewhere(w)
  PROVE  AllFit' /\ Moves(Head(down[w]).who)
<1>0. down[w] # <<>> /\ Head(down[w]).op = "unhold" /\ TakeDown(w)
  BY DEF ReleaseForElsewhere, DownIs
<1>m. PICK t \in Txns : t = Head(down[w]).who BY <1>0, DownHead
<1>1. /\ Fits(t)
      /\ UNCHANGED <<storage, mainVars, alive, live, releasing, writes, acquiring, asked, up, txnVars,
                 visitVars, ghostVars>>
      /\ \/ holds' = [holds EXCEPT ![w] = @ \ {t}] /\ chain' = [chain EXCEPT ![w] = Rest(@)]
         \/ holds' = holds /\ chain' = chain
  BY <1>m DEF ReleaseForElsewhere, AllFit
<1>2. Over(t)
  <2>1. DownFits(t, Head(down[w]), w) BY <1>0, <1>1, <1>m, HeadAbout DEF Fits, MailFits
  <2> QED BY <1>0, <2>1 DEF DownFits
<1>3. Moves(t)
  <2>1. UpMoves(t) /\ DownMoves(t) /\ ChainMoves(t) /\ WritesMove(t)
    BY <1>0, <1>1, <1>m DEF UpMoves, DownMoves, ChainMoves, WritesMove
  <2>2. \A u \in Txns : u # t => \A v \in Workers : u \in holds'[v] <=> u \in holds[v]
    <3>1. DOMAIN holds = Workers BY DEF TypeOK, WorkersTypeOK
    <3>2. ASSUME NEW v \in Workers PROVE holds'[v] = holds[v] \/ holds'[v] = holds[v] \ {t}
      BY <1>1, <3>1
    <3> QED BY <3>2
  <2>3. OthersStay(t) BY <1>1, <2>2 DEF OthersStay, SameState, SameWork, mainVars, txnVars
  <2> QED BY <2>1, <2>3 DEF Moves
<1>4. \A v \in Workers : About(down'[v], t) \subseteq About(down[v], t)
  BY <1>0, Taking DEF TakeDown, TypeOK, ChannelsTypeOK
<1>5. Fits(t)' BY <1>1, <1>2, <1>4, StaysOver DEF txnVars, mainVars
<1> QED BY <1>m, <1>3, <1>5, StepFits

-----------------------------------------------------------------------------
\* Entries, and steps about no transaction.
LEMMA EntriesFit ==
  ASSUME TypeOK, AllFit, NEW e \in Visits,
         LeaseTurn(e) \/ LeaseAgain(e) \/ LeaseTimeout(e) \/ AcquireLease(e) \/ Reward(e) \/ ReleaseLease(e)
  PROVE  AllFit' /\ Moves(e)
<1>1. e \notin Txns BY NamesAssumption
<1>2. UNCHANGED <<borrowed, chain, holds, asked, pc, at, awaiting, ref, copy, base, granted, orphans, lost>>
  BY DEF LeaseTurn, LeaseAgain, LeaseTimeout, AcquireLease, Reward, ReleaseLease, mainVars, workerVars, txnVars
<1>3. UpMoves(e) /\ DownMoves(e) /\ WritesMove(e)
  BY MsgIs DEF UpMoves, DownMoves, WritesMove, LeaseTurn, LeaseAgain, LeaseTimeout, AcquireLease, Reward, ReleaseLease, workerVars
<1>4. Moves(e) BY <1>2, <1>3 DEF Moves, ChainMoves, OthersStay, SameState, SameWork
<1> QED BY <1>1, <1>4, StepFits

LEMMA EntryAnswersFit ==
  ASSUME TypeOK, AllFit, NEW w \in Workers, LeaseGranted(w) \/ LeaseRefused(w)
  PROVE  AllFit' /\ Moves(Head(down[w]).who)
<1>1. down[w] # <<>> /\ Head(down[w]).op \in {"leased", "leaseFailed"} /\ TakeDown(w)
  BY DEF LeaseGranted, LeaseRefused, DownIs
<1>2. PICK e \in Visits : e = Head(down[w]).who BY <1>1, DownHead
<1>3. e \notin Txns BY NamesAssumption
<1>4. UNCHANGED <<borrowed, chain, holds, asked, up, writes, pc, at, awaiting, ref, copy, base, granted, orphans, lost>>
  BY DEF LeaseGranted, LeaseRefused, mainVars, txnVars
<1>5. Moves(e)
  BY <1>1, <1>2, <1>4 DEF Moves, UpMoves, DownMoves, ChainMoves, WritesMove, OthersStay, SameState, SameWork
<1> QED BY <1>2, <1>3, <1>5, StepFits

LEMMA HandBackFits ==
  ASSUME TypeOK, AllFit, NEW w \in Workers, HandBack(w)
  PROVE  AllFit'
<1>1. Main \notin Txns BY NamesAssumption
<1>2. UNCHANGED <<borrowed, chain, holds, asked, down, writes, pc, at, awaiting, base, granted, orphans, lost>>
  BY DEF HandBack, mainVars
<1>3. \A t \in Txns : ref'[t] \in {"own", "remote"} => ref'[t] = ref[t] /\ copy'[t] = copy[t]
  BY DEF HandBack
<1>4. UpMoves(Main) /\ DownMoves(Main) /\ ChainMoves(Main) /\ WritesMove(Main)
  BY <1>2, MsgIs DEF HandBack, UpMoves, DownMoves, ChainMoves, WritesMove
<1>5. ASSUME NEW t \in Txns PROVE Fits(t)' BY <1>1, <1>2, <1>3, <1>4, OthersFit DEF SameWork
<1> QED BY <1>5 DEF AllFit

LEMMA StillFits ==
  ASSUME TypeOK, AllFit, UNCHANGED <<borrowed, chain, holds, asked, up, down, writes, pc, at, awaiting, ref, copy, base, granted, orphans, lost>>
  PROVE  AllFit' /\ Moves(Main)
<1>1. Main \notin Txns BY NamesAssumption
<1>5. Moves(Main)
  BY DEF Moves, UpMoves, DownMoves, ChainMoves, WritesMove, OthersStay, SameState, SameWork
<1> QED BY <1>1, <1>5, StepFits

LEMMA WriteLandsFits ==
  ASSUME TypeOK, AllFit, NEW w \in Workers, WriteLands(w)
  PROVE  AllFit' /\ Moves(Head(writes[w]))
<1>s. PICK s \in Seq(Txns \cup Visits) : s = writes[w] /\ s # <<>>
  BY DEF WriteLands, TypeOK, WorkersTypeOK
<1>t. PICK t \in Txns \cup Visits : t = Head(s) BY <1>s, HeadTailProperties
<1>n. PICK m : m = Msg("patched", t, {}) /\ m.who = t /\ m.op = "patched" BY MsgIs
<1>1. /\ writes[w] # <<>> /\ writes' = [writes EXCEPT ![w] = Tail(@)]
      /\ pc' = IF t \in Txns /\ at[t] = w THEN [pc EXCEPT ![t] = "settled"] ELSE pc
      /\ up' = IF t \in Txns /\ at[t] # w THEN Post(up, w, m) ELSE up
      /\ UNCHANGED <<mainVars, alive, live, releasing, acquiring, chain, holds, asked, down, at,
                 awaiting, ref, copy, base, granted, orphans, handedBack, lost, behind,
                 visitVars, crashes, stale>>
  BY <1>s, <1>t, <1>n DEF WriteLands
<1>2. Moves(t)
  <2>1. UpMoves(t) /\ DownMoves(t) /\ ChainMoves(t) /\ WritesMove(t)
    BY <1>1, <1>n DEF UpMoves, DownMoves, ChainMoves, WritesMove
  <2>2. OthersStay(t) BY <1>1 DEF OthersStay, SameState, SameWork, mainVars, TypeOK, TxnsTypeOK
  <2> QED BY <2>1, <2>2 DEF Moves
<1>3. CASE t \notin Txns BY <1>s, <1>t, <1>2, <1>3, StepFits
<1>4. CASE t \in Txns
  <2>r. PICK r : r = Tail(s) OBVIOUS
  <2>0. /\ t \in Items(s) /\ (t \in Items(r) => t \in Items(s))
        /\ OnceIn(s, t) => OnceIn(r, t) /\ t \notin Items(r)
    BY <1>s, <1>t, <2>r, ItemsTaken
  <2>1. \A v \in Workers : writes'[v] = IF v = w THEN r ELSE writes[v]
    BY <1>1, <1>s, <2>r DEF TypeOK, WorkersTypeOK
  <2>2. Fits(t) /\ RoomFits(t) BY <1>4 DEF AllFit, Fits
  <2>3. \A v \in Workers : t \in Items(writes'[v]) => t \in Items(writes[v]) BY <1>s, <2>0, <2>1
  <2>4. CASE at[t] = w
    <3>1. pc[t] = "writing" /\ pc'[t] = "settled" /\ up' = up
      BY <1>1, <1>4, <1>s, <2>0, <2>2, <2>4 DEF RoomFits, TypeOK, TxnsTypeOK
    <3>2. Unplaced(t) /\ awaiting[t] = NoWorker
      BY <1>4, <2>2, <3>1, IdleIs DEF Idle, Over, Fits, TxnFits, Reading
    <3>3. TxnFits(t)'
      BY <1>1, <2>2, <3>1, <3>2, NamesAssumption DEF Fits, TxnFits, mainVars, InTown, Early, Reading, InTownLock, Over
    <3>4. \A v \in Workers : t \notin Items(writes'[v])
      <4>1. t \notin Items(r) BY <1>s, <2>0, <2>2, <3>1 DEF RoomFits, Over
      <4>2. \A v \in Workers : v # w => t \notin Items(writes[v])
        BY <2>2, <2>4, <3>1 DEF RoomFits, Calls
      <4> QED BY <2>1, <4>1, <4>2
    <3>o. \A v \in Workers : OnceIn(writes'[v], t) BY <3>4 DEF OnceIn, Items
    <3>5. RoomFits(t)'
      BY <1>1, <2>2, <3>1, <3>2, <3>4, <3>o, NamesAssumption DEF RoomFits, mainVars, Calls, InWork, Over
    <3>6. MailFits(t)' BY <1>1, <1>4, <3>1, <3>2, PostedNone DEF Unplaced, Elsewhere
    <3> QED BY <1>s, <1>t, <1>2, <3>3, <3>5, <3>6, StepFits DEF Fits
  <2>5. CASE at[t] # w
    <3>1. pc' = pc /\ up' = Post(up, w, m) /\ (Calls(t, w, {"patching"}) \/ pc[t] = "failed") /\ Applied(t, w)
      BY <1>1, <1>4, <1>s, <2>0, <2>2, <2>5 DEF RoomFits, Applied
    <3>2. UpFits(t, m, w)' BY <1>1, <1>n, <3>1 DEF UpFits, Calls
    <3>3. CASE pc[t] = "failed"
      <4>1. up \in [Workers -> Seq(UpMsg)] BY DEF TypeOK, ChannelsTypeOK
      <4>2. ASSUME NEW v \in Workers PROVE \A x \in About(up'[v], t) : x \in About(up[v], t) \/ (x = m /\ v = w)
        BY <3>1, <4>1, Posting
      <4>3. Fits(t)'
        BY <1>1, <1>4, <2>2, <2>3, <3>1, <3>2, <3>3, <4>2, StaysOver DEF Over, mainVars
      <4> QED BY <1>s, <1>t, <1>2, <4>3, StepFits
    <3>4. CASE pc[t] # "failed"
      <4>1. pc[t] = "patching" /\ awaiting[t] = w BY <3>1, <3>4 DEF Calls
      <4>2. /\ Clear(up, t) /\ Clear(down, t)
            /\ \A v \in Workers : v # w => t \notin asked[v] /\ ~HoldQueued(t, v) /\ ~Applied(t, v)
            /\ t \notin asked[w]
        BY <1>4, <2>2, <3>1, <4>1, TakenThere DEF Over
      <4>3. TxnFits(t)' BY <1>1, <2>2, <3>1 DEF Fits, TxnFits, mainVars, InTownLock, Over
      <4>4. \A v \in Workers : t \notin Items(writes'[v]) /\ OnceIn(writes'[v], t)
        <5>1. t \notin Items(r) BY <1>s, <2>0, <2>2, <4>1 DEF RoomFits, Over
        <5>2. \A v \in Workers : v # w => t \notin Items(writes[v])
          BY <2>2, <4>1, NamesAssumption DEF RoomFits, Calls
        <5> QED BY <2>1, <5>1, <5>2 DEF OnceIn, Items
      <4>5. RoomFits(t)' /\ Elsewhere(t)'
        BY <1>1, <2>2, <3>1, <4>1, <4>2, <4>4, NamesAssumption DEF RoomFits, mainVars, Calls, InWork, Over, Elsewhere, HoldQueued, Applied
      <4>6. MailFits(t)' BY <1>1, <1>4, <1>n, <3>1, <3>2, <4>2, <4>5, PostedUp
      <4> QED BY <1>s, <1>t, <1>2, <4>3, <4>5, <4>6, StepFits DEF Fits
    <3> QED BY <3>3, <3>4
  <2> QED BY <2>4, <2>5
<1> QED BY <1>3, <1>4

-----------------------------------------------------------------------------
\* A worker that dies takes everything it had with it.
LEMMA WorkerDiesFits ==
  ASSUME TypeOK, AllFit, NEW w \in Workers, WorkerDies(w)
  PROVE  AllFit'
<1> DEFINE its == {t \in Txns \ orphans : at[t] = w /\ pc[t] \notin {"new", "done", "failed"}}
           arranged == {t \in its : \/ pc[t] \in {"awaitRelease", "townQueued"} /\ borrowed[t] = NoWorker
                                    \/ pc[t] = "holding" /\ awaiting[t] # NoWorker}
<1>1. ASSUME NEW t \in Txns PROVE Fits(t)'
  <2>1. /\ t \in its <=> t \notin orphans /\ at[t] = w /\ pc[t] \notin {"new", "done", "failed"}
        /\ t \in arranged <=> t \in its /\ \/ pc[t] \in {"awaitRelease", "townQueued"} /\ borrowed[t] = NoWorker
                                           \/ pc[t] = "holding" /\ awaiting[t] # NoWorker
    OBVIOUS
  <2>2. /\ pc'[t] = IF t \in its \ arranged THEN "failed" ELSE pc[t]
        /\ awaiting'[t] = IF t \in its \ arranged THEN NoWorker ELSE IF awaiting[t] = w THEN Main ELSE awaiting[t]
        /\ borrowed'[t] = IF borrowed[t] = w THEN NoWorker ELSE borrowed[t]
        /\ t \in orphans' <=> t \in orphans \/ t \in arranged
        /\ t \in lost' => t \in lost \/ (t \notin orphans /\ at[t] = w /\ borrowed[t] \notin {w, NoWorker})
        /\ UNCHANGED <<at, ref, copy, base, granted>>
    BY DEF WorkerDies
  <2>3. /\ up'[w] = <<>> /\ down'[w] = <<>> /\ chain'[w] = <<>> /\ writes'[w] = <<>> /\ holds'[w] = {} /\ asked'[w] = {}
        /\ \A v \in Workers : v # w => /\ up'[v] = up[v] /\ down'[v] = down[v] /\ chain'[v] = chain[v]
                                       /\ writes'[v] = writes[v] /\ holds'[v] = holds[v] /\ asked'[v] = asked[v]
    BY DEF WorkerDies, TypeOK, WorkersTypeOK, ChannelsTypeOK
  <2> HIDE DEF its, arranged
  <2>4. /\ About(up'[w], t) = {} /\ About(down'[w], t) = {} /\ t \notin Items(chain'[w]) /\ t \notin Items(writes'[w])
        /\ OneAbout(up'[w], t) /\ OneAbout(down'[w], t) /\ OnceIn(chain'[w], t) /\ OnceIn(writes'[w], t)
    BY <2>3, ItemsOfNone
  <2>5. Fits(t) /\ MailFits(t) /\ RoomFits(t) /\ TxnFits(t) BY DEF AllFit, Fits
  <2>6. NoWorker \notin Workers /\ Main \notin Workers /\ Main # NoWorker BY NamesAssumption
  <2>7. \A v \in Workers : \A m \in About(up[v], t) :
           m.op \in {"lock", "account", "patch", "retry", "held", "live", "patched", "unlock"}
    BY MailTyped DEF UpMsg
  <2>8. \A v \in Workers : \A m \in About(down[v], t) :
           m.op \in {"rpcOwn", "rpcOther", "refused", "hold", "unhold", "account", "grant", "live", "patch", "patched"}
    BY MailTyped DEF DownMsg
  <2>9. CASE t \in its \ arranged
    <3>1. pc'[t] = "failed" /\ awaiting'[t] = NoWorker /\ at[t] = w /\ Over(t)'
      BY <2>1, <2>2, <2>9 DEF Over
    <3>2. TxnFits(t)'
      BY <2>2, <2>5, <2>6, <3>1 DEF TxnFits, Over, InTown, Early, Reading, InTownLock
    <3>3. RoomFits(t)' BY <2>2, <2>3, <2>4, <2>5, <3>1 DEF RoomFits, Over, Calls
    <3>4. pc[t] # "forwarded" /\ (pc[t] = "holding" => awaiting[t] = NoWorker)
      BY <2>1, <2>5, <2>6, <2>9 DEF TxnFits, InTown
    <3>5. ASSUME NEW v \in Workers, v # w, NEW m \in About(up[v], t) PROVE UpFits(t, m, v)'
      <4>1. UpFits(t, m, v) BY <2>5 DEF MailFits
      <4> QED BY <2>6, <2>7, <3>1, <3>4, <3>5, <4>1 DEF UpFits, Calls, Works, Over
    <3>6. ASSUME NEW v \in Workers, v # w, NEW m \in About(down[v], t) PROVE DownFits(t, m, v)'
      <4>1. DownFits(t, m, v) BY <2>5 DEF MailFits
      <4> QED BY <2>2, <2>6, <2>8, <3>1, <3>4, <3>6, <4>1 DEF DownFits, Calls, Works, Over, PatchOf
    <3>7. MailFits(t)' BY <2>3, <2>4, <3>1, <3>5, <3>6 DEF MailFits
    <3> QED BY <3>2, <3>3, <3>7 DEF Fits
  <2>10. CASE t \notin its \ arranged
    <3>1. /\ pc'[t] = pc[t] /\ awaiting'[t] = (IF awaiting[t] = w THEN Main ELSE awaiting[t])
          /\ t \in arranged => /\ at[t] = w
                               /\ \/ pc[t] \in {"awaitRelease", "townQueued"} /\ borrowed[t] = NoWorker
                                  \/ pc[t] = "holding" /\ awaiting[t] # NoWorker
      BY <2>1, <2>2, <2>10
    <3>2. t \in lost' => Over(t)
      <4>1. CASE t \in lost BY <2>5, <4>1 DEF TxnFits
      <4>2. CASE t \notin orphans /\ at[t] = w /\ borrowed[t] \notin {w, NoWorker}
        BY <2>1, <2>5, <2>6, <2>10, <4>2 DEF TxnFits, InTown, Over
      <4> QED BY <2>2, <4>1, <4>2
    <3>3. TxnFits(t)'
      <4>1. /\ awaiting'[t] # NoWorker => awaiting[t] # NoWorker
            /\ awaiting'[t] = awaiting[t] \/ awaiting'[t] = Main
            /\ borrowed'[t] = borrowed[t] \/ (borrowed'[t] = NoWorker /\ borrowed[t] # Main)
            /\ t \notin orphans' => t \notin orphans
        BY <2>2, <2>6, <3>1
      <4>2. pc[t] = "holding" => at[t] # Main BY <2>5, <2>6 DEF TxnFits, InTown, Over
      <4> QED BY <2>2, <2>5, <2>6, <3>1, <3>2, <4>1, <4>2 DEF TxnFits, Over, InTownLock
    <3>4. RoomFits(t)' BY <2>2, <2>3, <2>4, <2>5, <2>6, <3>1 DEF RoomFits, Over, Calls
    <3>5. ASSUME NEW v \in Workers, v # w PROVE (awaiting'[t] = v <=> awaiting[t] = v) /\ (awaiting'[t] = NoWorker <=> awaiting[t] = NoWorker)
      BY <2>6, <3>1, <3>5
    <3>6. ASSUME NEW v \in Workers, v # w, NEW m \in About(up[v], t) PROVE UpFits(t, m, v)'
      <4>1. UpFits(t, m, v) BY <2>5 DEF MailFits
      <4> QED BY <2>2, <3>1, <3>5, <3>6, <4>1 DEF UpFits, Calls, Works, Over, PatchOf
    <3>7. ASSUME NEW v \in Workers, v # w, NEW m \in About(down[v], t) PROVE DownFits(t, m, v)'
      <4>1. DownFits(t, m, v) BY <2>5 DEF MailFits
      <4>2. borrowed[t] = Main => borrowed'[t] = Main BY <2>2, <2>6
      <4>3. m.op = "grant" => t \notin orphans' BY <2>2, <3>1, <3>7, <4>1 DEF DownFits, Works
      <4> QED BY <2>2, <3>1, <3>5, <3>7, <4>1, <4>2, <4>3 DEF DownFits, Calls, Works, Over, PatchOf
    <3>8. ASSUME NEW v \in Workers, t \in asked'[v] PROVE Calls(t, v, Reading \cup {"holding"})' \/ pc'[t] = "failed"
      BY <2>3, <2>5, <3>1, <3>5, <3>8 DEF MailFits, Calls
    <3>9. ~Over(t)' => OneErrand(t)'
      <4>1. ~Over(t)' => OneErrand(t) BY <2>5, <3>1 DEF MailFits, Over
      <4> QED BY <2>2, <2>3, <2>4, <3>1, <4>1 DEF OneErrand, HoldQueued, Applied
    <3>10. MailFits(t)' BY <2>3, <2>4, <3>6, <3>7, <3>8, <3>9 DEF MailFits
    <3> QED BY <3>3, <3>4, <3>10 DEF Fits
  <2> QED BY <2>9, <2>10
<1> QED BY <1>1 DEF AllFit

LEMMA FitsStep == TypeOK /\ AllFit /\ [Next]_vars => AllFit'
<1> SUFFICES ASSUME TypeOK, AllFit, [Next]_vars PROVE AllFit' OBVIOUS
<1>1. ASSUME NEW t \in Txns,
             MainLoad(t) \/ MainSave(t) \/ BorrowAgain(t) \/ TownTurn(t) \/ CallFails(t) \/ LostLockReturned(t)
      PROVE  AllFit'
  BY <1>1, MainLoadFits, MainSaveFits, BorrowAgainFits, TownTurnFits, CallFailsFits, LostLockReturnedFits
<1>2. ASSUME NEW w \in Workers, MainReceives(w) PROVE AllFit'
  BY <1>2, RpcRetryFits, AccountAnsweredFits, LeaseAskedFits, LockAskedFits, HoldAnsweredFits, PatchHeldFits,
     PatchAnsweredFits, AccountAskedFits, LockReturnedFits DEF MainReceives
<1>3. ASSUME NEW w \in Workers, WorkerReplaced(w) PROVE AllFit'
  BY <1>3, StillFits DEF WorkerReplaced, mainVars, txnVars
<1>4. ASSUME NEW t \in Txns, WorkerLock(t) \/ WorkerLoad(t) \/ WorkerSave(t) \/ TransactionEnds(t) \/ Rpc(t) PROVE AllFit'
  BY <1>4, WorkerLockFits, WorkerLoadFits, WorkerSaveFits, TransactionEndsFits, RpcFits
<1>5. ASSUME NEW w \in Workers, WorkerReceives(w) PROVE AllFit'
  BY <1>5, RpcForwardedFits, LockGrantedFits, LockRefusedFits, WorkerReadFits, PatchSettledFits,
     CallFromElsewhereFits, PatchForElsewhereFits, ReleaseForElsewhereFits, EntryAnswersFit DEF WorkerReceives
<1>6. ASSUME NEW w \in Workers, HandBack(w) \/ WriteLands(w) \/ WorkerDies(w) PROVE AllFit'
  BY <1>6, HandBackFits, WriteLandsFits, WorkerDiesFits
<1>7. ASSUME NEW t \in Txns, NEW w \in Workers,
             LiveForElsewhere(t, w) \/ HoldForElsewhere(t, w) \/ HoldTurn(t, w) \/ SecondAccount(t, w)
      PROVE  AllFit'
  BY <1>7, LiveForElsewhereFits, HoldForElsewhereFits, HoldTurnFits, SecondAccountFits
<1>8. ASSUME NEW e \in Visits,
             LeaseTurn(e) \/ LeaseAgain(e) \/ LeaseTimeout(e) \/ AcquireLease(e) \/ Reward(e) \/ ReleaseLease(e)
      PROVE  AllFit'
  BY <1>8, EntriesFit
<1>9. ASSUME NEW e \in Visits, NEW w \in Workers, Enter(e, w) PROVE AllFit'
  BY <1>9, StillFits DEF Enter, mainVars, workerVars, txnVars
<1>10. CASE UNCHANGED vars BY <1>10, StillFits DEF vars, mainVars, workerVars, txnVars
<1> QED BY <1>1, <1>2, <1>3, <1>4, <1>5, <1>6, <1>7, <1>8, <1>9, <1>10 DEF Next, MainStep, WorkerStep, Players

-----------------------------------------------------------------------------
\* The head of the main thread's chain.
Claims(t) == borrowed[t] = Main \/ pc[t] \in {"asking", "loaded"}

LEMMA HeadAppended ==
  ASSUME TypeOK, NEW x, NEW t, IsHead(t, mainChain)
  PROVE  IsHead(t, Append(mainChain, x))
<1>1. PICK s \in Seq(Txns \cup Visits) : s = mainChain /\ s # <<>> /\ Head(s) = t
  BY DEF IsHead, TypeOK, MainTypeOK
<1>2. s \in Seq(Txns \cup Visits \cup {x}) BY SeqMonotonic
<1>3. Append(s, x) # <<>> /\ Head(Append(s, x)) = Head(s)
  BY <1>1, <1>2, AppendProperties, EmptySeq, LenProperties
<1> QED BY <1>1, <1>3 DEF IsHead

LEMMA HeadKeeps ==
  ASSUME TypeOK, HeadFits, NEW x, mainChain' = mainChain \/ mainChain' = Append(mainChain, x),
         \A t \in Txns : Claims(t)' => Claims(t) \/ IsHead(t, mainChain)
  PROVE  HeadFits'
<1>1. ASSUME NEW t \in Txns, Claims(t)' PROVE IsHead(t, mainChain')
  <2>1. IsHead(t, mainChain) BY <1>1 DEF HeadFits, Claims
  <2> QED BY <2>1, HeadAppended
<1> QED BY <1>1 DEF HeadFits, Claims

LEMMA HeadPasses ==
  ASSUME HeadFits, NEW x, IsHead(x, mainChain), x \in Txns => ~Claims(x)',
         \A t \in Txns : t # x /\ Claims(t)' => Claims(t)
  PROVE  HeadFits'
<1>1. ASSUME NEW t \in Txns, Claims(t)' PROVE FALSE
  <2>1. IsHead(t, mainChain) /\ t # x BY <1>1 DEF HeadFits, Claims
  <2> QED BY <2>1 DEF IsHead
<1> QED BY <1>1 DEF HeadFits, Claims

LEMMA HeadSame ==
  ASSUME TypeOK, HeadFits, UNCHANGED <<mainChain, borrowed>>,
         \A t \in Txns : pc'[t] = pc[t] \/ pc'[t] \notin {"asking", "loaded"} \/ pc[t] \in {"asking", "loaded"}
  PROVE  HeadFits'
BY HeadKeeps DEF Claims

LEMMA HeadStep == TypeOK /\ AllFit /\ HeadFits /\ [Next]_vars => HeadFits'
<1> SUFFICES ASSUME TypeOK, AllFit, HeadFits, [Next]_vars PROVE HeadFits' OBVIOUS
<1>0. pc \in [Txns -> TxnStates] /\ borrowed \in [Txns -> Workers \cup {Main, NoWorker}] /\ Main # NoWorker
  BY NamesAssumption DEF TypeOK, TxnsTypeOK, MainTypeOK
<1>1. ASSUME NEW t \in Txns, MainLoad(t) PROVE HeadFits'
  <2>1. IsHead(t, mainChain) /\ mainChain' = mainChain /\ borrowed' = borrowed /\ \A u \in Txns : u # t => pc'[u] = pc[u]
    BY <1>0, <1>1 DEF MainLoad, mainVars
  <2> QED BY <2>1, HeadKeeps DEF Claims
<1>2. ASSUME NEW t \in Txns, MainSave(t) PROVE HeadFits'
  <2>1. /\ IsHead(t, mainChain) /\ pc'[t] \in {"done", "forwarded"} /\ borrowed' = borrowed /\ pc[t] = "loaded"
        /\ \A u \in Txns : u # t => pc'[u] = pc[u]
    BY <1>0, <1>2 DEF MainSave
  <2>2. borrowed[t] = NoWorker BY <2>1 DEF AllFit, Fits, TxnFits, InTown, Early
  <2> QED BY <1>0, <2>1, <2>2, HeadPasses DEF Claims
<1>3. ASSUME NEW t \in Txns, TownTurn(t) PROVE HeadFits'
  <2>1. IsHead(t, mainChain) /\ pc[t] = "townQueued" /\ borrowed[t] = NoWorker
    BY <1>3 DEF TownTurn
  <2>2. CASE t \in orphans
    <3>1. pc'[t] = "failed" /\ borrowed' = borrowed /\ \A u \in Txns : u # t => pc'[u] = pc[u]
      BY <1>0, <1>3, <2>2 DEF TownTurn
    <3> QED BY <1>0, <2>1, <3>1, HeadPasses DEF Claims
  <2>3. CASE t \notin orphans
    <3>1. mainChain' = mainChain /\ pc' = pc /\ \A u \in Txns : u # t => borrowed'[u] = borrowed[u]
      BY <1>0, <1>3, <2>3 DEF TownTurn
    <3> QED BY <2>1, <3>1, HeadKeeps DEF Claims
  <2> QED BY <2>2, <2>3
<1>4. ASSUME NEW t \in Txns, Over(t), borrowed' = [borrowed EXCEPT ![t] = NoWorker], pc' = pc,
             mainChain' = IF borrowed[t] = Main THEN Rest(mainChain) ELSE mainChain
      PROVE  HeadFits'
  <2>1. ~Claims(t)' /\ \A u \in Txns : u # t => borrowed'[u] = borrowed[u]
    BY <1>0, <1>4 DEF Claims, Over
  <2>2. CASE borrowed[t] = Main BY <1>4, <2>1, <2>2, HeadPasses DEF HeadFits, Claims
  <2>3. CASE borrowed[t] # Main BY <1>4, <2>1, <2>3, HeadKeeps DEF Claims
  <2> QED BY <2>2, <2>3
<1>5. ASSUME NEW t \in Txns, LostLockReturned(t) PROVE HeadFits'
  <2>1. Over(t) BY <1>5 DEF LostLockReturned, AllFit, Fits, TxnFits
  <2> QED BY <1>4, <1>5, <2>1 DEF LostLockReturned
<1>6. ASSUME NEW w \in Workers, LockReturned(w) PROVE HeadFits'
  <2>0. up[w] # <<>> /\ Head(up[w]).op = "unlock" BY <1>6 DEF LockReturned, UpIs
  <2>m. PICK t \in Txns : t = Head(up[w]).who BY <2>0, UpHead
  <2>1. UpFits(t, Head(up[w]), w) BY <2>0, <2>m, HeadAbout DEF AllFit, Fits, MailFits
  <2>2. Over(t) BY <2>0, <2>1 DEF UpFits
  <2>3. /\ borrowed' = [borrowed EXCEPT ![t] = NoWorker] /\ pc' = pc
        /\ mainChain' = IF borrowed[t] = Main THEN Rest(mainChain) ELSE mainChain
    BY <1>6, <2>m DEF LockReturned, txnVars
  <2> QED BY <1>4, <2>2, <2>3
<1>7. ASSUME NEW e \in Visits, LeaseTurn(e) PROVE HeadFits'
  <2>1. IsHead(e, mainChain) /\ e \notin Txns /\ borrowed' = borrowed /\ pc' = pc
    BY <1>7, NamesAssumption DEF LeaseTurn, txnVars
  <2> QED BY <2>1, HeadPasses DEF Claims
<1>8. ASSUME NEW t, NEW x, \/ mainChain' = mainChain
                           \/ mainChain' = Append(mainChain, x),
             borrowed' = borrowed, \A u \in Txns : u # t => pc'[u] = pc[u],
             pc'[t] \in {"asking", "loaded"} => pc[t] \in {"asking", "loaded"}
      PROVE  HeadFits'
  <2>1. \A u \in Txns : Claims(u)' => Claims(u) BY <1>8 DEF Claims
  <2> QED BY <1>8, <2>1, HeadKeeps
<1>9. ASSUME NEW t \in Txns, Rpc(t) \/ BorrowAgain(t) \/ WorkerLock(t) \/ WorkerLoad(t) \/ WorkerSave(t) \/ TransactionEnds(t)
      PROVE  HeadFits'
  <2>1. borrowed' = borrowed /\ (mainChain' = mainChain \/ mainChain' = Append(mainChain, t))
    BY <1>9 DEF Rpc, DispatchWhereOwned, BorrowAgain, BorrowLock, WorkerLock, WorkerLoad, WorkerSave, TransactionEnds, mainVars
  <2>2. pc'[t] \notin {"asking", "loaded"} /\ \A u \in Txns : u # t => pc'[u] = pc[u]
    BY <1>0, <1>9 DEF Rpc, DispatchWhereOwned, BorrowAgain, BorrowLock, WorkerLock, WorkerLoad, WorkerSave, TransactionEnds
  <2> QED BY <1>8, <2>1, <2>2
<1>10. ASSUME NEW t \in Txns, CallFails(t) PROVE HeadFits'
  <2>1. borrowed' = borrowed /\ mainChain' = mainChain BY <1>10 DEF CallFails, mainVars
  <2>2. /\ pc'[t] \in {"asking", "loaded"} => pc[t] \in {"asking", "loaded"}
        /\ \A u \in Txns : u # t => pc'[u] = pc[u]
    BY <1>0, <1>10 DEF CallFails
  <2> QED BY <1>8, <2>1, <2>2
<1>11. ASSUME NEW t \in Txns, NEW w \in Workers,
              LiveForElsewhere(t, w) \/ HoldForElsewhere(t, w) \/ HoldTurn(t, w) \/ SecondAccount(t, w)
      PROVE  HeadFits'
  <2>1. borrowed' = borrowed /\ mainChain' = mainChain
    BY <1>11 DEF LiveForElsewhere, HoldForElsewhere, HoldTurn, SecondAccount, mainVars
  <2>2. /\ pc'[t] \in {"asking", "loaded"} => pc[t] \in {"asking", "loaded"}
        /\ \A u \in Txns : u # t => pc'[u] = pc[u]
    BY <1>0, <1>11 DEF LiveForElsewhere, HoldForElsewhere, HoldTurn, SecondAccount, txnVars
  <2> QED BY <1>8, <2>1, <2>2
<1>12. ASSUME NEW w \in Workers, RpcRetry(w) \/ AccountAnswered(w) \/ LockAsked(w) \/ HoldAnswered(w)
                                 \/ LeaseAsked(w) \/ LeaseReleased(w) \/ PatchHeld(w) \/ PatchAnswered(w) \/ AccountAsked(w)
      PROVE  HeadFits'
  <2>m. PICK t : t = Head(up[w]).who OBVIOUS
  <2>1. mainChain' = mainChain \/ mainChain' = Append(mainChain, t)
    BY <1>12, <2>m DEF RpcRetry, DispatchWhereOwned, AccountAnswered, LockAsked, BorrowLock, HoldAnswered,
       LeaseAsked, LeaseReleased, PatchHeld, PatchAnswered, AccountAsked, mainVars, txnVars
  <2>2. CASE HoldAnswered(w)
    <3>0. up[w] # <<>> /\ Head(up[w]).op = "held" BY <2>2 DEF HoldAnswered, UpIs
    <3>t. t \in Txns BY <3>0, <2>m, UpHead
    <3>1. /\ \A u \in Txns : u # t => pc'[u] = pc[u] /\ borrowed'[u] = borrowed[u]
          /\ borrowed'[t] = borrowed[t] \/ borrowed'[t] = w
          /\ pc'[t] = pc[t] \/ pc'[t] \notin {"asking", "loaded"}
      BY <1>0, <2>2, <2>m, <3>t DEF HoldAnswered
    <3>2. w # Main BY NamesAssumption
    <3>3. \A u \in Txns : Claims(u)' => Claims(u) BY <3>1, <3>2 DEF Claims
    <3> QED BY <2>1, <3>3, HeadKeeps
  <2>3. CASE ~HoldAnswered(w)
    <3>1. borrowed' = borrowed
      BY <1>12, <2>3 DEF RpcRetry, AccountAnswered, LockAsked, LeaseAsked, LeaseReleased, PatchHeld, PatchAnswered, AccountAsked, mainVars
    <3>2. /\ pc'[t] \in {"asking", "loaded"} => pc[t] \in {"asking", "loaded"}
          /\ \A u \in Txns : u # t => pc'[u] = pc[u]
      <4>1. CASE pc' = pc BY <4>1
      <4>2. CASE RpcRetry(w) \/ LockAsked(w)
        BY <1>0, <2>m, <4>2 DEF RpcRetry, DispatchWhereOwned, LockAsked, BorrowLock
      <4>3. CASE AccountAnswered(w) BY <1>0, <2>m, <4>3 DEF AccountAnswered
      <4> QED BY <1>12, <2>3, <4>1, <4>2, <4>3 DEF LeaseAsked, LeaseReleased, PatchHeld, PatchAnswered, AccountAsked, txnVars
    <3> QED BY <1>8, <2>1, <3>1, <3>2
  <2> QED BY <2>2, <2>3
<1>13. ASSUME NEW w \in Workers, WorkerReceives(w) PROVE HeadFits'
  <2>1. borrowed' = borrowed /\ mainChain' = mainChain
    BY <1>13 DEF WorkerReceives, RpcForwarded, LockGranted, LockRefused, WorkerRead, PatchSettled, CallFromElsewhere,
       PatchForElsewhere, ReleaseForElsewhere, LeaseGranted, LeaseRefused, mainVars
  <2>2. \A t \in Txns : pc'[t] = pc[t] \/ pc'[t] \notin {"asking", "loaded"}
    BY <1>0, <1>13 DEF WorkerReceives, RpcForwarded, LockGranted, LockRefused, WorkerRead, PatchSettled, CallFromElsewhere,
       PatchForElsewhere, ReleaseForElsewhere, LeaseGranted, LeaseRefused, txnVars
  <2> QED BY <2>1, <2>2, HeadSame
<1>14. ASSUME NEW w \in Workers, HandBack(w) \/ WriteLands(w) \/ WorkerReplaced(w) PROVE HeadFits'
  <2>1. borrowed' = borrowed /\ mainChain' = mainChain
    BY <1>14 DEF HandBack, WriteLands, WorkerReplaced, mainVars
  <2>2. \A t \in Txns : pc'[t] = pc[t] \/ pc'[t] \notin {"asking", "loaded"}
    BY <1>0, <1>14 DEF HandBack, WriteLands, WorkerReplaced, txnVars
  <2> QED BY <2>1, <2>2, HeadSame
<1>15. ASSUME NEW w \in Workers, WorkerDies(w) PROVE HeadFits'
  <2>1. mainChain' = mainChain /\ \A t \in Txns : Claims(t)' => Claims(t)
    BY <1>0, <1>15 DEF WorkerDies, Claims
  <2> QED BY <2>1, HeadKeeps
<1>16. ASSUME NEW e \in Visits, LeaseAgain(e) \/ LeaseTimeout(e) \/ AcquireLease(e) \/ Reward(e) \/ ReleaseLease(e)
      PROVE  HeadFits'
  <2>1. borrowed' = borrowed /\ pc' = pc /\ (mainChain' = mainChain \/ mainChain' = Append(mainChain, e))
    BY <1>16 DEF LeaseAgain, LeaseTimeout, AcquireLease, Reward, ReleaseLease, mainVars, txnVars
  <2> QED BY <2>1, HeadKeeps DEF Claims
<1>17. ASSUME NEW e \in Visits, NEW w \in Workers, Enter(e, w) PROVE HeadFits'
  BY <1>17, HeadSame DEF Enter, mainVars, txnVars
<1>18. CASE UNCHANGED vars BY <1>18, HeadSame DEF vars, mainVars, txnVars
<1> QED BY <1>1, <1>2, <1>3, <1>5, <1>6, <1>7, <1>9, <1>10, <1>11, <1>12, <1>13, <1>14, <1>15, <1>16, <1>17, <1>18
        DEF Next, MainStep, WorkerStep, Players, MainReceives

LEMMA ErrandInit == Init => ErrandInv
<1> SUFFICES ASSUME Init PROVE ErrandInv OBVIOUS
<1>1. NoWorker \notin Workers /\ Main \notin Workers /\ Main # NoWorker BY NamesAssumption
<1>2. HeadFits BY <1>1 DEF HeadFits, Init
<1>3. ASSUME NEW t \in Txns PROVE Fits(t)
  <2>1. /\ pc[t] = "new" /\ at[t] = Main /\ awaiting[t] = NoWorker /\ borrowed[t] = NoWorker
        /\ t \notin granted /\ t \notin lost /\ t \notin orphans
    BY <1>1 DEF Init
  <2>2. \A w \in Workers : up[w] = <<>> /\ down[w] = <<>> /\ chain[w] = <<>> /\ writes[w] = <<>> /\ holds[w] = {} /\ asked[w] = {}
    BY DEF Init
  <2>3. \A w \in Workers : /\ About(up[w], t) = {} /\ About(down[w], t) = {} /\ t \notin Items(chain[w]) /\ t \notin Items(writes[w])
                           /\ OneAbout(up[w], t) /\ OneAbout(down[w], t) /\ OnceIn(chain[w], t) /\ OnceIn(writes[w], t)
    BY <2>2, ItemsOfNone
  <2>4. TxnFits(t) BY <1>1, <2>1 DEF TxnFits, InTown, Early, Reading, InTownLock, Over
  <2>5. RoomFits(t) BY <2>2, <2>3 DEF RoomFits
  <2>6. MailFits(t) BY <2>2, <2>3 DEF MailFits, OneErrand, HoldQueued, Applied
  <2> QED BY <2>4, <2>5, <2>6 DEF Fits
<1> QED BY <1>2, <1>3 DEF ErrandInv

LEMMA ErrandStep == TypeOK /\ ErrandInv /\ [Next]_vars => ErrandInv'
<1>1. ErrandInv <=> HeadFits /\ AllFit BY DEF ErrandInv, AllFit
<1>2. (ErrandInv <=> HeadFits /\ AllFit)' BY DEF ErrandInv, AllFit
<1> QED BY <1>1, <1>2, FitsStep, HeadStep

\* Whatever the threads do, a transaction waits for one answer in one place, its messages say
\* where it stands, and who has the main thread's lock is first in that thread's chain
\* (match-worker-pool.js, match-worker-thread.js: `calls`, `borrowedLocks`, `remoteHolds`).
THEOREM ErrandsFit == Spec => []ErrandInv
BY TypeCorrect, ErrandInit, ErrandStep, PTL DEF Spec

-----------------------------------------------------------------------------
\* How fresh what a thread has of the account is, until an object is saved whose hold had ended.
\* The live object is here, or its lease is on its way back from here.
HereOrBack(w) == Held(w) \/ releasing[w]
\* A call sent after a lease comes after it; an answer sent after a lease went back, too.
Leave(s, a) == \A i, j \in 1..Len(s) : s[i] = a /\ LeaseGrant(s[j]) => j < i
After(s, a) == \A i \in 1..Len(s) : s[i] = a => \E j \in 1..(i - 1) : s[j].op = "release"
\* A read under the main thread's lock finds the object where the lease is, or finds there is none.
ReadsFirst(t) == pc[t] = "asking" \/ (pc[t] = "wasking" /\ t \in granted)
InOrder(t) ==
  /\ awaiting[t] # NoWorker => lease \in {NoWorker, awaiting[t]}
  /\ \A w \in Workers :
     /\ Leave(down[w], Msg("account", t, NoVal))
     /\ t \in asked[w] => ~Granting(w)
     /\ lease = w => After(up[w], Msg("live", t, NoVal))
     /\ Msg("account", t, NoVal) \in Items(up[w]) => ~Held(w) /\ ~Granting(w)
     /\ Msg("live", t, NoVal) \in Items(down[w]) =>
           lease = NoWorker \/ (lease = w /\ (releasing[w] \/ Returning(w)))
ReadFits(t) ==
  /\ ReadsFirst(t) => InOrder(t)
  /\ \A w \in Workers : Leave(down[w], Msg("grant", t, NoVal))
  /\ pc[t] = "wqueued" /\ InTownLock(t) => ~Granting(at[t])
\* An object of its own, read under the main thread's lock, is the account until it is saved.
Settled(t) == lease = NoWorker \/ (lease = at[t] /\ Returning(at[t]))
CopyFits(t) ==
  /\ pc[t] = "loaded" => ref[t] = "read" \/ (lease = NoWorker /\ acked \subseteq copy[t])
  /\ pc[t] \in {"wloaded", "writing"} /\ ref[t] = "live" => HereOrBack(at[t])
  /\ pc[t] \in {"wloaded", "writing"} /\ ref[t] = "own" /\ t \in granted => Settled(t) /\ acked \subseteq copy[t]
\* A write queued on w writes such an object, or the live one, and what it saves is in it.
WriteFits(w) == \A x \in Items(writes[w]) :
   IF x \in Txns /\ at[x] = w /\ ref[x] # "live"
   THEN ref[x] = "own" /\ x \in granted /\ x \in copy[x]
   ELSE HereOrBack(w) /\ x \in live[w]
Kept ==
  /\ acked \subseteq storage
  /\ \A w \in Workers : HereOrBack(w) => acked \subseteq live[w]
  /\ \A w \in Workers : \A m \in Items(down[w]) : LeaseGrant(m) => acked \subseteq m.val
NothingLost == Kept /\ (\A t \in Txns : ReadFits(t) /\ CopyFits(t)) /\ (\A w \in Workers : WriteFits(w))
SaveInv == ErrandInv /\ (~stale => NothingLost)

-----------------------------------------------------------------------------
\* What was sent after a lease stays after it, whatever else is sent and taken.
LEMMA LeavePosted ==
  ASSUME NEW S, NEW s \in Seq(S), NEW m, ~LeaseGrant(m), NEW a, Leave(s, a)
  PROVE  Leave(Append(s, m), a)
<1> DEFINE r == Append(s, m)  n == Len(s)
<1>1. n \in Nat /\ Len(r) = n + 1 /\ r[n + 1] = m /\ \A i \in 1..n : r[i] = s[i]
  <2>1. s \in Seq(S \cup {m}) /\ n \in Nat BY SeqMonotonic, LenProperties
  <2> QED BY <2>1, AppendProperties
<1>2. \A i : i \in 1..(n + 1) <=> i \in 1..n \/ i = n + 1 BY <1>1
<1> HIDE DEF r
<1>3. ASSUME NEW i \in 1..Len(r), NEW j \in 1..Len(r), r[i] = a, LeaseGrant(r[j]) PROVE j < i
  <2>1. j \in 1..n /\ r[j] = s[j] BY <1>1, <1>2, <1>3
  <2>2. CASE i = n + 1 BY <1>1, <2>1, <2>2
  <2>3. CASE i \in 1..n BY <1>1, <1>3, <2>1, <2>3 DEF Leave, n
  <2> QED BY <1>1, <1>2, <2>2, <2>3
<1> QED BY <1>3 DEF Leave, r

LEMMA LeaveTaken ==
  ASSUME NEW S, NEW s \in Seq(S), s # <<>>, NEW a, Leave(s, a)
  PROVE  Leave(Tail(s), a)
<1> DEFINE r == Tail(s)  n == Len(s)
<1>1. n \in Nat /\ n >= 1 /\ Len(r) = n - 1 /\ \A i \in 1..(n - 1) : r[i] = s[i + 1]
  BY LenProperties, EmptySeq, HeadTailProperties
<1> HIDE DEF r, n
<1>2. ASSUME NEW i \in 1..Len(r), NEW j \in 1..Len(r), r[i] = a, LeaseGrant(r[j]) PROVE j < i
  <2>1. i \in Nat /\ j \in Nat /\ i + 1 \in 1..n /\ j + 1 \in 1..n /\ s[i + 1] = a /\ LeaseGrant(s[j + 1])
    BY <1>1, <1>2
  <2>2. j + 1 < i + 1 BY <2>1 DEF Leave, n
  <2> QED BY <2>1, <2>2
<1> QED BY <1>2 DEF Leave, r

\* An answer that comes after a returned lease still does, until that lease is taken.
LEMMA AfterPosted ==
  ASSUME NEW S, NEW s \in Seq(S), NEW m, NEW a, After(s, a),
         m = a => \E j \in 1..Len(s) : s[j].op = "release"
  PROVE  After(Append(s, m), a)
<1> DEFINE r == Append(s, m)  n == Len(s)
<1>1. n \in Nat /\ Len(r) = n + 1 /\ r[n + 1] = m /\ \A i \in 1..n : r[i] = s[i]
  <2>1. s \in Seq(S \cup {m}) /\ n \in Nat BY SeqMonotonic, LenProperties
  <2> QED BY <2>1, AppendProperties
<1>2. \A i : i \in 1..(n + 1) <=> i \in 1..n \/ i = n + 1 BY <1>1
<1> HIDE DEF r
<1>3. ASSUME NEW i \in 1..Len(r), r[i] = a PROVE \E j \in 1..(i - 1) : r[j].op = "release"
  <2>1. CASE i = n + 1
    <3>1. PICK j \in 1..n : s[j].op = "release" BY <1>1, <1>3, <2>1 DEF n
    <3>2. r[j].op = "release" /\ j \in 1..(i - 1) BY <1>1, <2>1, <3>1
    <3> QED BY <3>2
  <2>2. CASE i \in 1..n
    <3>1. PICK j \in 1..(i - 1) : s[j].op = "release" BY <1>1, <1>3, <2>2 DEF After, n
    <3>2. j \in 1..n BY <1>1, <2>2
    <3>3. r[j].op = "release" BY <1>1, <3>1, <3>2
    <3> QED BY <3>3
  <2> QED BY <1>1, <1>2, <2>1, <2>2
<1> QED BY <1>3 DEF After, r

LEMMA AfterTaken ==
  ASSUME NEW S, NEW s \in Seq(S), s # <<>>, Head(s).op # "release", NEW a, After(s, a)
  PROVE  After(Tail(s), a)
<1> DEFINE r == Tail(s)  n == Len(s)
<1>1. n \in Nat /\ n >= 1 /\ Len(r) = n - 1 /\ (\A i \in 1..(n - 1) : r[i] = s[i + 1]) /\ Head(s) = s[1]
  BY LenProperties, EmptySeq, HeadTailProperties
<1> HIDE DEF r, n
<1>2. ASSUME NEW i \in 1..Len(r), r[i] = a PROVE \E j \in 1..(i - 1) : r[j].op = "release"
  <2>1. i \in Nat /\ i + 1 \in 1..n /\ s[i + 1] = a BY <1>1, <1>2
  <2>2. PICK j \in 1..((i + 1) - 1) : s[j].op = "release" BY <2>1 DEF After, n
  <2>3. j # 1 BY <1>1, <2>2
  <2>4. j - 1 \in 1..(i - 1) /\ j - 1 \in 1..(n - 1) /\ (j - 1) + 1 = j
    BY <1>1, <1>2, <2>1, <2>2, <2>3
  <2>5. r[j - 1].op = "release" BY <1>1, <2>2, <2>4
  <2> QED BY <2>4, <2>5
<1> QED BY <1>2 DEF After, r

\* A step that sends no lease and takes none back says nothing new of any transaction but x.
Mild(x) ==
  /\ \/ down' = down
     \/ \E w, m : m.who = x /\ ~LeaseGrant(m) /\ down' = Post(down, w, m)
     \/ \E w \in Workers : down[w] # <<>> /\ TakeDown(w)
  /\ \/ up' = up
     \/ \E w, m : m.who = x /\ up' = Post(up, w, m)
     \/ \E w \in Workers : up[w] # <<>> /\ Head(up[w]).op # "release" /\ TakeUp(w)
CalmDown(s, r, x) ==
  /\ \A a : Leave(s, a) => Leave(r, a)
  /\ \A a : a.who # x /\ a \in Items(r) => a \in Items(s)
  /\ \A m \in Items(r) : LeaseGrant(m) => m \in Items(s)
CalmUp(s, r, x) ==
  /\ \A a : a.who # x /\ After(s, a) => After(r, a)
  /\ \A a : a.who # x /\ a \in Items(r) => a \in Items(s)
  /\ (\E m \in Items(s) : m.op = "release") => (\E m \in Items(r) : m.op = "release")
Calm(x) == \A w \in Workers : CalmDown(down[w], down'[w], x) /\ CalmUp(up[w], up'[w], x)

LEMMA CalmDownPosted ==
  ASSUME NEW S, NEW s \in Seq(S), NEW m, ~LeaseGrant(m)
  PROVE  CalmDown(s, Append(s, m), m.who)
<1>1. Items(Append(s, m)) = Items(s) \cup {m} BY ItemsPosted
<1>2. \A a : Leave(s, a) => Leave(Append(s, m), a) BY LeavePosted
<1> QED BY <1>1, <1>2 DEF CalmDown

LEMMA CalmDownTaken ==
  ASSUME NEW S, NEW s \in Seq(S), s # <<>>, NEW r, r = Tail(s), NEW x
  PROVE  CalmDown(s, r, x)
<1>1. Items(s) = {Head(s)} \cup Items(r) BY ItemsTaken
<1>2. \A a : Leave(s, a) => Leave(r, a) BY LeaveTaken
<1> QED BY <1>1, <1>2 DEF CalmDown

LEMMA CalmUpPosted ==
  ASSUME NEW S, NEW s \in Seq(S), NEW m
  PROVE  CalmUp(s, Append(s, m), m.who)
<1>1. Items(Append(s, m)) = Items(s) \cup {m} BY ItemsPosted
<1>2. ASSUME NEW a, a.who # m.who, After(s, a) PROVE After(Append(s, m), a) BY <1>2, AfterPosted
<1> QED BY <1>1, <1>2 DEF CalmUp

LEMMA CalmUpTaken ==
  ASSUME NEW S, NEW s \in Seq(S), s # <<>>, Head(s).op # "release", NEW r, r = Tail(s), NEW x
  PROVE  CalmUp(s, r, x)
<1>1. Items(s) = {Head(s)} \cup Items(r) BY ItemsTaken
<1>2. ASSUME NEW a, After(s, a) PROVE After(r, a) BY <1>2, AfterTaken
<1> QED BY <1>1, <1>2 DEF CalmUp

LEMMA MildIsCalm == ASSUME TypeOK, NEW x, Mild(x) PROVE Calm(x)
<1>1. up \in [Workers -> Seq(UpMsg)] /\ down \in [Workers -> Seq(DownMsg)]
  BY DEF TypeOK, ChannelsTypeOK
<1>2. ASSUME NEW v \in Workers PROVE CalmDown(down[v], down'[v], x)
  <2>0. PICK s \in Seq(DownMsg) : s = down[v] BY <1>1
  <2>1. CASE down' = down BY <2>1 DEF CalmDown
  <2>2. ASSUME NEW w, NEW m, m.who = x, ~LeaseGrant(m), down' = Post(down, w, m) PROVE CalmDown(down[v], down'[v], x)
    <3>1. down'[v] = IF v = w THEN Append(s, m) ELSE s BY <1>1, <2>0, <2>2 DEF Post
    <3>2. CalmDown(s, Append(s, m), x) BY <2>2, CalmDownPosted
    <3>3. CalmDown(s, s, x) BY DEF CalmDown
    <3> QED BY <2>0, <3>1, <3>2, <3>3
  <2>3. ASSUME NEW w \in Workers, down[w] # <<>>, TakeDown(w) PROVE CalmDown(down[v], down'[v], x)
    <3>0. PICK r : r = Tail(s) OBVIOUS
    <3>1. down'[v] = IF v = w THEN r ELSE s BY <1>1, <2>0, <2>3, <3>0 DEF TakeDown
    <3>2. v = w => CalmDown(s, r, x) BY <2>0, <2>3, <3>0, CalmDownTaken
    <3>3. CalmDown(s, s, x) BY DEF CalmDown
    <3> QED BY <2>0, <3>1, <3>2, <3>3
  <2> QED BY <2>1, <2>2, <2>3 DEF Mild
<1>3. ASSUME NEW v \in Workers PROVE CalmUp(up[v], up'[v], x)
  <2>0. PICK s \in Seq(UpMsg) : s = up[v] BY <1>1
  <2>1. CASE up' = up BY <2>1 DEF CalmUp
  <2>2. ASSUME NEW w, NEW m, m.who = x, up' = Post(up, w, m) PROVE CalmUp(up[v], up'[v], x)
    <3>1. up'[v] = IF v = w THEN Append(s, m) ELSE s BY <1>1, <2>0, <2>2 DEF Post
    <3>2. CalmUp(s, Append(s, m), x) BY <2>2, CalmUpPosted
    <3>3. CalmUp(s, s, x) BY DEF CalmUp
    <3> QED BY <2>0, <3>1, <3>2, <3>3
  <2>3. ASSUME NEW w \in Workers, up[w] # <<>>, Head(up[w]).op # "release", TakeUp(w) PROVE CalmUp(up[v], up'[v], x)
    <3>0. PICK r : r = Tail(s) OBVIOUS
    <3>1. up'[v] = IF v = w THEN r ELSE s BY <1>1, <2>0, <2>3, <3>0 DEF TakeUp
    <3>2. v = w => CalmUp(s, r, x) BY <2>0, <2>3, <3>0, CalmUpTaken
    <3>3. CalmUp(s, s, x) BY DEF CalmUp
    <3> QED BY <2>0, <3>1, <3>2, <3>3
  <2> QED BY <2>1, <2>2, <2>3 DEF Mild
<1> QED BY <1>2, <1>3 DEF Calm

\* What a message about a transaction is: neither a lease nor a lease handed back.
LEMMA TxnsAreMild == ASSUME TypeOK, TypeOK', NEW x \in Txns, Moves(x) PROVE Mild(x)
<1>0. x \notin Visits /\ x # Main BY NamesAssumption
<1>1. up \in [Workers -> Seq(UpMsg)] /\ down \in [Workers -> Seq(DownMsg)]
  BY DEF TypeOK, ChannelsTypeOK
<1>2. down' \in [Workers -> Seq(DownMsg)] BY DEF TypeOK, ChannelsTypeOK
<1>3. ASSUME NEW w, NEW m, m.who = x, down' = Post(down, w, m), LeaseGrant(m) PROVE down' = down
  <2>1. CASE w \in Workers
    <3>0. PICK s \in Seq(DownMsg) : s = down[w] BY <1>1, <2>1
    <3>1. PICK r \in Seq(DownMsg) : r = down'[w] BY <1>2, <2>1
    <3>2. r = Append(s, m) BY <1>1, <1>3, <2>1, <3>0, <3>1 DEF Post
    <3>3. m \in Items(r) BY <3>2, ItemsPosted
    <3>4. m \in DownMsg BY <3>3, ItemsTyped
    <3> QED BY <1>0, <1>3, <3>4 DEF DownMsg, LeaseGrant
  <2>2. CASE w \notin Workers BY <1>1, <1>3, <2>2 DEF Post
  <2> QED BY <2>1, <2>2
<1>4. ASSUME NEW w \in Workers, up[w] # <<>>, Head(up[w]).who = x PROVE Head(up[w]).op # "release"
  BY <1>0, <1>4, UpHead DEF UpMsg
<1> QED BY <1>3, <1>4 DEF Mild, Moves, UpMoves, DownMoves

LEMMA ReturningIs ==
  ASSUME NEW w \in Workers
  PROVE  /\ Returning(w) <=> \E m \in Items(up[w]) : m.op = "release"
         /\ Returning(w)' <=> \E m \in Items(up'[w]) : m.op = "release"
         /\ Granting(w) <=> \E m \in Items(down[w]) : LeaseGrant(m)
         /\ Granting(w)' <=> \E m \in Items(down'[w]) : LeaseGrant(m)
BY DEF Returning, Granting, Items

-----------------------------------------------------------------------------
\* What a step leaves of a transaction it is not about: what it knows of its read, and what it
\* has read.
HeldFromHere == \A w \in Workers : Held(w)' => Held(w) \/ Granting(w)
BackToMain == \A w \in Workers : releasing[w] => releasing'[w] \/ Returning(w)'
HereStays == \A w \in Workers : HereOrBack(w)' <=> HereOrBack(w)

LEMMA CalmHere ==
  ASSUME NEW x, Calm(x), NEW w \in Workers
  PROVE  /\ Granting(w)' => Granting(w)
         /\ Returning(w) => Returning(w)'
<1>1. CalmDown(down[w], down'[w], x) /\ CalmUp(up[w], up'[w], x) BY DEF Calm
<1> QED BY <1>1, ReturningIs DEF CalmDown, CalmUp

LEMMA CalmLeaves ==
  ASSUME NEW x, Calm(x), NEW w \in Workers, NEW a
  PROVE  /\ Leave(down[w], a) => Leave(down'[w], a)
         /\ a.who # x /\ a \in Items(down'[w]) => a \in Items(down[w])
         /\ a.who # x /\ a \in Items(up'[w]) => a \in Items(up[w])
         /\ a.who # x /\ After(up[w], a) => After(up'[w], a)
<1>1. CalmDown(down[w], down'[w], x) /\ CalmUp(up[w], up'[w], x) BY DEF Calm
<1> QED BY <1>1 DEF CalmDown, CalmUp

LEMMA ReadStays ==
  ASSUME NEW x, NEW t \in Txns, t # x, Calm(x), SameWork(t), \A w \in Workers : t \in asked'[w] => t \in asked[w],
         lease' = lease, HeldFromHere, BackToMain, ReadFits(t), Fits(t)
  PROVE  ReadFits(t)'
<1> DEFINE a == Msg("account", t, NoVal)  l == Msg("live", t, NoVal)  g == Msg("grant", t, NoVal)
<1>1. a.who = t /\ l.who = t /\ g.who = t BY MsgIs
<1>2. /\ pc'[t] = pc[t] /\ at'[t] = at[t] /\ awaiting'[t] = awaiting[t] /\ base'[t] = base[t]
      /\ (t \in granted' <=> t \in granted) /\ \A w \in Workers : t \in asked'[w] => t \in asked[w]
  BY DEF SameWork
<1>3. \A w \in Workers : /\ Leave(down[w], a) => Leave(down'[w], a)
                         /\ Leave(down[w], g) => Leave(down'[w], g)
                         /\ l \in Items(down'[w]) => l \in Items(down[w])
                         /\ a \in Items(up'[w]) => a \in Items(up[w])
                         /\ After(up[w], l) => After(up'[w], l)
                         /\ Granting(w)' => Granting(w)
                         /\ Returning(w) => Returning(w)'
  BY <1>1, CalmHere, CalmLeaves
<1>4. ReadsFirst(t)' <=> ReadsFirst(t) BY <1>2 DEF ReadsFirst
<1>5. (\A w \in Workers : Leave(down'[w], g)) /\ \A w \in Workers : Leave(down[w], g)
  BY <1>3 DEF ReadFits
<1>6. pc'[t] = "wqueued" /\ InTownLock(t)' => ~Granting(at[t])'
  <2>1. SUFFICES ASSUME pc'[t] = "wqueued", InTownLock(t)' PROVE ~Granting(at[t])' OBVIOUS
  <2>2. pc[t] = "wqueued" /\ InTownLock(t) BY <1>2, <2>1 DEF InTownLock
  <2>3. PICK w \in Workers : w = at[t] BY <2>2 DEF Fits, TxnFits, InTown, Over
  <2>4. ~Granting(w) BY <2>2, <2>3 DEF ReadFits
  <2>5. ~Granting(w)' BY <1>3, <2>4
  <2> QED BY <1>2, <2>3, <2>5
<1>7. ASSUME ReadsFirst(t)'
      PROVE  /\ (awaiting'[t] # NoWorker => lease' \in {NoWorker, awaiting'[t]})
             /\ \A w \in Workers :
                /\ Leave(down'[w], a)
                /\ t \in asked'[w] => ~Granting(w)'
                /\ lease' = w => After(up'[w], l)
                /\ a \in Items(up'[w]) => ~Held(w)' /\ ~Granting(w)'
                /\ l \in Items(down'[w]) => lease' = NoWorker \/ (lease' = w /\ (releasing'[w] \/ Returning(w)'))
  <2>1. ReadsFirst(t) BY <1>4, <1>7
  <2>2. awaiting[t] # NoWorker => lease \in {NoWorker, awaiting[t]}
    BY <2>1 DEF ReadFits, InOrder
  <2>3. ASSUME NEW w \in Workers
        PROVE  /\ Leave(down[w], a)
               /\ t \in asked[w] => ~Granting(w)
               /\ lease = w => After(up[w], l)
               /\ a \in Items(up[w]) => ~Held(w) /\ ~Granting(w)
               /\ l \in Items(down[w]) => lease = NoWorker \/ (lease = w /\ (releasing[w] \/ Returning(w)))
    BY <2>1 DEF ReadFits, InOrder, a, l
  <2>4. ASSUME NEW w \in Workers
        PROVE  /\ Leave(down'[w], a)
               /\ t \in asked'[w] => ~Granting(w)'
               /\ lease' = w => After(up'[w], l)
               /\ a \in Items(up'[w]) => ~Held(w)' /\ ~Granting(w)'
               /\ l \in Items(down'[w]) => lease' = NoWorker \/ (lease' = w /\ (releasing'[w] \/ Returning(w)'))
    BY <1>2, <1>3, <2>3 DEF HeldFromHere, BackToMain
  <2> QED BY <1>2, <2>2, <2>4
<1> QED BY <1>3, <1>5, <1>6, <1>7 DEF ReadFits, InOrder, a, l, g

LEMMA CopyStays ==
  ASSUME NEW t \in Txns, SameState(t), lease' = lease, acked' = acked, Fits(t), CopyFits(t),
         \A w \in Workers : HereOrBack(w) => HereOrBack(w)', \A w \in Workers : Returning(w) => Returning(w)'
  PROVE  CopyFits(t)'
<1>1. /\ pc'[t] = pc[t] /\ at'[t] = at[t] /\ ref'[t] = ref[t] /\ copy'[t] = copy[t]
      /\ (t \in granted' <=> t \in granted)
  BY DEF SameState, SameWork
<1>2. ASSUME pc'[t] = "loaded" PROVE ref'[t] = "read" \/ (lease' = NoWorker /\ acked' \subseteq copy'[t])
  BY <1>1, <1>2 DEF CopyFits
<1>3. ASSUME pc'[t] \in {"wloaded", "writing"}
      PROVE  /\ ref'[t] = "live" => HereOrBack(at[t])'
             /\ ref'[t] = "own" /\ t \in granted' => Settled(t)' /\ acked' \subseteq copy'[t]
  <2>1. PICK w \in Workers : w = at[t] BY <1>1, <1>3 DEF Fits, TxnFits, InTown, Over
  <2>2. ASSUME ref'[t] = "live" PROVE HereOrBack(at[t])'
    <3>1. HereOrBack(w) BY <1>1, <1>3, <2>1, <2>2 DEF CopyFits
    <3>2. HereOrBack(w)' BY <3>1
    <3> QED BY <1>1, <2>1, <3>2
  <2>3. ASSUME ref'[t] = "own", t \in granted' PROVE Settled(t)' /\ acked' \subseteq copy'[t]
    <3>1. (lease = NoWorker \/ (lease = w /\ Returning(w))) /\ acked \subseteq copy[t]
      BY <1>1, <1>3, <2>1, <2>3 DEF CopyFits, Settled
    <3>2. lease' = NoWorker \/ (lease' = w /\ Returning(w)') BY <3>1
    <3> QED BY <1>1, <2>1, <3>1, <3>2 DEF Settled
  <2> QED BY <2>2, <2>3
<1> QED BY <1>2, <1>3 DEF CopyFits

LEMMA KeptStays ==
  ASSUME NEW x, Calm(x), Kept, UNCHANGED <<storage, live, acked>>, \A w \in Workers : HereOrBack(w)' => HereOrBack(w)
  PROVE  Kept'
<1>1. \A w \in Workers : HereOrBack(w)' => acked' \subseteq live'[w] BY DEF Kept
<1>2. ASSUME NEW w \in Workers, NEW m \in Items(down'[w]), LeaseGrant(m) PROVE acked' \subseteq m.val
  <2>1. m \in Items(down[w]) BY <1>2 DEF Calm, CalmDown
  <2> QED BY <1>2, <2>1 DEF Kept
<1> QED BY <1>1, <1>2 DEF Kept

LEMMA WritesStay ==
  ASSUME NEW x, OthersStay(x), x \in Txns => Fits(x) /\ Fits(x)' /\ pc[x] # "writing" /\ pc'[x] # "writing",
         NEW w \in Workers, WriteFits(w), writes'[w] = writes[w], HereOrBack(w) => HereOrBack(w)' /\ live[w] \subseteq live'[w]
  PROVE  WriteFits(w)'
<1>1. SUFFICES ASSUME NEW u \in Items(writes[w])
               PROVE  IF u \in Txns /\ at'[u] = w /\ ref'[u] # "live"
                      THEN ref'[u] = "own" /\ u \in granted' /\ u \in copy'[u]
                      ELSE HereOrBack(w)' /\ u \in live'[w]
  BY DEF WriteFits
<1>2. IF u \in Txns /\ at[u] = w /\ ref[u] # "live"
      THEN ref[u] = "own" /\ u \in granted /\ u \in copy[u]
      ELSE HereOrBack(w) /\ u \in live[w]
  BY DEF WriteFits
<1>3. CASE u # x BY <1>2, <1>3 DEF OthersStay, SameState, SameWork
<1>4. CASE u = x /\ x \in Txns
  <2>1. at[x] # w /\ at'[x] # w BY <1>4 DEF Fits, RoomFits
  <2> QED BY <1>2, <1>4, <2>1
<1>5. CASE u \notin Txns BY <1>2, <1>5
<1> QED BY <1>3, <1>4, <1>5

LEMMA OthersInformed ==
  ASSUME AllFit, NothingLost, NEW x, Calm(x), OthersStay(x), UNCHANGED <<lease, acked>>, HeldFromHere, BackToMain,
         \A w \in Workers : HereOrBack(w) => HereOrBack(w)', NEW t \in Txns, t # x
  PROVE  ReadFits(t)' /\ CopyFits(t)'
<1>1. Fits(t) /\ ReadFits(t) /\ CopyFits(t) BY DEF AllFit, NothingLost
<1>2. SameState(t) /\ \A w \in Workers : t \in asked'[w] => t \in asked[w] BY DEF OthersStay
<1>3. ReadFits(t)' BY <1>1, <1>2, ReadStays DEF SameState
<1>4. CopyFits(t)' BY <1>1, <1>2, CopyStays, CalmHere
<1> QED BY <1>3, <1>4

\* A step that moves no object, says nothing new of the lease, and leaves what it is about well
\* informed, leaves everybody so.
LEMMA QuietSaves ==
  ASSUME AllFit, AllFit', NothingLost, NEW x, Calm(x), OthersStay(x),
         UNCHANGED <<storage, lease, live, writes, acked>>, HeldFromHere, BackToMain, HereStays,
         x \in Txns => ReadFits(x)' /\ CopyFits(x)' /\ pc[x] # "writing" /\ pc'[x] # "writing"
  PROVE  NothingLost'
<1>1. Kept' BY KeptStays DEF NothingLost, HereStays
<1>2. ASSUME NEW t \in Txns PROVE ReadFits(t)' /\ CopyFits(t)'
  <2>1. CASE t = x BY <2>1
  <2>2. CASE t # x BY <2>2, OthersInformed DEF HereStays
  <2> QED BY <2>1, <2>2
<1>3. ASSUME NEW w \in Workers PROVE WriteFits(w)'
  <2>1. WriteFits(w) BY DEF NothingLost
  <2>2. x \in Txns => Fits(x) /\ Fits(x)' BY DEF AllFit
  <2> QED BY <2>1, <2>2, WritesStay DEF HereStays
<1> QED BY <1>1, <1>2, <1>3 DEF NothingLost

\* One that moves without reading or saving.
LEMMA PassingSaves ==
  ASSUME TypeOK, TypeOK', AllFit, AllFit', NothingLost, NEW x \in Txns, Moves(x),
         UNCHANGED <<storage, lease, live, releasing, writes, visit, vat, acked>>,
         pc'[x] \notin {"asking", "wasking", "loaded", "wqueued", "wloaded", "writing"}, pc[x] # "writing"
  PROVE  NothingLost'
<1>1. Calm(x) /\ OthersStay(x) BY TxnsAreMild, MildIsCalm DEF Moves
<1>2. HeldFromHere /\ BackToMain /\ HereStays
  BY DEF HeldFromHere, BackToMain, HereStays, HereOrBack, Held
<1>3. \A w \in Workers : Leave(down'[w], Msg("grant", x, NoVal))
  <2>1. ReadFits(x) BY DEF NothingLost
  <2> QED BY <1>1, <2>1, CalmLeaves DEF ReadFits
<1>4. ReadFits(x)' /\ CopyFits(x)' BY <1>3 DEF ReadFits, CopyFits, ReadsFirst
<1> QED BY <1>1, <1>2, <1>4, QuietSaves

LEMMA HeadSays ==
  ASSUME TypeOK, AllFit, NEW w \in Workers
  PROVE  /\ up[w] # <<>> /\ Head(up[w]).op \notin {"lease", "release"} =>
              /\ Head(up[w]).who \in Txns /\ Fits(Head(up[w]).who)
              /\ UpFits(Head(up[w]).who, Head(up[w]), w) /\ Head(up[w]) \in About(up[w], Head(up[w]).who)
         /\ down[w] # <<>> /\ Head(down[w]).op \notin {"leased", "leaseFailed"} =>
              /\ Head(down[w]).who \in Txns /\ Fits(Head(down[w]).who)
              /\ DownFits(Head(down[w]).who, Head(down[w]), w) /\ Head(down[w]) \in About(down[w], Head(down[w]).who)
<1>1. ASSUME up[w] # <<>>, Head(up[w]).op \notin {"lease", "release"}
      PROVE  /\ Head(up[w]).who \in Txns /\ Fits(Head(up[w]).who)
             /\ UpFits(Head(up[w]).who, Head(up[w]), w) /\ Head(up[w]) \in About(up[w], Head(up[w]).who)
  <2>1. PICK t \in Txns : t = Head(up[w]).who BY <1>1, UpHead
  <2>2. Fits(t) /\ Head(up[w]) \in About(up[w], t) BY <1>1, <2>1, HeadAbout DEF AllFit
  <2> QED BY <2>1, <2>2 DEF Fits, MailFits
<1>2. ASSUME down[w] # <<>>, Head(down[w]).op \notin {"leased", "leaseFailed"}
      PROVE  /\ Head(down[w]).who \in Txns /\ Fits(Head(down[w]).who)
             /\ DownFits(Head(down[w]).who, Head(down[w]), w) /\ Head(down[w]) \in About(down[w], Head(down[w]).who)
  <2>1. PICK t \in Txns : t = Head(down[w]).who BY <1>2, DownHead
  <2>2. Fits(t) /\ Head(down[w]) \in About(down[w], t) BY <1>2, <2>1, HeadAbout DEF AllFit
  <2> QED BY <2>1, <2>2 DEF Fits, MailFits
<1> QED BY <1>1, <1>2

LEMMA PassingTurns ==
  ASSUME TypeOK, TypeOK', AllFit, NothingLost, NEW t \in Txns, NEW w \in Workers,
         \/ Rpc(t) \/ BorrowAgain(t) \/ TownTurn(t) \/ LostLockReturned(t) \/ SecondAccount(t, w)
         \/ TransactionEnds(t) \/ HoldForElsewhere(t, w) \/ HoldTurn(t, w)
  PROVE  NothingLost'
<1> DEFINE goal == /\ AllFit' /\ Moves(t) /\ UNCHANGED <<storage, lease, live, releasing, writes, visit, vat, acked>>
                   /\ pc'[t] \notin {"asking", "wasking", "loaded", "wqueued", "wloaded", "writing"} /\ pc[t] # "writing"
<1>0. Fits(t) /\ pc \in [Txns -> TxnStates] BY DEF AllFit, TypeOK, TxnsTypeOK
<1>1. ASSUME Rpc(t) PROVE goal
  BY <1>0, <1>1, RpcFits DEF Rpc, DispatchWhereOwned, workerVars, visitVars, ghostVars
<1>2. ASSUME BorrowAgain(t) PROVE goal
  BY <1>0, <1>2, BorrowAgainFits DEF BorrowAgain, BorrowLock, workerVars, visitVars, ghostVars
<1>3. ASSUME TownTurn(t) PROVE goal
  BY <1>0, <1>3, TownTurnFits DEF TownTurn, workerVars, visitVars, ghostVars
<1>4. ASSUME LostLockReturned(t) PROVE goal
  <2>1. Over(t) BY <1>0, <1>4 DEF LostLockReturned, Fits, TxnFits
  <2> QED BY <1>4, <2>1, LostLockReturnedFits DEF LostLockReturned, workerVars, visitVars, ghostVars, Over
<1>5. ASSUME SecondAccount(t, w) PROVE goal
  BY <1>0, <1>5, SecondAccountFits DEF SecondAccount, mainVars, workerVars, visitVars, ghostVars
<1>6. ASSUME TransactionEnds(t) PROVE goal
  BY <1>0, <1>6, TransactionEndsFits DEF TransactionEnds, mainVars, visitVars, ghostVars
<1>7. ASSUME HoldForElsewhere(t, w) PROVE goal
  BY <1>0, <1>7, HoldForElsewhereFits DEF HoldForElsewhere, mainVars, txnVars, visitVars, ghostVars
<1>8. ASSUME HoldTurn(t, w) PROVE goal
  BY <1>0, <1>8, HoldTurnFits DEF HoldTurn, mainVars, txnVars, visitVars, ghostVars
<1>9. goal BY <1>1, <1>2, <1>3, <1>4, <1>5, <1>6, <1>7, <1>8
<1> QED BY <1>9, PassingSaves

LEMMA PassingMessages ==
  ASSUME TypeOK, TypeOK', AllFit, NothingLost, NEW w \in Workers,
         \/ RpcRetry(w) \/ LockAsked(w) \/ HoldAnswered(w) \/ PatchHeld(w) \/ PatchAnswered(w) \/ LockReturned(w)
         \/ RpcForwarded(w) \/ LockRefused(w) \/ PatchSettled(w) \/ ReleaseForElsewhere(w)
  PROVE  NothingLost'
<1>0. pc \in [Txns -> TxnStates] BY DEF TypeOK, TxnsTypeOK
<1>1. ASSUME UpIs(w, "retry") \/ UpIs(w, "lock") \/ UpIs(w, "held") \/ UpIs(w, "patch") \/ UpIs(w, "patched") \/ UpIs(w, "unlock"),
             NEW t, t = Head(up[w]).who
      PROVE  /\ t \in Txns
             /\ UpIs(w, "retry") => pc[t] = "forwarded"
             /\ UpIs(w, "lock") => pc[t] = "locking"
             /\ UpIs(w, "held") => pc[t] = "holding"
             /\ UpIs(w, "patch") => pc[t] = "patching"
             /\ UpIs(w, "patched") => pc[t] \in {"patching", "failed"}
             /\ UpIs(w, "unlock") => pc[t] \in {"done", "failed"}
  BY <1>1, HeadSays DEF UpIs, UpFits, Works, Calls, Over
<1>2. ASSUME DownIs(w, "rpcOwn") \/ DownIs(w, "rpcOther") \/ DownIs(w, "refused") \/ DownIs(w, "patched") \/ DownIs(w, "unhold"),
             NEW t, t = Head(down[w]).who
      PROVE  /\ t \in Txns
             /\ DownIs(w, "rpcOwn") \/ DownIs(w, "rpcOther") => pc[t] = "forwarded"
             /\ DownIs(w, "refused") => pc[t] = "locking"
             /\ DownIs(w, "patched") => pc[t] = "patching"
             /\ DownIs(w, "unhold") => pc[t] \in {"done", "failed"}
  BY <1>2, HeadSays DEF DownIs, DownFits, Works, Calls, Over
<1>3. CASE RpcRetry(w)
  <2>1. PICK t \in Txns : t = Head(up[w]).who /\ pc[t] = "forwarded" BY <1>1, <1>3 DEF RpcRetry
  <2> QED BY <1>0, <1>3, <2>1, RpcRetryFits, PassingSaves DEF RpcRetry, DispatchWhereOwned, workerVars, visitVars, ghostVars
<1>4. CASE LockAsked(w)
  <2>1. PICK t \in Txns : t = Head(up[w]).who /\ pc[t] = "locking" BY <1>1, <1>4 DEF LockAsked
  <2> QED BY <1>0, <1>4, <2>1, LockAskedFits, PassingSaves DEF LockAsked, BorrowLock, workerVars, visitVars, ghostVars
<1>5. CASE HoldAnswered(w)
  <2>1. PICK t \in Txns : t = Head(up[w]).who /\ pc[t] = "holding"
    BY <1>1, <1>5 DEF HoldAnswered
  <2> QED BY <1>0, <1>5, <2>1, HoldAnsweredFits, PassingSaves DEF HoldAnswered, workerVars, visitVars, ghostVars
<1>6. CASE PatchHeld(w)
  <2>1. PICK t \in Txns : t = Head(up[w]).who /\ pc[t] = "patching" BY <1>1, <1>6 DEF PatchHeld
  <2> QED BY <1>0, <1>6, <2>1, PatchHeldFits, PassingSaves DEF PatchHeld, mainVars, workerVars, visitVars, ghostVars
<1>7. CASE PatchAnswered(w)
  <2>1. PICK t \in Txns : t = Head(up[w]).who /\ pc[t] \in {"patching", "failed"}
    BY <1>1, <1>7 DEF PatchAnswered
  <2> QED BY <1>0, <1>7, <2>1, PatchAnsweredFits, PassingSaves DEF PatchAnswered, mainVars, workerVars, visitVars, ghostVars
<1>8. CASE LockReturned(w)
  <2>1. PICK t \in Txns : t = Head(up[w]).who /\ pc[t] \in {"done", "failed"}
    BY <1>1, <1>8 DEF LockReturned
  <2> QED BY <1>0, <1>8, <2>1, LockReturnedFits, PassingSaves DEF LockReturned, txnVars, workerVars, visitVars, ghostVars
<1>9. CASE RpcForwarded(w)
  <2>1. PICK t \in Txns : t = Head(down[w]).who /\ pc[t] = "forwarded"
    BY <1>2, <1>9 DEF RpcForwarded
  <2> QED BY <1>0, <1>9, <2>1, RpcForwardedFits, PassingSaves DEF RpcForwarded, mainVars, workerVars, visitVars, ghostVars
<1>10. CASE LockRefused(w)
  <2>1. PICK t \in Txns : t = Head(down[w]).who /\ pc[t] = "locking"
    BY <1>2, <1>10 DEF LockRefused
  <2> QED BY <1>0, <1>10, <2>1, LockRefusedFits, PassingSaves DEF LockRefused, mainVars, workerVars, visitVars, ghostVars
<1>11. CASE PatchSettled(w)
  <2>1. PICK t \in Txns : t = Head(down[w]).who /\ pc[t] = "patching"
    BY <1>2, <1>11 DEF PatchSettled
  <2> QED BY <1>0, <1>11, <2>1, PatchSettledFits, PassingSaves DEF PatchSettled, mainVars, workerVars, visitVars, ghostVars
<1>12. CASE ReleaseForElsewhere(w)
  <2>1. PICK t \in Txns : t = Head(down[w]).who /\ pc[t] \in {"done", "failed"}
    BY <1>2, <1>12 DEF ReleaseForElsewhere
  <2> QED BY <1>0, <1>12, <2>1, ReleaseForElsewhereFits, PassingSaves DEF ReleaseForElsewhere, mainVars, txnVars, visitVars, ghostVars
<1> QED BY <1>3, <1>4, <1>5, <1>6, <1>7, <1>8, <1>9, <1>10, <1>11, <1>12

\* An entry that comes or goes leaves the object where it is; the last to leave starts the
\* lease back.
LEMMA EntryTurns ==
  ASSUME TypeOK, TypeOK', LeaseInv, AllFit, NothingLost, NEW e \in Visits, NEW w \in Workers,
         \/ Enter(e, w) \/ AcquireLease(e) \/ LeaseAgain(e) \/ LeaseTimeout(e) \/ ReleaseLease(e)
         \/ LeaseTurn(e) /\ lease' = lease
  PROVE  NothingLost'
<1>0. e \notin Txns /\ e # Main BY NamesAssumption
<1>1. AllFit' /\ Moves(e)
  <2>1. CASE Enter(e, w)
    <3>1. UNCHANGED <<borrowed, chain, holds, asked, up, down, writes, pc, at, awaiting, ref, copy, base, granted, orphans, lost>>
      BY <2>1 DEF Enter, mainVars, workerVars, txnVars
    <3> QED BY <3>1, StillFits DEF Moves, UpMoves, DownMoves, ChainMoves, WritesMove, OthersStay, SameState, SameWork
  <2> QED BY <2>1, EntriesFit
<1>3. visit \in [Visits -> {"new", "acquiring", "asked", "waiting", "woken", "answered", "in", "out"}]
  BY DEF TypeOK, VisitsTypeOK
<1>2. Mild(e)
  <2>1. \/ up' = up
        \/ \E v, m : m.who = e /\ up' = Post(up, v, m)
    BY MsgIs DEF Enter, AcquireLease, LeaseAgain, LeaseTimeout, ReleaseLease, LeaseTurn
  <2>2. \/ down' = down
        \/ \E v, m : m.who = e /\ ~LeaseGrant(m) /\ down' = Post(down, v, m)
    <3>1. \A x, v : Msg(x, e, v).who = e /\ (LeaseGrant(Msg(x, e, v)) <=> x = "leased" /\ v # NoVal)
      BY MsgIs DEF LeaseGrant
    <3>2. CASE LeaseTurn(e) /\ lease' = lease
      <4>1. vat[e] \in Workers BY <1>3, <3>2 DEF LeaseTurn, LeaseInv, EntriesHaveWorkers
      <4>2. \/ down' = down
            \/ \E x \in {"leased", "leaseFailed"} : down' = Post(down, vat[e], Msg(x, e, NoVal))
        BY <3>2, <4>1, NamesAssumption DEF LeaseTurn
      <4> QED BY <3>1, <4>2
    <3> QED BY <3>1, <3>2 DEF Enter, AcquireLease, LeaseAgain, LeaseTimeout, ReleaseLease
  <2> QED BY <2>1, <2>2 DEF Mild
<1>4. UNCHANGED <<storage, live, writes, acked>> /\ lease' = lease
  BY DEF Enter, AcquireLease, LeaseAgain, LeaseTimeout, ReleaseLease, LeaseTurn, mainVars, workerVars, ghostVars
<1>5. HeldFromHere /\ BackToMain /\ HereStays
  <2>1. ASSUME ~ReleaseLease(e) PROVE releasing' = releasing /\ \A v \in Workers : Held(v)' <=> Held(v)
    <3>1. CASE Enter(e, w) BY <1>3, <3>1 DEF Enter, Held, workerVars
    <3>2. CASE AcquireLease(e) BY <1>3, <3>2 DEF AcquireLease, Held
    <3>3. CASE LeaseAgain(e) BY <1>3, <3>3 DEF LeaseAgain, Held, workerVars
    <3>4. CASE LeaseTimeout(e) BY <1>3, <3>4 DEF LeaseTimeout, Held, workerVars
    <3>5. CASE LeaseTurn(e) BY <1>3, <3>5 DEF LeaseTurn, Held, workerVars
    <3> QED BY <2>1, <3>1, <3>2, <3>3, <3>4, <3>5
  <2>2. CASE ReleaseLease(e)
    <3>1. ASSUME NEW v \in Workers PROVE /\ Held(v)' => Held(v)
                                         /\ releasing[v] => releasing'[v]
                                         /\ HereOrBack(v)' <=> HereOrBack(v)
      <4>1. releasing'[v] = (releasing[v] \/ (v = vat[e] /\ \A f \in Visits \ {e} : ~(visit[f] = "in" /\ vat[f] = v)))
        BY <2>2 DEF ReleaseLease, TypeOK, WorkersTypeOK
      <4>2. visit[e] = "in" /\ visit'[e] = "out" /\ vat' = vat /\ \A f \in Visits \ {e} : visit'[f] = visit[f]
        BY <1>3, <2>2 DEF ReleaseLease
      <4>3. Held(v) <=> (vat[e] = v \/ \E f \in Visits \ {e} : visit[f] = "in" /\ vat[f] = v)
        BY <4>2 DEF Held
      <4>4. Held(v)' <=> \E f \in Visits \ {e} : visit[f] = "in" /\ vat[f] = v BY <4>2 DEF Held
      <4> QED BY <4>1, <4>3, <4>4 DEF HereOrBack
    <3> QED BY <3>1 DEF HeldFromHere, BackToMain, HereStays
  <2> QED BY <2>1, <2>2 DEF HeldFromHere, BackToMain, HereStays, HereOrBack
<1> QED BY <1>0, <1>1, <1>2, <1>4, <1>5, MildIsCalm, QuietSaves DEF Moves

LEMMA StillSaves ==
  ASSUME TypeOK, TypeOK', AllFit, AllFit', NothingLost, NEW x, x \notin Txns, Mild(x), OthersStay(x),
         UNCHANGED <<storage, lease, live, writes, releasing, acked>>, \A v \in Workers : Held(v)' <=> Held(v)
  PROVE  NothingLost'
<1>1. Calm(x) /\ HeldFromHere /\ BackToMain /\ HereStays
  BY MildIsCalm DEF HeldFromHere, BackToMain, HereStays, HereOrBack
<1> QED BY <1>1, QuietSaves

LEMMA EntryAnswers ==
  ASSUME TypeOK, TypeOK', LeaseInv, AllFit, NothingLost, NEW w \in Workers,
         LeaseAsked(w) \/ LeaseRefused(w) \/ LeaseGranted(w)
  PROVE  NothingLost'
<1>0. visit \in [Visits -> {"new", "acquiring", "asked", "waiting", "woken", "answered", "in", "out"}]
  BY DEF TypeOK, VisitsTypeOK
<1>1. CASE LeaseAsked(w)
  <2>1. PICK e \in Visits : e = Head(up[w]).who BY <1>1, UpHead DEF LeaseAsked, UpIs
  <2>2. AllFit' /\ Moves(e) /\ e \notin Txns BY <1>1, <2>1, LeaseAskedFits, NamesAssumption
  <2>3. Mild(e) BY <1>1 DEF LeaseAsked, UpIs, Mild
  <2>4. UNCHANGED <<storage, lease, live, writes, releasing, acked>> /\ \A v \in Workers : Held(v)' <=> Held(v)
    BY <1>1 DEF LeaseAsked, workerVars, visitVars, ghostVars, Held
  <2> QED BY <2>2, <2>3, <2>4, StillSaves DEF Moves
<1>2. CASE LeaseRefused(w) \/ LeaseGranted(w)
  <2>0. down[w] # <<>> /\ Head(down[w]).op \in {"leased", "leaseFailed"} /\ TakeDown(w)
    BY <1>2 DEF LeaseGranted, LeaseRefused, DownIs
  <2>s. PICK s \in Seq(DownMsg) : s = down[w] /\ s # <<>> BY <2>0 DEF TypeOK, ChannelsTypeOK
  <2>m. PICK m \in DownMsg : m = Head(s) /\ m = s[1] /\ m \in Items(s) /\ 1 \in 1..Len(s)
    <3>1. Head(s) \in DownMsg /\ Head(s) = s[1] BY <2>s, HeadTailProperties
    <3>2. Head(s) \in Items(s) BY <2>s, ItemsTaken
    <3>3. 1 \in 1..Len(s) BY <2>s, LenProperties, EmptySeq
    <3> QED BY <3>1, <3>2, <3>3
  <2>1. PICK e \in Visits : e = m.who BY <2>0, <2>s, <2>m, DownHead
  <2>2. AllFit' /\ Moves(e) /\ e \notin Txns
    BY <1>2, <2>s, <2>m, <2>1, EntryAnswersFit, NamesAssumption
  <2>3. Mild(e) BY <1>2, <2>0 DEF LeaseRefused, LeaseGranted, Mild
  <2>4. vat[e] = w /\ visit[e] = "answered"
    BY <2>0, <2>s, <2>m, <2>1 DEF LeaseInv, AnswersAreAwaited, LeaseAnswer
  <2>5. /\ UNCHANGED <<storage, lease, writes, releasing, acked, vat>>
        /\ visit' = [visit EXCEPT ![e] = "in"] \/ visit' = [visit EXCEPT ![e] = "out"]
    BY <1>2, <2>s, <2>m, <2>1 DEF LeaseRefused, LeaseGranted, mainVars, ghostVars
  <2>6. \A v \in Workers : /\ Held(v)' => Held(v) \/ (v = w /\ visit'[e] = "in")
                           /\ Held(v) => Held(v)'
    BY <1>0, <2>4, <2>5 DEF Held
  <2>7. CASE live' = live /\ (visit'[e] = "in" => Held(w))
    BY <2>2, <2>3, <2>5, <2>6, <2>7, StillSaves DEF Moves
  <2>8. CASE ~Held(w) /\ m.val # NoVal /\ LeaseGranted(w)
    <3>1. m.op = "leased" /\ LeaseGrant(m) /\ live' = [live EXCEPT ![w] = m.val]
      BY <2>s, <2>m, <2>8 DEF LeaseGranted, DownIs, LeaseGrant
    <3>2. Granting(w) BY <2>s, <2>m, <3>1 DEF Granting
    <3>3. ~HereOrBack(w) BY <2>8, <3>2 DEF LeaseInv, LeaseIsInOnePlace, HereOrBack
    <3>4. Calm(e) /\ HeldFromHere /\ BackToMain
      BY <2>3, <2>5, <2>6, <3>2, MildIsCalm DEF HeldFromHere, BackToMain
    <3>5. \A v \in Workers : /\ live'[v] = (IF v = w THEN m.val ELSE live[v])
                             /\ HereOrBack(v) => HereOrBack(v)' /\ v # w
                             /\ HereOrBack(v)' => HereOrBack(v) \/ v = w
      BY <2>5, <2>6, <3>1, <3>3 DEF TypeOK, WorkersTypeOK, HereOrBack
    <3>6. Kept /\ acked \subseteq m.val BY <2>s, <2>m, <3>1 DEF NothingLost, Kept
    <3>7. Kept'
      <4>1. \A v \in Workers : HereOrBack(v)' => acked' \subseteq live'[v]
        BY <2>5, <3>5, <3>6 DEF Kept
      <4>2. ASSUME NEW v \in Workers, NEW n \in Items(down'[v]), LeaseGrant(n) PROVE acked' \subseteq n.val
        <5>1. n \in Items(down[v]) BY <3>4, <4>2 DEF Calm, CalmDown
        <5> QED BY <2>5, <3>6, <4>2, <5>1 DEF Kept
      <4> QED BY <2>5, <3>6, <4>1, <4>2 DEF Kept
    <3>8. ASSUME NEW t \in Txns PROVE ReadFits(t)' /\ CopyFits(t)'
      BY <2>2, <2>5, <3>4, <3>5, OthersInformed DEF Moves
    <3>9. ASSUME NEW v \in Workers PROVE WriteFits(v)'
      BY <2>2, <2>5, <3>5, WritesStay DEF Moves, NothingLost
    <3> QED BY <3>7, <3>8, <3>9 DEF NothingLost
  <2>9. (live' = live /\ (visit'[e] = "in" => Held(w))) \/ (~Held(w) /\ m.val # NoVal /\ LeaseGranted(w))
    BY <1>0, <1>2, <2>s, <2>m, <2>1 DEF LeaseRefused, LeaseGranted
  <2> QED BY <2>7, <2>8, <2>9
<1> QED BY <1>1, <1>2

LEMMA NoStepSaves ==
  ASSUME TypeOK, TypeOK', AllFit, NothingLost, UNCHANGED vars \/ \E w \in Workers : WorkerReplaced(w)
  PROVE  NothingLost'
<1>1. /\ UNCHANGED <<borrowed, chain, holds, asked, up, down, writes, pc, at, awaiting, ref, copy, base, granted, orphans, lost>>
      /\ UNCHANGED <<storage, lease, live, releasing, acked, visit, vat>>
  BY DEF vars, WorkerReplaced, mainVars, workerVars, txnVars, visitVars, ghostVars
<1>2. AllFit' /\ Moves(Main) BY <1>1, StillFits
<1>3. Mild(Main) /\ (\A v \in Workers : Held(v)' <=> Held(v)) /\ Main \notin Txns
  BY <1>1, NamesAssumption DEF Mild, Held
<1> QED BY <1>1, <1>2, <1>3, StillSaves DEF Moves

-----------------------------------------------------------------------------
\* What it means for a read to be the first message, or none.
LEMMA Absent ==
  ASSUME NEW s, NEW t, About(s, t) = {}, NEW a, a.who = t
  PROVE  a \notin Items(s) /\ Leave(s, a) /\ After(s, a)
BY DEF About, Items, Leave, After

LEMMA FirstOfAll ==
  ASSUME NEW S, NEW s \in Seq(S), s # <<>>, NEW a, a = Head(s)
  PROVE  /\ Leave(s, a) => \A m \in Items(s) : ~LeaseGrant(m)
         /\ ~After(s, a)
<1>1. Len(s) \in Nat /\ 1 \in 1..Len(s) /\ s[1] = a
  BY LenProperties, EmptySeq, HeadTailProperties
<1>2. ASSUME Leave(s, a), NEW j \in 1..Len(s), LeaseGrant(s[j]) PROVE FALSE
  <2>1. j < 1 BY <1>1, <1>2 DEF Leave
  <2> QED BY <1>1, <2>1
<1>3. After(s, a) => \E j \in 1..(1 - 1) : s[j].op = "release" BY <1>1 DEF After
<1> QED BY <1>2, <1>3 DEF Items

LEMMA MsgWhole ==
  /\ \A m \in UpMsg : m = Msg(m.op, m.who, m.val) /\ (m.op = "account" => m.val = NoVal)
  /\ \A m \in DownMsg : m = Msg(m.op, m.who, m.val) /\ (m.op = "account" => m.val = NoVal)
BY DEF UpMsg, DownMsg, Msg

\* A transaction that moves, and does not save.
Moving(x) ==
  /\ TypeOK /\ TypeOK' /\ AllFit /\ AllFit' /\ NothingLost /\ Moves(x)
  /\ UNCHANGED <<storage, lease, live, releasing, writes, visit, vat, acked>>
  /\ pc[x] # "writing"

LEMMA MovingSaves ==
  ASSUME NEW x \in Txns, Moving(x), pc'[x] # "writing", ReadsFirst(x)' => InOrder(x)', CopyFits(x)',
         (pc[x] = "wqueued" /\ InTownLock(x) => ~Granting(at[x]))'
  PROVE  NothingLost'
<1>1. Calm(x) /\ OthersStay(x) BY TxnsAreMild, MildIsCalm DEF Moves, Moving
<1>2. HeldFromHere /\ BackToMain /\ HereStays
  BY DEF HeldFromHere, BackToMain, HereStays, HereOrBack, Held, Moving
<1>3. \A w \in Workers : Leave(down'[w], Msg("grant", x, NoVal))
  <2>1. ReadFits(x) BY DEF NothingLost, Moving
  <2> QED BY <1>1, <2>1, CalmLeaves DEF ReadFits
<1>4. ReadFits(x)' BY <1>3 DEF ReadFits
<1> QED BY <1>1, <1>2, <1>4, QuietSaves DEF Moving

LEMMA MovingStays ==
  ASSUME NEW x \in Txns, Moving(x), NEW w \in Workers
  PROVE  /\ Held(w)' <=> Held(w)
         /\ Granting(w)' => Granting(w)
         /\ Returning(w) => Returning(w)'
         /\ \A a : Leave(down[w], a) => Leave(down'[w], a)
<1>1. Calm(x) BY TxnsAreMild, MildIsCalm DEF Moving
<1> QED BY <1>1, CalmHere, CalmLeaves DEF Held, Moving

LEMMA PostedItems ==
  ASSUME TypeOK, NEW v \in Workers, NEW w, NEW m
  PROVE  /\ \A a \in Items(Post(up, w, m)[v]) : a \in Items(up[v]) \/ (a = m /\ v = w)
         /\ \A a \in Items(Post(down, w, m)[v]) : a \in Items(down[v]) \/ (a = m /\ v = w)
<1>1. ASSUME NEW S, NEW ch \in [Workers -> Seq(S)], NEW a \in Items(Post(ch, w, m)[v])
      PROVE  a \in Items(ch[v]) \/ (a = m /\ v = w)
  <2>1. PICK s \in Seq(S) : s = ch[v] BY <1>1
  <2>2. Post(ch, w, m)[v] = IF v = w THEN Append(s, m) ELSE s BY <2>1 DEF Post
  <2>3. Items(Append(s, m)) = Items(s) \cup {m} BY ItemsPosted
  <2> QED BY <1>1, <2>1, <2>2, <2>3
<1>2. up \in [Workers -> Seq(UpMsg)] /\ down \in [Workers -> Seq(DownMsg)]
  BY DEF TypeOK, ChannelsTypeOK
<1> QED BY <1>1, <1>2

LEMMA MainLoadSaves ==
  ASSUME TypeOK, TypeOK', AllFit, NothingLost, NEW t \in Txns, MainLoad(t)
  PROVE  NothingLost'
<1>1. /\ pc[t] = "queued" /\ Fits(t)
      /\ UNCHANGED <<storage, mainVars, workerVars, up, at, base, granted, orphans, handedBack,
                 lost, behind, visitVars, ghostVars>>
  BY DEF MainLoad, AllFit
<1>2. Moving(t) BY <1>1, MainLoadFits DEF Moving, mainVars, workerVars, visitVars, ghostVars
<1>3. Unplaced(t) BY <1>1, IdleIs DEF Idle, Over
<1>4. CASE OwnerOf = NoWorker
  <2>1. pc'[t] = "loaded" /\ copy'[t] = storage BY <1>4 DEF MainLoad, TypeOK, TxnsTypeOK
  <2>2. CopyFits(t)'
    BY <1>1, <1>4, <2>1 DEF CopyFits, NothingLost, Kept, mainVars, ghostVars, OwnerOf
  <2> QED BY <1>2, <2>1, <2>2, MovingSaves DEF ReadsFirst
<1>5. CASE OwnerOf # NoWorker
  <2> DEFINE a == Msg("account", t, NoVal)  l == Msg("live", t, NoVal)
  <2>0. /\ a.who = t /\ l.who = t /\ a.op = "account" /\ l.op = "live" /\ a # l
        /\ ~LeaseGrant(a)
    BY MsgIs DEF LeaseGrant
  <2>1. PICK u \in Workers : u = lease BY <1>5 DEF OwnerOf, TypeOK, MainTypeOK
  <2>2. pc'[t] = "asking" /\ awaiting'[t] = u /\ down' = Post(down, u, a) /\ lease' = u
    BY <1>1, <1>5, <2>1 DEF MainLoad, TypeOK, TxnsTypeOK, OwnerOf, mainVars
  <2> HIDE DEF a, l
  <2>3. ASSUME NEW v \in Workers
        PROVE  /\ Leave(down'[v], a) /\ t \notin asked'[v] /\ After(up'[v], l) /\ a \notin Items(up'[v])
               /\ l \notin Items(down'[v])
    <3>1. About(up[v], t) = {} /\ About(down[v], t) = {} /\ t \notin asked[v]
      BY <1>3 DEF Unplaced, Clear, Elsewhere
    <3>2. After(up[v], l) /\ a \notin Items(up[v]) /\ Leave(down[v], a) /\ l \notin Items(down[v])
      BY <2>0, <3>1, Absent
    <3>3. Leave(down'[v], a) BY <1>2, <3>2, MovingStays
    <3>4. l \notin Items(down'[v]) BY <2>0, <2>2, <3>2, PostedItems
    <3> QED BY <1>1, <3>1, <3>2, <3>3, <3>4 DEF workerVars
  <2>4. InOrder(t)' BY <2>2, <2>3 DEF InOrder, a, l
  <2>5. CopyFits(t)' BY <2>2 DEF CopyFits
  <2> QED BY <1>2, <2>2, <2>4, <2>5, MovingSaves
<1> QED BY <1>4, <1>5

LEMMA AccountAnsweredSaves ==
  ASSUME TypeOK, TypeOK', AllFit, NothingLost, NEW w \in Workers, AccountAnswered(w)
  PROVE  NothingLost'
<1>m. PICK m \in UpMsg : up[w] # <<>> /\ m = Head(up[w]) /\ m.op = "live"
  BY UpHead DEF AccountAnswered, UpIs
<1>t. PICK t \in Txns : t = m.who BY <1>m, UpHead
<1>1. /\ awaiting'[t] = (IF awaiting[t] = w THEN NoWorker ELSE awaiting[t])
      /\ TakeUp(w)
      /\ UNCHANGED <<storage, mainVars, workerVars, at, base, granted, orphans, handedBack,
                 lost, behind, visitVars, ghostVars>>
  BY <1>m, <1>t DEF AccountAnswered, TypeOK, TxnsTypeOK
<1>2. Fits(t) /\ (Calls(t, w, Reading) \/ pc[t] = "failed") BY <1>m, <1>t, HeadSays DEF UpFits
<1>3. Moving(t)
  BY <1>1, <1>2, <1>m, <1>t, AccountAnsweredFits DEF Moving, mainVars, workerVars, visitVars, ghostVars, Calls, Reading
<1>4. ASSUME ReadsFirst(t), m.val = NoVal PROVE lease = NoWorker
  <2>1. InOrder(t) BY <1>4 DEF NothingLost, ReadFits
  <2>2. m = Msg("live", t, NoVal) BY <1>m, <1>t, <1>4, MsgWhole
  <2>3. PICK s \in Seq(UpMsg) : s = up[w] /\ s # <<>> /\ Head(s) = Msg("live", t, NoVal)
    BY <1>m, <2>2 DEF TypeOK, ChannelsTypeOK
  <2>4. ~After(up[w], Msg("live", t, NoVal)) BY <2>3, FirstOfAll
  <2>5. awaiting[t] = w BY <1>2, <1>4 DEF Calls, ReadsFirst
  <2> QED BY <2>1, <2>4, <2>5, NamesAssumption DEF InOrder
<1>5. CASE pc[t] = "asking"
  <2>1. /\ pc'[t] = "loaded"
        /\ IF m.val = NoVal THEN copy'[t] = storage /\ ref'[t] = "own" ELSE ref'[t] = "read"
    BY <1>m, <1>t, <1>5 DEF AccountAnswered, TypeOK, TxnsTypeOK
  <2>2. CopyFits(t)'
    BY <1>1, <1>4, <1>5, <2>1 DEF CopyFits, NothingLost, Kept, mainVars, ghostVars, ReadsFirst
  <2> QED BY <1>3, <2>1, <2>2, MovingSaves DEF ReadsFirst
<1>6. CASE pc[t] = "wasking"
  <2> DEFINE a == Msg("account", t, NoVal)  l == Msg("live", t, NoVal)  n == Msg("live", t, m.val)
  <2>0. a.who = t /\ l.who = t /\ n.who = t /\ n.val = m.val /\ l.val = NoVal BY MsgIs
  <2>1. pc' = pc /\ down' = Post(down, at[t], n) /\ awaiting'[t] = NoWorker
    BY <1>1, <1>2, <1>m, <1>t, <1>6 DEF AccountAnswered, Calls
  <2> HIDE DEF a, l, n
  <2>2. Clear(up', t) /\ Clear(down, t) /\ Elsewhere(t)
    BY <1>1, <1>2, <1>m, <1>t, <1>6, TakenUp DEF Over
  <2>3. ASSUME ReadsFirst(t), NEW v \in Workers
        PROVE  /\ Leave(down'[v], a) /\ t \notin asked'[v] /\ After(up'[v], l) /\ a \notin Items(up'[v])
               /\ l \in Items(down'[v]) => lease = NoWorker
    <3>1. About(up'[v], t) = {} /\ About(down[v], t) = {} /\ t \notin asked[v]
      BY <2>2 DEF Clear, Elsewhere
    <3>2. After(up'[v], l) /\ a \notin Items(up'[v]) /\ Leave(down[v], a) /\ l \notin Items(down[v])
      BY <2>0, <3>1, Absent
    <3>3. Leave(down'[v], a) BY <1>3, <3>2, MovingStays
    <3>4. l \in Items(down'[v]) => m.val = NoVal BY <2>0, <2>1, <3>2, PostedItems
    <3> QED BY <1>1, <1>4, <2>3, <3>1, <3>2, <3>3, <3>4 DEF workerVars
  <2>4. ReadsFirst(t)' => ReadsFirst(t) BY <1>1, <2>1 DEF ReadsFirst
  <2>5. ReadsFirst(t)' => InOrder(t)' BY <1>1, <2>1, <2>3, <2>4 DEF InOrder, a, l, mainVars
  <2>6. pc'[t] = "wasking" BY <1>6, <2>1
  <2>7. CopyFits(t)' BY <2>6 DEF CopyFits
  <2> QED BY <1>3, <2>5, <2>6, <2>7, MovingSaves
<1>7. CASE pc[t] = "failed"
  <2>1. pc'[t] = "failed" BY <1>m, <1>t, <1>7 DEF AccountAnswered
  <2> QED BY <1>3, <2>1, MovingSaves DEF ReadsFirst, CopyFits
<1> QED BY <1>2, <1>5, <1>6, <1>7 DEF Calls, Reading

LEMMA AccountAskedSaves ==
  ASSUME TypeOK, TypeOK', LeaseInv, AllFit, NothingLost, NEW w \in Workers, AccountAsked(w)
  PROVE  NothingLost'
<1> DEFINE a(t) == Msg("account", t, NoVal)  l(t) == Msg("live", t, NoVal)
<1>m. PICK m \in UpMsg : up[w] # <<>> /\ m = Head(up[w]) /\ m.op = "account"
  BY UpHead DEF AccountAsked, UpIs
<1>t. PICK t \in Txns : t = m.who BY <1>m, UpHead
<1>1. /\ TakeUp(w)
      /\ UNCHANGED <<storage, mainVars, workerVars, pc, at, ref, copy, base, granted, orphans,
                 handedBack, lost, behind, visitVars, ghostVars>>
  BY DEF AccountAsked
<1>2. Fits(t) /\ pc[t] = "wasking" /\ awaiting[t] = NoWorker /\ at[t] = w
  BY <1>m, <1>t, HeadSays DEF UpFits, Works
<1>3. Moving(t)
  BY <1>1, <1>2, <1>m, <1>t, AccountAskedFits DEF Moving, mainVars, workerVars, visitVars, ghostVars
<1>4. Clear(up', t) /\ Clear(down, t) /\ Elsewhere(t)
  BY <1>1, <1>2, <1>m, <1>t, TakenUp DEF Over
<1>5. m = a(t) /\ m \in Items(up[w])
  <2>1. m \in Items(up[w]) BY <1>m, HeadAbout DEF About
  <2> QED BY <1>m, <1>t, <2>1, MsgWhole
<1>6. a(t).who = t /\ l(t).who = t /\ a(t) # l(t) BY MsgIs
<1>7. pc'[t] = "wasking" /\ CopyFits(t)' BY <1>1, <1>2 DEF CopyFits
<1> HIDE DEF a, l
<1>8. ASSUME ReadsFirst(t)' PROVE InOrder(t)'
  <2>1. InOrder(t) BY <1>1, <1>8 DEF ReadsFirst, NothingLost, ReadFits
  <2>2. ASSUME NEW v \in Workers
        PROVE  /\ Leave(down'[v], a(t)) /\ t \notin asked'[v] /\ After(up'[v], l(t)) /\ a(t) \notin Items(up'[v])
               /\ l(t) \notin Items(down[v])
    <3>1. About(up'[v], t) = {} /\ About(down[v], t) = {} /\ t \notin asked[v]
      BY <1>4 DEF Clear, Elsewhere
    <3>2. After(up'[v], l(t)) /\ a(t) \notin Items(up'[v]) /\ Leave(down[v], a(t)) /\ l(t) \notin Items(down[v])
      BY <1>6, <3>1, Absent
    <3>3. Leave(down'[v], a(t)) BY <1>3, <3>2, MovingStays
    <3> QED BY <1>1, <3>1, <3>2, <3>3 DEF workerVars
  <2>3. CASE OwnerOf \in {NoWorker, w}
    <3>1. down' = Post(down, w, l(t)) /\ awaiting'[t] = NoWorker
      BY <1>2, <1>m, <1>t, <2>3 DEF AccountAsked, l
    <3>2. ASSUME NEW v \in Workers, l(t) \in Items(down'[v])
          PROVE  lease' = NoWorker \/ (lease' = v /\ (releasing'[v] \/ Returning(v)'))
      <4>1. v = w BY <2>2, <3>1, <3>2, PostedItems
      <4>2. ~Held(w) /\ ~Granting(w) BY <1>5, <2>1 DEF InOrder, a
      <4>3. lease = w => releasing[w] \/ Returning(w) BY <4>2 DEF LeaseInv, LeaseIsInOnePlace
      <4>4. Returning(w) => Returning(w)' BY <1>3, MovingStays
      <4> QED BY <1>1, <2>3, <4>1, <4>3, <4>4 DEF OwnerOf, mainVars, workerVars
    <3> QED BY <2>2, <3>1, <3>2 DEF InOrder, a, l
  <2>4. CASE OwnerOf \notin {NoWorker, w}
    <3>1. down' = Post(down, lease, a(t)) /\ awaiting'[t] = lease /\ lease' = lease
      BY <1>1, <1>m, <1>t, <2>4 DEF AccountAsked, a, OwnerOf, TypeOK, TxnsTypeOK, mainVars
    <3>2. \A v \in Workers : l(t) \notin Items(down'[v]) BY <1>6, <2>2, <3>1, PostedItems
    <3> QED BY <2>2, <3>1, <3>2 DEF InOrder, a, l
  <2> QED BY <2>3, <2>4
<1> QED BY <1>3, <1>7, <1>8, MovingSaves

LEMMA CallFailsSaves ==
  ASSUME TypeOK, TypeOK', AllFit, NothingLost, NEW t \in Txns, CallFails(t)
  PROVE  NothingLost'
<1>1. /\ awaiting[t] = Main /\ awaiting'[t] = NoWorker /\ Fits(t)
      /\ pc[t] \in {"asking", "wasking", "patching", "holding", "forwarded"}
      /\ UNCHANGED <<storage, mainVars, workerVars, up, at, base, granted, orphans, handedBack,
                 lost, behind, visitVars, ghostVars>>
  BY DEF CallFails, AllFit, TypeOK, TxnsTypeOK
<1>2. Moving(t) BY <1>1, CallFailsFits DEF Moving, mainVars, workerVars, visitVars, ghostVars
<1>3. Unplaced(t) BY <1>1, IdleIs DEF Idle, Over
<1>4. ReadsFirst(t) => lease = NoWorker
  <2>1. ReadsFirst(t) => InOrder(t) BY DEF NothingLost, ReadFits
  <2> QED BY <1>1, <2>1, NamesAssumption DEF InOrder, TypeOK, MainTypeOK
<1>5. CASE pc[t] = "asking"
  <2>1. pc'[t] = "loaded" /\ copy'[t] = storage BY <1>5 DEF CallFails, TypeOK, TxnsTypeOK
  <2>2. CopyFits(t)'
    BY <1>1, <1>4, <1>5, <2>1 DEF CopyFits, NothingLost, Kept, mainVars, ghostVars, ReadsFirst
  <2> QED BY <1>2, <2>1, <2>2, MovingSaves DEF ReadsFirst
<1>6. CASE pc[t] = "wasking"
  <2> DEFINE a == Msg("account", t, NoVal)  l == Msg("live", t, NoVal)
  <2>0. a.who = t /\ l.who = t BY MsgIs
  <2>1. pc' = pc BY <1>6 DEF CallFails
  <2> HIDE DEF a, l
  <2>2. ASSUME NEW v \in Workers
        PROVE  /\ Leave(down'[v], a) /\ t \notin asked'[v] /\ After(up'[v], l) /\ a \notin Items(up'[v])
    <3>1. About(up[v], t) = {} /\ About(down[v], t) = {} /\ t \notin asked[v]
      BY <1>3 DEF Unplaced, Clear, Elsewhere
    <3>2. After(up[v], l) /\ a \notin Items(up[v]) /\ Leave(down[v], a) BY <2>0, <3>1, Absent
    <3>3. Leave(down'[v], a) BY <1>2, <3>2, MovingStays
    <3> QED BY <1>1, <3>1, <3>2, <3>3 DEF workerVars
  <2>3. ReadsFirst(t)' => lease' = NoWorker BY <1>1, <1>4, <2>1 DEF ReadsFirst, mainVars
  <2>4. ReadsFirst(t)' => InOrder(t)' BY <1>1, <2>2, <2>3 DEF InOrder, a, l
  <2>5. pc'[t] = "wasking" /\ CopyFits(t)' BY <1>6, <2>1 DEF CopyFits
  <2> QED BY <1>2, <2>4, <2>5, MovingSaves
<1>7. CASE pc[t] \notin {"asking", "wasking"}
  <2>1. pc'[t] \in {"patching", "locking", "failed"}
    BY <1>1, <1>7 DEF CallFails, TypeOK, TxnsTypeOK
  <2> QED BY <1>2, <2>1, MovingSaves DEF ReadsFirst, CopyFits
<1> QED BY <1>5, <1>6, <1>7

LEMMA WorkerLockSaves ==
  ASSUME TypeOK, TypeOK', AllFit, NothingLost, NEW t \in Txns, WorkerLock(t)
  PROVE  NothingLost'
<1>1. pc[t] \in {"arrived", "arrivedOwn"} /\ pc'[t] \in {"wqueued", "forwarded", "locking"} /\ Fits(t)
      /\ UNCHANGED <<storage, mainVars, alive, live, releasing, writes, acquiring, holds, asked,
                    down, ref, copy, base, granted, orphans, handedBack, lost, behind, visitVars,
                    ghostVars>>
  BY DEF WorkerLock, AllFit, TypeOK, TxnsTypeOK
<1>2. Moving(t) BY <1>1, WorkerLockFits DEF Moving, mainVars, visitVars, ghostVars
<1>3. ~InTownLock(t)' BY <1>1 DEF InTownLock, Fits, TxnFits, Early
<1> QED BY <1>1, <1>2, <1>3, MovingSaves DEF ReadsFirst, CopyFits

LEMMA LockGrantedSaves ==
  ASSUME TypeOK, TypeOK', AllFit, NothingLost, NEW w \in Workers, LockGranted(w)
  PROVE  NothingLost'
<1>m. PICK m \in DownMsg : down[w] # <<>> /\ m = Head(down[w]) /\ m.op = "grant"
  BY DownHead DEF LockGranted, DownIs
<1>t. PICK t \in Txns : t = m.who BY <1>m, DownHead
<1>1. /\ pc'[t] = "wqueued" /\ base'[t] = m.val /\ at' = at
      /\ UNCHANGED <<storage, mainVars, alive, live, releasing, writes, acquiring, holds, asked, up,
                 at, awaiting, ref, copy, orphans, handedBack, lost, behind, visitVars,
                 ghostVars>>
  BY <1>m, <1>t DEF LockGranted, TypeOK, TxnsTypeOK
<1>2. Fits(t) /\ pc[t] \in {"townQueued", "holding"} /\ at[t] = w
  BY <1>m, <1>t, HeadSays DEF DownFits, Works
<1>3. Moving(t)
  BY <1>1, <1>2, <1>m, <1>t, LockGrantedFits DEF Moving, mainVars, visitVars, ghostVars
<1>4. ASSUME m.val = NoVal PROVE ~Granting(w)'
  <2>1. PICK s \in Seq(DownMsg) : s = down[w] /\ s # <<>> /\ Head(s) = m
    BY <1>m DEF TypeOK, ChannelsTypeOK
  <2>2. m = Msg("grant", t, NoVal) BY <1>m, <1>t, <1>4, MsgWhole
  <2>3. Leave(s, m) BY <2>1, <2>2 DEF NothingLost, ReadFits
  <2>4. ~Granting(w) BY <2>1, <2>3, FirstOfAll, ReturningIs
  <2> QED BY <1>3, <2>4, MovingStays
<1>5. (pc[t] = "wqueued" /\ InTownLock(t) => ~Granting(at[t]))'
  BY <1>1, <1>2, <1>4 DEF InTownLock
<1> QED BY <1>1, <1>2, <1>3, <1>5, MovingSaves DEF ReadsFirst, CopyFits

LEMMA WorkerLoadSaves ==
  ASSUME TypeOK, TypeOK', AllFit, NothingLost, NEW t \in Txns, WorkerLoad(t)
  PROVE  NothingLost'
<1> DEFINE a == Msg("account", t, NoVal)  l == Msg("live", t, NoVal)
<1>1. /\ pc[t] = "wqueued" /\ Fits(t)
      /\ UNCHANGED <<storage, mainVars, workerVars, down, at, awaiting, base, granted, orphans,
                    handedBack, lost, behind, visitVars, ghostVars>>
  BY DEF WorkerLoad, AllFit
<1>2. Moving(t) BY <1>1, WorkerLoadFits DEF Moving, mainVars, workerVars, visitVars, ghostVars
<1>3. PICK w \in Workers : w = at[t] BY <1>1 DEF Fits, TxnFits, InTown, Over
<1>4. /\ \/ /\ Held(w)
            /\ ref'[t] = "live" /\ pc'[t] = "wloaded"
         \/ /\ ref'[t] = "remote" /\ pc'[t] = "wloaded"
         \/ /\ ~Held(w) /\ base[t] = NoVal
            /\ up' = Post(up, w, a) /\ pc'[t] = "wasking"
  BY <1>1, <1>3 DEF WorkerLoad, TypeOK, TxnsTypeOK
<1> HIDE DEF a, l
<1>5. CASE Held(w) /\ ref'[t] = "live" /\ pc'[t] = "wloaded"
  <2>1. HereOrBack(w)' BY <1>2, <1>5, MovingStays DEF HereOrBack
  <2>2. CopyFits(t)' BY <1>1, <1>3, <1>5, <2>1 DEF CopyFits
  <2> QED BY <1>2, <1>5, <2>2, MovingSaves DEF ReadsFirst
<1>6. CASE ref'[t] = "remote" /\ pc'[t] = "wloaded"
  BY <1>2, <1>6, MovingSaves DEF ReadsFirst, CopyFits
<1>7. CASE ~Held(w) /\ base[t] = NoVal /\ up' = Post(up, w, a) /\ pc'[t] = "wasking"
  <2>0. a.who = t /\ l.who = t /\ a # l BY MsgIs DEF a, l
  <2>1. Unplaced(t) BY <1>1, IdleIs DEF Idle, Over
  <2>2. awaiting'[t] = NoWorker BY <1>1 DEF Fits, TxnFits, Reading
  <2>3. ASSUME NEW v \in Workers
        PROVE  /\ Leave(down'[v], a) /\ t \notin asked'[v] /\ After(up'[v], l) /\ l \notin Items(down'[v])
               /\ a \in Items(up'[v]) => v = w
    <3>1. About(up[v], t) = {} /\ About(down[v], t) = {} /\ t \notin asked[v]
      BY <2>1 DEF Unplaced, Clear, Elsewhere
    <3>2. After(up[v], l) /\ a \notin Items(up[v]) /\ Leave(down[v], a) /\ l \notin Items(down[v]) /\ l \notin Items(up[v])
      BY <2>0, <3>1, Absent
    <3>3. l \notin Items(up'[v]) /\ (a \in Items(up'[v]) => v = w)
      BY <1>7, <2>0, <3>2, PostedItems
    <3>4. After(up'[v], l) BY <3>3 DEF After, Items
    <3> QED BY <1>1, <3>1, <3>2, <3>3, <3>4 DEF workerVars
  <2>4. ReadsFirst(t)' => ~Held(w)' /\ ~Granting(w)'
    <3>1. ReadsFirst(t)' => InTownLock(t) BY <1>1, <1>7 DEF ReadsFirst, InTownLock
    <3>2. InTownLock(t) => ~Granting(w) BY <1>1, <1>3 DEF NothingLost, ReadFits
    <3> QED BY <1>2, <1>7, <3>1, <3>2, MovingStays
  <2>5. ReadsFirst(t)' => InOrder(t)' BY <2>2, <2>3, <2>4 DEF InOrder, a, l
  <2> QED BY <1>2, <1>7, <2>5, MovingSaves DEF CopyFits
<1> QED BY <1>4, <1>5, <1>6, <1>7

LEMMA WorkerReadSaves ==
  ASSUME TypeOK, TypeOK', AllFit, NothingLost, NEW w \in Workers, WorkerRead(w), ~stale'
  PROVE  NothingLost'
<1>m. PICK m \in DownMsg : down[w] # <<>> /\ m = Head(down[w]) /\ m.op = "live"
  BY DownHead DEF WorkerRead, DownIs
<1>t. PICK t \in Txns : t = m.who BY <1>m, DownHead
<1>1. /\ copy'[t] = (IF m.val = NoVal THEN storage ELSE m.val) /\ ref'[t] = (IF m.val = NoVal THEN "own" ELSE "read")
      /\ pc'[t] = "wloaded" /\ ~(m.val = NoVal /\ releasing[w])
      /\ UNCHANGED <<storage, mainVars, workerVars, up, at, awaiting, base, granted, orphans,
                 handedBack, lost, behind, visitVars, crashes, acked>>
  BY <1>m, <1>t DEF WorkerRead, TypeOK, TxnsTypeOK
<1>2. Fits(t) /\ pc[t] = "wasking" /\ at[t] = w BY <1>m, <1>t, HeadSays DEF DownFits, Works
<1>3. Moving(t)
  BY <1>1, <1>2, <1>m, <1>t, WorkerReadFits DEF Moving, mainVars, workerVars, visitVars, ghostVars
<1>4. ASSUME m.val = NoVal, t \in granted PROVE lease' = NoWorker \/ (lease' = w /\ Returning(w)')
  <2>1. InOrder(t) BY <1>2, <1>4 DEF ReadsFirst, NothingLost, ReadFits
  <2>2. m = Msg("live", t, NoVal) /\ m \in Items(down[w])
    <3>1. m \in Items(down[w]) BY <1>m, HeadAbout DEF About
    <3> QED BY <1>m, <1>t, <1>4, <3>1, MsgWhole
  <2>3. lease = NoWorker \/ (lease = w /\ Returning(w)) BY <1>1, <1>4, <2>1, <2>2 DEF InOrder
  <2> QED BY <1>1, <1>3, <2>3, MovingStays DEF mainVars
<1>5. CopyFits(t)' BY <1>1, <1>2, <1>4 DEF CopyFits, Settled, NothingLost, Kept
<1> QED BY <1>1, <1>3, <1>5, MovingSaves DEF ReadsFirst

LEMMA CallFromElsewhereSaves ==
  ASSUME TypeOK, TypeOK', AllFit, NothingLost, NEW w \in Workers, CallFromElsewhere(w)
  PROVE  NothingLost'
<1>m. PICK m \in DownMsg : down[w] # <<>> /\ m = Head(down[w]) /\ m.op \in {"hold", "account"}
  BY DownHead DEF CallFromElsewhere, DownIs
<1>t. PICK t \in Txns : t = m.who BY <1>m, DownHead
<1>1. /\ \A v \in Workers : t \in asked'[v] => t \in asked[v] \/ v = w
      /\ TakeDown(w)
      /\ UNCHANGED <<storage, mainVars, alive, live, releasing, writes, acquiring, chain, holds, up,
                 pc, at, awaiting, ref, copy, base, granted, orphans, handedBack, lost, visitVars,
                 ghostVars>>
  BY <1>m, <1>t DEF CallFromElsewhere, TypeOK, WorkersTypeOK
<1>2. Fits(t) /\ pc[t] \in Reading \cup {"holding", "failed"}
  BY <1>m, <1>t, HeadSays DEF DownFits, Calls
<1>3. Moving(t)
  BY <1>1, <1>2, <1>m, <1>t, CallFromElsewhereFits DEF Moving, mainVars, visitVars, ghostVars, Reading
<1>4. CopyFits(t)' /\ pc'[t] # "wqueued" /\ pc'[t] # "writing"
  BY <1>1, <1>2 DEF CopyFits, Reading
<1>5. ASSUME ReadsFirst(t)' PROVE InOrder(t)'
  <2> DEFINE a == Msg("account", t, NoVal)  l == Msg("live", t, NoVal)
  <2>0. a.who = t /\ l.who = t /\ a.op = "account" BY MsgIs
  <2> HIDE DEF a, l
  <2>1. InOrder(t) /\ ReadsFirst(t) BY <1>1, <1>5 DEF ReadsFirst, NothingLost, ReadFits
  <2>2. Clear(down', t) /\ Clear(up, t) /\ Elsewhere(t)
    BY <1>1, <1>2, <1>m, <1>t, <2>1, TakenDown DEF Over, ReadsFirst
  <2>3. m = a
    <3>1. m.op = "account" BY <1>m, <1>t, <2>1, HeadSays DEF DownFits, Calls, ReadsFirst
    <3> QED BY <1>t, <3>1, MsgWhole DEF a
  <2>4. ~Granting(w)
    <3>1. PICK s \in Seq(DownMsg) : s = down[w] /\ s # <<>> /\ Head(s) = a
      BY <1>m, <2>3 DEF TypeOK, ChannelsTypeOK
    <3>2. Leave(s, a) BY <2>1, <3>1 DEF InOrder, a
    <3> QED BY <3>1, <3>2, FirstOfAll, ReturningIs
  <2>5. ASSUME NEW v \in Workers
        PROVE  /\ Leave(down'[v], a) /\ (t \in asked'[v] => v = w) /\ After(up'[v], l) /\ a \notin Items(up'[v])
               /\ l \notin Items(down'[v])
    <3>1. About(up[v], t) = {} /\ About(down'[v], t) = {} /\ t \notin asked[v]
      BY <2>2 DEF Clear, Elsewhere
    <3>2. After(up[v], l) /\ a \notin Items(up[v]) /\ Leave(down'[v], a) /\ l \notin Items(down'[v])
      BY <2>0, <3>1, Absent
    <3> QED BY <1>1, <3>1, <3>2
  <2>6. ~Granting(w)' BY <1>3, <2>4, MovingStays
  <2> QED BY <1>1, <2>1, <2>5, <2>6 DEF InOrder, a, l, mainVars
<1> QED BY <1>3, <1>4, <1>5, MovingSaves

LEMMA LiveForElsewhereSaves ==
  ASSUME TypeOK, TypeOK', LeaseInv, AllFit, NothingLost, NEW t \in Txns, NEW w \in Workers, LiveForElsewhere(t, w)
  PROVE  NothingLost'
<1> DEFINE a == Msg("account", t, NoVal)  l == Msg("live", t, NoVal)  n == Msg("live", t, IF Held(w) THEN live[w] ELSE NoVal)
<1>0. a.who = t /\ l.who = t /\ a # l /\ n # a /\ n.who = t /\ (n = l => ~Held(w))
  <2>1. live[w] # NoVal BY NamesAssumption DEF TypeOK, WorkersTypeOK, Values, Updates, NoVal
  <2> QED BY <2>1, MsgIs
<1>1. /\ t \in asked[w] /\ pc[t] # "holding" /\ ~releasing[w] /\ up' = Post(up, w, n)
      /\ asked' = [asked EXCEPT ![w] = @ \ {t}]
      /\ UNCHANGED <<storage, mainVars, alive, live, releasing, writes, acquiring, chain, holds, down,
                 pc, at, awaiting, ref, copy, base, granted, orphans, handedBack, lost, visitVars,
                 ghostVars>>
  BY DEF LiveForElsewhere
<1> HIDE DEF a, l, n
<1>2. Fits(t) /\ pc[t] \in Reading \cup {"failed"} BY <1>1 DEF AllFit, Fits, MailFits, Calls
<1>3. Moving(t)
  BY <1>1, <1>2, LiveForElsewhereFits DEF Moving, mainVars, visitVars, ghostVars, Reading
<1>4. CopyFits(t)' /\ pc'[t] # "wqueued" /\ pc'[t] # "writing"
  BY <1>1, <1>2 DEF CopyFits, Reading
<1>5. ASSUME ReadsFirst(t)' PROVE InOrder(t)'
  <2>1. InOrder(t) /\ ReadsFirst(t) BY <1>1, <1>5 DEF ReadsFirst, NothingLost, ReadFits
  <2>2. Clear(up, t) /\ Clear(down, t) BY <1>1, <1>2, <2>1, TakenThere DEF Over, ReadsFirst
  <2>3. ~Granting(w) BY <1>1, <2>1 DEF InOrder
  <2>4. ASSUME NEW v \in Workers
        PROVE  /\ Leave(down'[v], a) /\ (t \in asked'[v] => ~Granting(v)') /\ a \notin Items(up'[v]) /\ l \notin Items(down'[v])
               /\ lease' = v => After(up'[v], l)
    <3>1. About(up[v], t) = {} /\ About(down[v], t) = {} BY <2>2 DEF Clear
    <3>2. After(up[v], l) /\ a \notin Items(up[v]) /\ Leave(down[v], a) /\ l \notin Items(down[v])
      BY <1>0, <3>1, Absent
    <3>3. a \notin Items(up'[v]) BY <1>0, <1>1, <3>2, PostedItems
    <3>4. t \in asked'[v] => t \in asked[v] BY <1>1 DEF TypeOK, WorkersTypeOK
    <3>5. t \in asked'[v] => ~Granting(v)' BY <1>3, <2>1, <3>4, MovingStays DEF InOrder
    <3>6. ASSUME lease' = v PROVE After(up'[v], l)
      <4>1. PICK s \in Seq(UpMsg) : s = up[v] BY DEF TypeOK, ChannelsTypeOK
      <4>2. up'[v] = IF v = w THEN Append(s, n) ELSE s
        BY <1>1, <4>1 DEF Post, TypeOK, ChannelsTypeOK
      <4>3. ASSUME v = w, n = l PROVE \E j \in 1..Len(s) : s[j].op = "release"
        <5>1. lease = w /\ ~Held(w) BY <1>0, <1>1, <3>6, <4>3 DEF mainVars
        <5>2. Returning(w) BY <1>1, <2>3, <5>1 DEF LeaseInv, LeaseIsInOnePlace
        <5> QED BY <4>1, <4>3, <5>2 DEF Returning
      <4>4. v = w => After(Append(s, n), l) BY <3>2, <4>1, <4>3, AfterPosted
      <4> QED BY <3>2, <4>1, <4>2, <4>4
    <3> QED BY <1>1, <3>2, <3>3, <3>5, <3>6
  <2> QED BY <1>1, <2>1, <2>4 DEF InOrder, a, l, mainVars
<1> QED BY <1>3, <1>4, <1>5, MovingSaves

-----------------------------------------------------------------------------
\* A save is queued of an object whose content is the account, or will be.
LEMMA QueuedSaves ==
  ASSUME TypeOK, AllFit, AllFit', NothingLost, NEW x, Calm(x), OthersStay(x),
         UNCHANGED <<storage, lease, releasing, visit, vat, acked>>,
         NEW w \in Workers, writes' = Post(writes, w, x), \A v \in Workers : live[v] \subseteq live'[v],
         x \in Txns => /\ ReadFits(x)' /\ CopyFits(x)' /\ at'[x] = at[x] /\ ref'[x] = ref[x] /\ copy[x] \subseteq copy'[x]
                       /\ x \in granted' <=> x \in granted,
         IF x \in Txns /\ at[x] = w /\ ref[x] # "live"
         THEN ref[x] = "own" /\ x \in granted /\ x \in copy'[x]
         ELSE HereOrBack(w) /\ x \in live'[w]
  PROVE  NothingLost'
<1>1. HeldFromHere /\ BackToMain /\ HereStays
  BY DEF HeldFromHere, BackToMain, HereStays, HereOrBack, Held
<1>2. Kept'
  <2>1. Kept /\ \A v \in Workers : HereOrBack(v)' => HereOrBack(v)
    BY <1>1 DEF NothingLost, HereStays
  <2>2. \A v \in Workers : HereOrBack(v)' => acked' \subseteq live'[v] BY <2>1 DEF Kept
  <2>3. ASSUME NEW v \in Workers, NEW m \in Items(down'[v]), LeaseGrant(m) PROVE acked' \subseteq m.val
    <3>1. m \in Items(down[v]) BY <2>3 DEF Calm, CalmDown
    <3> QED BY <2>1, <2>3, <3>1 DEF Kept
  <2> QED BY <2>1, <2>2, <2>3 DEF Kept
<1>3. ASSUME NEW t \in Txns PROVE ReadFits(t)' /\ CopyFits(t)'
  <2>1. CASE t = x BY <2>1
  <2>2. CASE t # x BY <1>1, <2>2, OthersInformed DEF HereStays
  <2> QED BY <2>1, <2>2
<1>4. ASSUME NEW v \in Workers PROVE WriteFits(v)'
  <2>1. \A u \in Items(writes'[v]) : u \in Items(writes[v]) \/ (u = x /\ v = w)
    <3>1. PICK s \in Seq(Txns \cup Visits) : s = writes[v] BY DEF TypeOK, WorkersTypeOK
    <3>2. writes'[v] = IF v = w THEN Append(s, x) ELSE s BY <3>1 DEF Post, TypeOK, WorkersTypeOK
    <3>3. Items(Append(s, x)) = Items(s) \cup {x} BY ItemsPosted
    <3> QED BY <3>1, <3>2, <3>3
  <2>2. HereOrBack(v)' <=> HereOrBack(v) BY <1>1 DEF HereStays
  <2>3. ASSUME NEW u \in Items(writes'[v])
        PROVE  IF u \in Txns /\ at'[u] = v /\ ref'[u] # "live"
               THEN ref'[u] = "own" /\ u \in granted' /\ u \in copy'[u]
               ELSE HereOrBack(v)' /\ u \in live'[v]
    <3>1. CASE u = x /\ v = w BY <2>2, <3>1
    <3>2. CASE u \in Items(writes[v])
      <4>1. IF u \in Txns /\ at[u] = v /\ ref[u] # "live"
            THEN ref[u] = "own" /\ u \in granted /\ u \in copy[u]
            ELSE HereOrBack(v) /\ u \in live[v]
        BY <3>2 DEF NothingLost, WriteFits
      <4>2. u \in Txns => at'[u] = at[u] /\ ref'[u] = ref[u] /\ copy[u] \subseteq copy'[u] /\ (u \in granted' <=> u \in granted)
        BY DEF OthersStay, SameState, SameWork
      <4> QED BY <2>2, <4>1, <4>2
    <3> QED BY <2>1, <3>1, <3>2
  <2> QED BY <2>3 DEF WriteFits
<1> QED BY <1>2, <1>3, <1>4 DEF NothingLost

LEMMA WorkerSaveSaves ==
  ASSUME TypeOK, TypeOK', AllFit, NothingLost, NEW t \in Txns, WorkerSave(t), ~stale'
  PROVE  NothingLost'
<1>1. /\ pc[t] = "wloaded" /\ Fits(t) /\ ref[t] # "ended" /\ (ref[t] = "own" => t \in granted)
      /\ UNCHANGED <<storage, mainVars, alive, releasing, acquiring, chain, holds, asked, down,
                    at, awaiting, ref, base, granted, orphans, handedBack, lost, behind,
                    visitVars, crashes, acked>>
  BY DEF WorkerSave, AllFit
<1>2. AllFit' /\ Moves(t) BY WorkerSaveFits
<1>3. Calm(t) /\ OthersStay(t) BY <1>2, TxnsAreMild, MildIsCalm DEF Moves
<1>4. PICK w \in Workers : w = at[t] BY <1>1 DEF Fits, TxnFits, InTown, Over
<1>5. CopyFits(t) /\ ReadFits(t) BY DEF NothingLost
<1>6. CASE ref[t] \in {"live", "own"}
  <2>1. /\ pc'[t] = "writing" /\ writes' = Post(writes, w, t)
        /\ \/ ref[t] = "live" /\ live' = [live EXCEPT ![w] = @ \cup {t}] /\ copy' = copy
           \/ ref[t] = "own" /\ live' = live /\ copy'[t] = copy[t] \cup {t}
    BY <1>1, <1>4, <1>6 DEF WorkerSave, TypeOK, TxnsTypeOK
  <2>2. /\ HereOrBack(w)' <=> HereOrBack(w)
        /\ Returning(w) => Returning(w)'
    BY <1>1, <1>3, CalmHere DEF HereOrBack, Held, visitVars
  <2>3. CopyFits(t)' BY <1>1, <1>4, <1>5, <2>1, <2>2 DEF CopyFits, Settled, mainVars
  <2>4. ReadFits(t)' BY <1>3, <1>5, <2>1, CalmLeaves DEF ReadFits, ReadsFirst
  <2>5. \A v \in Workers : live[v] \subseteq live'[v] BY <2>1 DEF TypeOK, WorkersTypeOK
  <2>6. IF at[t] = w /\ ref[t] # "live"
        THEN ref[t] = "own" /\ t \in granted /\ t \in copy'[t]
        ELSE HereOrBack(w) /\ t \in live'[w]
    BY <1>1, <1>4, <1>5, <1>6, <2>1 DEF CopyFits, TypeOK, WorkersTypeOK
  <2>7. copy[t] \subseteq copy'[t] BY <2>1
  <2> QED BY <1>1, <1>2, <1>3, <2>1, <2>3, <2>4, <2>5, <2>6, <2>7, QueuedSaves DEF mainVars, visitVars
<1>7. CASE ref[t] \notin {"live", "own"}
  <2>1. pc'[t] \in {"patching", "refused"} /\ live' = live /\ writes' = writes
    BY <1>1, <1>7 DEF WorkerSave, TypeOK, TxnsTypeOK
  <2> QED BY <1>1, <1>2, <2>1, PassingSaves DEF mainVars, visitVars
<1> QED BY <1>6, <1>7

LEMMA PatchForElsewhereSaves ==
  ASSUME TypeOK, TypeOK', AllFit, NothingLost, NEW w \in Workers, PatchForElsewhere(w)
  PROVE  NothingLost'
<1>m. PICK m \in DownMsg : down[w] # <<>> /\ m = Head(down[w]) /\ m.op = "patch"
  BY DownHead DEF PatchForElsewhere, DownIs
<1>t. PICK t \in Txns : t = m.who BY <1>m, DownHead
<1>1. UNCHANGED <<storage, mainVars, alive, releasing, acquiring, chain, holds, asked, txnVars,
                 visitVars, ghostVars>>
  BY DEF PatchForElsewhere
<1>2. Fits(t) /\ pc[t] \in {"patching", "failed"} /\ PatchOf(t, m) /\ at[t] # w
  BY <1>m, <1>t, HeadSays DEF DownFits, Calls
<1>3. AllFit' /\ Moves(t) BY <1>m, <1>t, PatchForElsewhereFits
<1>4. Calm(t) /\ OthersStay(t) BY <1>3, TxnsAreMild, MildIsCalm DEF Moves
<1>5. pc' = pc BY <1>1 DEF txnVars
<1>6. CASE Held(w) /\ live[w] \cap Social = base[t] \cap Social
           /\ live' = [live EXCEPT ![w] = (@ \ Social) \cup (m.val \cap Social)] /\ writes' = Post(writes, w, t)
  <2>1. live'[w] = live[w] \cup {t} /\ \A v \in Workers : live[v] \subseteq live'[v]
    <3>1. m.val \cap Social = (live[w] \cap Social) \cup {t} BY <1>2, <1>6 DEF PatchOf
    <3>2. live'[w] = (live[w] \ Social) \cup (m.val \cap Social) /\ \A v \in Workers : v # w => live'[v] = live[v]
      BY <1>6 DEF TypeOK, WorkersTypeOK
    <3> QED BY <3>1, <3>2
  <2>2. ReadFits(t) /\ ReadFits(t)' /\ CopyFits(t)'
    <3>1. ReadFits(t) BY DEF NothingLost
    <3> QED BY <1>2, <1>4, <1>5, <3>1, CalmLeaves DEF ReadFits, ReadsFirst, CopyFits
  <2>3. HereOrBack(w) BY <1>6 DEF HereOrBack
  <2> QED BY <1>1, <1>2, <1>3, <1>4, <1>6, <2>1, <2>2, <2>3, QueuedSaves DEF mainVars, visitVars, txnVars, ghostVars
<1>7. CASE UNCHANGED <<live, writes>>
  BY <1>1, <1>2, <1>3, <1>5, <1>7, PassingSaves DEF mainVars, visitVars, ghostVars
<1> QED BY <1>m, <1>t, <1>6, <1>7 DEF PatchForElsewhere

LEMMA RewardSaves ==
  ASSUME TypeOK, TypeOK', LeaseInv, AllFit, NothingLost, NEW e \in Visits, Reward(e)
  PROVE  NothingLost'
<1>1. /\ visit[e] = "in" /\ live' = [live EXCEPT ![vat[e]] = @ \cup {e}] /\ writes' = Post(writes, vat[e], e)
      /\ UNCHANGED <<storage, mainVars, alive, releasing, acquiring, chain, holds, asked, up,
                    down, txnVars, visitVars, ghostVars>>
  BY DEF Reward
<1>2. PICK w \in Workers : w = vat[e] BY <1>1 DEF LeaseInv, EntriesHaveWorkers
<1>3. AllFit' /\ OthersStay(e) /\ e \notin Txns BY EntriesFit, NamesAssumption DEF Moves
<1>4. Calm(e) BY <1>1, MildIsCalm DEF Mild
<1>5. live'[w] = live[w] \cup {e} /\ \A v \in Workers : live[v] \subseteq live'[v]
  BY <1>1, <1>2 DEF TypeOK, WorkersTypeOK
<1>6. HereOrBack(w) BY <1>1, <1>2 DEF HereOrBack, Held
<1> QED BY <1>1, <1>2, <1>3, <1>4, <1>5, <1>6, QueuedSaves DEF mainVars, visitVars, ghostVars

-----------------------------------------------------------------------------
\* One lease, one place: who holds the object is who has the lease.
LEMMA OneHolder ==
  ASSUME LeaseInv
  PROVE  /\ \A w \in Workers : HereOrBack(w) \/ Granting(w) => lease = w
         /\ \A w \in Workers : Granting(w) => ~HereOrBack(w) /\ ~Returning(w)
         /\ \A w \in Workers : Returning(w) => lease = w /\ ~HereOrBack(w)
BY DEF LeaseInv, LeaseIsInOnePlace, HereOrBack

\* The main thread's lock is one transaction's: nobody else has read under it.
OwnUnderLock(t) == pc[t] \in {"wloaded", "writing"} /\ ref[t] = "own" /\ t \in granted
LEMMA OneUnderLock ==
  ASSUME TypeOK, HeadFits, AllFit, NEW x, IsHead(x, mainChain), NEW t \in Txns, t # x
  PROVE  /\ pc[t] \notin {"asking", "loaded"}
         /\ ~OwnUnderLock(t)
         /\ ~(ReadsFirst(t) /\ pc[t] = "wasking")
         /\ ~(pc[t] = "wqueued" /\ InTownLock(t))
<1>1. ~IsHead(t, mainChain) BY DEF IsHead
<1>2. pc[t] \notin {"asking", "loaded"} /\ borrowed[t] # Main /\ Fits(t)
  BY <1>1 DEF HeadFits, AllFit
<1> QED BY <1>2 DEF OwnUnderLock, ReadsFirst, Fits, TxnFits, InTownLock

LEMMA MainSaveSaves ==
  ASSUME TypeOK, TypeOK', LeaseInv, HeadFits, AllFit, NothingLost, NEW t \in Txns, MainSave(t), ~stale'
  PROVE  NothingLost'
<1>1. /\ pc[t] = "loaded" /\ IsHead(t, mainChain) /\ Fits(t)
      /\ UNCHANGED <<lease, borrowed, workerVars, up, at, copy, base, granted, orphans,
                 handedBack, lost, behind, visitVars, crashes>>
  BY DEF MainSave, AllFit
<1>2. AllFit' /\ Moves(t) BY MainSaveFits
<1>3. Calm(t) /\ OthersStay(t) BY <1>2, TxnsAreMild, MildIsCalm DEF Moves
<1>4. CASE OwnerOf # NoWorker
  <2>1. pc'[t] = "forwarded" /\ UNCHANGED <<storage, acked>>
    BY <1>4 DEF MainSave, TypeOK, TxnsTypeOK
  <2> QED BY <1>1, <1>2, <2>1, PassingSaves DEF workerVars, visitVars
<1>5. CASE OwnerOf = NoWorker
  <2>1. pc'[t] = "done" /\ storage' = copy[t] \cup {t} /\ acked' = acked \cup {t} /\ ref[t] # "read" /\ down' = down
    BY <1>5 DEF MainSave, TypeOK, TxnsTypeOK
  <2>2. acked' \subseteq storage'
    <3>1. acked \subseteq copy[t] BY <1>1, <2>1 DEF NothingLost, CopyFits
    <3> QED BY <2>1, <3>1
  <2>3. \A w \in Workers : ~HereOrBack(w) /\ ~Granting(w)
    BY <1>5, OneHolder, NamesAssumption DEF OwnerOf
  <2>4. HeldFromHere /\ BackToMain /\ HereStays
    BY <1>1 DEF HeldFromHere, BackToMain, HereStays, HereOrBack, Held, workerVars, visitVars
  <2>5. Kept'
    <3>1. \A w \in Workers : ~HereOrBack(w)' BY <2>3, <2>4 DEF HereStays
    <3>2. \A w \in Workers : \A m \in Items(down'[w]) : ~LeaseGrant(m)
      BY <2>1, <2>3, ReturningIs
    <3> QED BY <2>2, <3>1, <3>2 DEF Kept
  <2>6. ReadFits(t)' /\ CopyFits(t)'
    <3>1. ReadFits(t) BY DEF NothingLost
    <3> QED BY <1>3, <2>1, <3>1, CalmLeaves DEF ReadFits, ReadsFirst, CopyFits
  <2>7. ASSUME NEW u \in Txns, u # t PROVE ReadFits(u)' /\ CopyFits(u)'
    <3>1. Fits(u) /\ ReadFits(u) /\ CopyFits(u) BY DEF AllFit, NothingLost
    <3>2. SameState(u) /\ \A w \in Workers : u \in asked'[w] => u \in asked[w]
      BY <1>3, <2>7 DEF OthersStay
    <3>3. ReadFits(u)' BY <1>1, <1>3, <2>4, <2>7, <3>1, <3>2, ReadStays DEF SameState
    <3>4. pc[u] # "loaded" /\ ~OwnUnderLock(u) BY <1>1, <2>7, OneUnderLock
    <3>5. pc[u] \in {"wloaded", "writing"} => ref[u] # "live"
      BY <2>3, <3>1 DEF CopyFits, Fits, TxnFits, InTown, Over
    <3>6. CopyFits(u)' BY <3>2, <3>4, <3>5 DEF CopyFits, SameState, SameWork, OwnUnderLock
    <3> QED BY <3>3, <3>6
  <2>8. ASSUME NEW w \in Workers PROVE WriteFits(w)'
    <3>1. Fits(t)' /\ WriteFits(w) BY <1>2 DEF AllFit, NothingLost
    <3> QED BY <1>1, <1>3, <2>1, <2>4, <3>1, WritesStay DEF HereStays, workerVars
  <2> QED BY <2>5, <2>6, <2>7, <2>8 DEF NothingLost
<1> QED BY <1>4, <1>5

LEMMA WriteLandsSaves ==
  ASSUME TypeOK, TypeOK', LeaseInv, HeadFits, AllFit, NothingLost, NEW w \in Workers, WriteLands(w)
  PROVE  NothingLost'
<1>s. PICK s \in Seq(Txns \cup Visits) : s = writes[w] /\ s # <<>>
  BY DEF WriteLands, TypeOK, WorkersTypeOK
<1>x. PICK x \in Txns \cup Visits : x = Head(s) BY <1>s, HeadTailProperties
<1>r. PICK r : r = Tail(s) OBVIOUS
<1>1. /\ writes' = [writes EXCEPT ![w] = r] /\ storage' = Object(x, w) /\ acked' = acked \cup {x}
      /\ pc' = IF x \in Txns /\ at[x] = w THEN [pc EXCEPT ![x] = "settled"] ELSE pc
      /\ up' = IF x \in Txns /\ at[x] # w THEN Post(up, w, Msg("patched", x, {})) ELSE up
      /\ UNCHANGED <<mainVars, alive, live, releasing, acquiring, chain, holds, asked, down, at,
                 awaiting, ref, copy, base, granted, orphans, handedBack, lost, behind,
                 visitVars, crashes, stale>>
  BY <1>s, <1>x, <1>r DEF WriteLands
<1>2. AllFit' /\ Moves(x) BY <1>s, <1>x, WriteLandsFits
<1>3. x \in Items(s) /\ Items(s) = {x} \cup Items(r) BY <1>s, <1>x, <1>r, ItemsTaken
<1>4. Calm(x) /\ OthersStay(x)
  <2>1. Mild(x) BY <1>1, MsgIs DEF Mild
  <2> QED BY <1>2, <2>1, MildIsCalm DEF Moves
<1>5. HeldFromHere /\ BackToMain /\ HereStays
  BY <1>1 DEF HeldFromHere, BackToMain, HereStays, HereOrBack, Held, visitVars
<1>6. IF x \in Txns /\ at[x] = w /\ ref[x] # "live"
      THEN ref[x] = "own" /\ x \in granted /\ x \in copy[x]
      ELSE HereOrBack(w) /\ x \in live[w]
  BY <1>s, <1>3 DEF NothingLost, WriteFits
<1>7. x \in Txns => /\ Fits(x) /\ ReadFits(x) /\ CopyFits(x)
                    /\ IF at[x] = w THEN pc[x] = "writing" ELSE pc[x] \in {"patching", "failed"}
  <2>1. ASSUME x \in Txns PROVE Fits(x) /\ ReadFits(x) /\ CopyFits(x)
    BY <2>1 DEF AllFit, NothingLost
  <2>2. ASSUME x \in Txns PROVE IF at[x] = w THEN pc[x] = "writing" ELSE pc[x] \in {"patching", "failed"}
    BY <1>s, <1>3, <2>1, <2>2 DEF Fits, RoomFits, Calls
  <2> QED BY <2>1, <2>2
<1>8. \* what is written holds everything, and nobody else has an older object to save
      /\ acked' \subseteq storage'
      /\ \A v \in Workers : HereOrBack(v) => acked' \subseteq live[v]
      /\ \A v \in Workers : ~Granting(v)
      /\ \A u \in Txns : u # x => /\ pc[u] = "loaded" => ref[u] = "read"
                                  /\ ~OwnUnderLock(u)
  <2>1. CASE x \in Txns /\ at[x] = w /\ ref[x] # "live"
    <3>1. Settled(x) /\ acked \subseteq copy[x] /\ storage' = copy[x]
      BY <1>1, <1>6, <1>7, <2>1 DEF CopyFits, Object
    <3>2. IsHead(x, mainChain)
      <4>1. borrowed[x] = Main BY <1>6, <1>7, <2>1 DEF Fits, TxnFits, InTownLock
      <4> QED BY <2>1, <4>1 DEF HeadFits
    <3>3. \A v \in Workers : ~HereOrBack(v) /\ ~Granting(v)
      BY <2>1, <3>1, OneHolder, NamesAssumption DEF Settled
    <3> QED BY <1>1, <1>6, <2>1, <3>1, <3>2, <3>3, OneUnderLock
  <2>2. CASE ~(x \in Txns /\ at[x] = w /\ ref[x] # "live")
    <3>1. HereOrBack(w) /\ x \in live[w] /\ storage' = live[w] /\ acked \subseteq live[w]
      BY <1>1, <1>6, <2>2 DEF Object, NothingLost, Kept
    <3>2. lease = w /\ \A v \in Workers : ~Granting(v) /\ (HereOrBack(v) => v = w) /\ ~Returning(v)
      BY <3>1, OneHolder
    <3>3. ASSUME NEW u \in Txns PROVE (pc[u] = "loaded" => ref[u] = "read") /\ ~OwnUnderLock(u)
      <4>1. CopyFits(u) /\ Fits(u) BY DEF NothingLost, AllFit
      <4>2. OwnUnderLock(u) => at[u] \in Workers
        BY <4>1 DEF OwnUnderLock, Fits, TxnFits, InTown, Over
      <4> QED BY <3>2, <4>1, <4>2, NamesAssumption DEF OwnUnderLock, CopyFits, Settled
    <3> QED BY <1>1, <3>1, <3>2, <3>3
  <2> QED BY <2>1, <2>2
<1>9. Kept'
  <2>1. \A v \in Workers : HereOrBack(v)' => acked' \subseteq live'[v]
    BY <1>1, <1>5, <1>8 DEF HereStays
  <2>2. \A v \in Workers : \A m \in Items(down'[v]) : ~LeaseGrant(m) BY <1>1, <1>8, ReturningIs
  <2> QED BY <1>8, <2>1, <2>2 DEF Kept
<1>10. ASSUME NEW u \in Txns PROVE ReadFits(u)' /\ CopyFits(u)'
  <2>1. CASE u = x
    <3>1. pc'[u] \in {"settled", "patching", "failed"}
      BY <1>1, <1>7, <2>1 DEF TypeOK, TxnsTypeOK
    <3> QED BY <1>4, <1>7, <2>1, <3>1, CalmLeaves DEF ReadFits, ReadsFirst, CopyFits
  <2>2. CASE u # x
    <3>1. Fits(u) /\ ReadFits(u) /\ CopyFits(u) BY DEF AllFit, NothingLost
    <3>2. SameState(u) /\ \A v \in Workers : u \in asked'[v] => u \in asked[v]
      BY <1>4, <2>2 DEF OthersStay
    <3>3. ReadFits(u)' BY <1>1, <1>4, <1>5, <2>2, <3>1, <3>2, ReadStays DEF mainVars, SameState
    <3>4. ASSUME pc[u] \in {"wloaded", "writing"}, ref[u] = "live" PROVE HereOrBack(at[u])'
      <4>1. PICK v \in Workers : v = at[u] BY <3>1, <3>4 DEF Fits, TxnFits, InTown, Over
      <4>2. HereOrBack(v)' BY <1>5, <3>1, <3>4, <4>1 DEF CopyFits, HereStays
      <4> QED BY <1>1, <4>1, <4>2
    <3>5. CopyFits(u)' BY <1>8, <2>2, <3>2, <3>4 DEF CopyFits, SameState, SameWork, OwnUnderLock
    <3> QED BY <3>3, <3>5
  <2> QED BY <2>1, <2>2
<1>11. ASSUME NEW v \in Workers PROVE WriteFits(v)'
  <2>1. \A u \in Items(writes'[v]) : u \in Items(writes[v])
    BY <1>s, <1>1, <1>3 DEF TypeOK, WorkersTypeOK
  <2>2. HereOrBack(v)' <=> HereOrBack(v) BY <1>5 DEF HereStays
  <2> QED BY <1>1, <2>1, <2>2 DEF NothingLost, WriteFits
<1> QED BY <1>9, <1>10, <1>11 DEF NothingLost

-----------------------------------------------------------------------------
\* The lease goes out, while nobody reads under the main thread's lock, and comes back.
LEMMA LeaseTurnSaves ==
  ASSUME TypeOK, TypeOK', LeaseInv, HeadFits, AllFit, NothingLost, NEW e \in Visits, LeaseTurn(e), lease' # lease
  PROVE  NothingLost'
<1> DEFINE m == Msg("leased", e, storage)
<1>0. e \notin Txns /\ m.op = "leased" /\ m.val = storage BY MsgIs, NamesAssumption
<1>1. /\ IsHead(e, mainChain) /\ visit[e] = "asked" /\ lease = NoWorker
      /\ down' = Post(down, vat[e], m)
      /\ visit' = [visit EXCEPT ![e] = "answered"]
      /\ UNCHANGED <<storage, borrowed, workerVars, up, txnVars, vat, ghostVars>>
  BY DEF LeaseTurn
<1> HIDE DEF m
<1>2. AllFit' /\ OthersStay(e) BY EntriesFit DEF Moves
<1>3. \A v \in Workers : HereOrBack(v)' <=> HereOrBack(v)
  BY <1>1 DEF HereOrBack, Held, workerVars, TypeOK, VisitsTypeOK
<1>4. Kept'
  <2>1. ASSUME NEW v \in Workers, NEW n \in Items(down'[v]), LeaseGrant(n) PROVE acked \subseteq n.val
    <3>1. n \in Items(down[v]) \/ n = m BY <1>1, <2>1, PostedItems
    <3> QED BY <1>0, <2>1, <3>1 DEF NothingLost, Kept
  <2> QED BY <1>1, <1>3, <2>1 DEF NothingLost, Kept, workerVars, ghostVars
<1>5. ASSUME NEW t \in Txns PROVE ReadFits(t)' /\ CopyFits(t)'
  <2>1. /\ pc[t] \notin {"asking", "loaded"} /\ ~OwnUnderLock(t) /\ ~(ReadsFirst(t) /\ pc[t] = "wasking")
        /\ ~(pc[t] = "wqueued" /\ InTownLock(t))
    BY <1>0, <1>1, OneUnderLock
  <2>2. /\ pc'[t] = pc[t] /\ at'[t] = at[t] /\ base'[t] = base[t] /\ ref'[t] = ref[t] /\ (t \in granted' <=> t \in granted)
    BY <1>1 DEF txnVars
  <2>3. \A v \in Workers : Leave(down'[v], Msg("grant", t, NoVal))
    <3>1. PICK g : g = Msg("grant", t, NoVal) /\ g.op = "grant" /\ g.who = t /\ g.val = NoVal
      BY MsgIs
    <3>2. ASSUME NEW v \in Workers, g \in Items(down'[v]) PROVE FALSE
      <4>1. g \in Items(down[v]) BY <1>0, <1>1, <3>1, <3>2, PostedItems
      <4>2. Fits(t) /\ g \in About(down[v], t) BY <3>1, <4>1 DEF AllFit, About
      <4>3. borrowed[t] = Main BY <3>1, <4>2 DEF Fits, MailFits, DownFits
      <4>4. IsHead(t, mainChain) BY <4>3 DEF HeadFits
      <4> QED BY <1>0, <1>1, <4>4 DEF IsHead
    <3> QED BY <3>1, <3>2 DEF Leave, Items
  <2>4. ReadFits(t)' BY <2>1, <2>2, <2>3 DEF ReadFits, ReadsFirst, InTownLock
  <2>5. ASSUME pc[t] \in {"wloaded", "writing"}, ref[t] = "live" PROVE HereOrBack(at[t])'
    <3>1. CopyFits(t) /\ Fits(t) BY DEF NothingLost, AllFit
    <3>2. PICK v \in Workers : v = at[t] BY <2>5, <3>1 DEF Fits, TxnFits, InTown, Over
    <3>3. HereOrBack(v)' BY <1>3, <2>5, <3>1, <3>2 DEF CopyFits
    <3> QED BY <2>2, <3>2, <3>3
  <2>6. CopyFits(t)' BY <2>1, <2>2, <2>5 DEF CopyFits, OwnUnderLock
  <2> QED BY <2>4, <2>6
<1>6. ASSUME NEW v \in Workers PROVE WriteFits(v)'
  BY <1>0, <1>1, <1>2, <1>3, WritesStay DEF NothingLost, workerVars
<1> QED BY <1>4, <1>5, <1>6 DEF NothingLost

LEMMA LeaseReleasedSaves ==
  ASSUME TypeOK, TypeOK', LeaseInv, AllFit, NothingLost, NEW w \in Workers, LeaseReleased(w)
  PROVE  NothingLost'
<1>0. w # NoWorker BY NamesAssumption
<1>1. /\ up[w] # <<>> /\ Head(up[w]).op = "release" /\ TakeUp(w)
      /\ UNCHANGED <<storage, borrowed, mainChain, workerVars, down, pc, at, awaiting, ref, copy,
                 base, granted, orphans, lost, behind, vat, ghostVars>>
  BY DEF LeaseReleased, UpIs
<1>2. lease = w
  <2>1. PICK s \in Seq(UpMsg) : s = up[w] /\ s # <<>> BY <1>1 DEF TypeOK, ChannelsTypeOK
  <2>2. Head(s) \in Items(s) BY <2>1, ItemsTaken
  <2>3. Returning(w) BY <1>1, <2>1, <2>2, ReturningIs
  <2> QED BY <2>3, OneHolder
<1>3. lease' = NoWorker /\ visit' = [e \in Visits |-> IF visit[e] = "waiting" THEN "woken" ELSE visit[e]]
  BY <1>2 DEF LeaseReleased, WakeWaiters
<1>4. \A v \in Workers : (Held(v)' <=> Held(v)) /\ (HereOrBack(v)' <=> HereOrBack(v)) /\ (Granting(v)' <=> Granting(v))
  BY <1>1, <1>3 DEF HereOrBack, Held, Granting, workerVars, TypeOK, VisitsTypeOK
<1>5. \A v \in Workers : \A a \in Items(up'[v]) : a \in Items(up[v])
  <2>1. ASSUME NEW v \in Workers, NEW s \in Seq(UpMsg), s = up[v], NEW a \in Items(up'[v]) PROVE a \in Items(up[v])
    <3>0. PICK r : r = Tail(s) OBVIOUS
    <3>1. up'[v] = IF v = w THEN r ELSE s BY <1>1, <2>1, <3>0 DEF TakeUp, TypeOK, ChannelsTypeOK
    <3>2. ASSUME v = w PROVE Items(s) = {Head(s)} \cup Items(r)
      <4>1. s # <<>> BY <1>1, <2>1, <3>2
      <4> QED BY <2>1, <3>0, <4>1, ItemsTaken
    <3> QED BY <2>1, <3>1, <3>2
  <2> QED BY <2>1 DEF TypeOK, ChannelsTypeOK
<1>6. Kept' BY <1>1, <1>4 DEF NothingLost, Kept, workerVars, ghostVars
<1>7. ASSUME NEW t \in Txns PROVE ReadFits(t)' /\ CopyFits(t)'
  <2>0. Fits(t) /\ ReadFits(t) /\ CopyFits(t) BY DEF AllFit, NothingLost
  <2>1. InOrder(t) => InOrder(t)'
    BY <1>0, <1>1, <1>3, <1>4, <1>5, NamesAssumption DEF InOrder, workerVars
  <2>2. (pc[t] = "wqueued" /\ InTownLock(t) => ~Granting(at[t]))'
    BY <1>1, <2>0 DEF ReadFits, InTownLock, Granting
  <2>3. ReadFits(t)' BY <1>1, <2>0, <2>1, <2>2 DEF ReadFits, ReadsFirst
  <2>4. ASSUME pc[t] \in {"wloaded", "writing"}, ref[t] = "live" PROVE HereOrBack(at[t])'
    <3>1. PICK v \in Workers : v = at[t] BY <2>0, <2>4 DEF Fits, TxnFits, InTown, Over
    <3>2. HereOrBack(v)' BY <1>4, <2>0, <2>4, <3>1 DEF CopyFits
    <3> QED BY <1>1, <3>1, <3>2
  <2>5. CopyFits(t)' BY <1>0, <1>1, <1>2, <1>3, <2>0, <2>4 DEF CopyFits, Settled, ghostVars
  <2> QED BY <2>3, <2>5
<1>8. ASSUME NEW v \in Workers PROVE WriteFits(v)'
  BY <1>1, <1>4 DEF NothingLost, WriteFits, workerVars
<1> QED BY <1>6, <1>7, <1>8 DEF NothingLost

LEMMA HandBackSaves ==
  ASSUME TypeOK, TypeOK', LeaseInv, AllFit, NothingLost, NEW w \in Workers, HandBack(w)
  PROVE  NothingLost'
<1>0. Main \notin Txns BY NamesAssumption
<1>1. /\ releasing[w] /\ writes[w] = <<>> /\ ~Held(w) /\ releasing' = [releasing EXCEPT ![w] = FALSE]
      /\ up' = Post(up, w, Msg("release", Main, NoVal))
      /\ ref' = [t \in Txns |-> IF t \in Working(w) THEN "ended" ELSE ref[t]]
      /\ copy' = [t \in Txns |-> IF t \in Working(w) THEN live[w] ELSE copy[t]]
      /\ UNCHANGED <<storage, mainVars, alive, live, writes, acquiring, chain, holds, asked, down,
                     pc, at, awaiting, base, granted, orphans, handedBack, lost, behind, visitVars,
                     ghostVars>>
  BY DEF HandBack, LeaseInv, LeaseIsInOnePlace
<1>2. Mild(Main) BY <1>1, MsgIs DEF Mild
<1>3. Calm(Main) BY <1>2, MildIsCalm
<1>4. Returning(w)'
  <2>0. PICK m : m = Msg("release", Main, NoVal) /\ m.op = "release" BY MsgIs
  <2>1. PICK s \in Seq(UpMsg) : s = up[w] BY DEF TypeOK, ChannelsTypeOK
  <2>2. up'[w] = Append(s, m) BY <1>1, <2>0, <2>1 DEF Post, TypeOK, ChannelsTypeOK
  <2>3. Items(Append(s, m)) = Items(s) \cup {m} BY ItemsPosted
  <2> QED BY <2>0, <2>1, <2>2, <2>3, ReturningIs
<1>5. \A v \in Workers : (Held(v)' <=> Held(v)) /\ (v # w => releasing'[v] = releasing[v]) /\ ~releasing'[w]
  BY <1>1 DEF Held, visitVars, TypeOK, WorkersTypeOK
<1>6. HeldFromHere /\ BackToMain /\ \A v \in Workers : HereOrBack(v)' <=> HereOrBack(v) /\ v # w
  BY <1>1, <1>4, <1>5 DEF HeldFromHere, BackToMain, HereOrBack
<1>7. Kept' BY <1>1, <1>3, <1>6, KeptStays DEF NothingLost, ghostVars
<1>8. ASSUME NEW t \in Txns PROVE ReadFits(t)' /\ CopyFits(t)'
  <2>0. Fits(t) /\ ReadFits(t) /\ CopyFits(t) BY DEF AllFit, NothingLost
  <2>1. t # Main /\ SameWork(t) /\ \A v \in Workers : t \in asked'[v] => t \in asked[v]
    BY <1>0, <1>1 DEF SameWork, mainVars
  <2>2. ReadFits(t)' BY <1>1, <1>3, <1>6, <2>0, <2>1, ReadStays DEF mainVars
  <2>3. ASSUME t \in Working(w) PROVE CopyFits(t)' BY <1>1, <2>3 DEF CopyFits, Working
  <2>4. CASE t \notin Working(w)
    <3>1. ref'[t] = ref[t] /\ copy'[t] = copy[t] BY <1>1, <2>4
    <3>2. ASSUME pc[t] \in {"wloaded", "writing"}
          PROVE  /\ ref[t] = "live" => HereOrBack(at[t])'
                 /\ Settled(t) => Settled(t)'
      <4>1. PICK v \in Workers : v = at[t] BY <2>0, <3>2 DEF Fits, TxnFits, InTown, Over
      <4>2. ref[t] = "live" => v # w BY <2>4, <3>2, <4>1 DEF Working
      <4>3. ref[t] = "live" => HereOrBack(v)' BY <1>6, <2>0, <3>2, <4>1, <4>2 DEF CopyFits
      <4>4. Returning(v) => Returning(v)' BY <1>3, CalmHere
      <4> QED BY <1>1, <4>1, <4>3, <4>4 DEF Settled, mainVars
    <3>3. CopyFits(t)' BY <1>1, <2>0, <3>1, <3>2 DEF CopyFits, mainVars, ghostVars
    <3> QED BY <2>2, <3>3
  <2> QED BY <2>2, <2>3, <2>4
<1>9. ASSUME NEW v \in Workers PROVE WriteFits(v)'
  <2>1. CASE v = w
    <3>1. Items(writes'[v]) = {} BY <1>1, <2>1, ItemsOfNone
    <3> QED BY <3>1 DEF WriteFits
  <2>2. CASE v # w
    <3>1. HereOrBack(v)' <=> HereOrBack(v) BY <1>6, <2>2
    <3>2. \A u \in Txns : at[u] = v => ref'[u] = ref[u] /\ copy'[u] = copy[u]
      BY <1>1, <2>2 DEF Working
    <3> QED BY <1>1, <3>1, <3>2 DEF NothingLost, WriteFits
  <2> QED BY <2>1, <2>2
<1> QED BY <1>7, <1>8, <1>9 DEF NothingLost

-----------------------------------------------------------------------------
\* A worker that dies loses nothing saved: a read of its account falls back to storage.
LEMMA WorkerDiesSaves ==
  ASSUME TypeOK, LeaseInv, AllFit, NothingLost, NEW w \in Workers, WorkerDies(w)
  PROVE  NothingLost'
<1> DEFINE its == {t \in Txns \ orphans : at[t] = w /\ pc[t] \notin {"new", "done", "failed"}}
           arranged == {t \in its : \/ pc[t] \in {"awaitRelease", "townQueued"} /\ borrowed[t] = NoWorker
                                    \/ pc[t] = "holding" /\ awaiting[t] # NoWorker}
<1>0. NoWorker \notin Workers /\ Main \notin Workers /\ Main # NoWorker BY NamesAssumption
<1>1. ASSUME NEW t \in Txns
      PROVE  /\ pc'[t] = pc[t] \/ pc'[t] = "failed"
             /\ awaiting'[t] \in {NoWorker, awaiting[t]} \/ (awaiting[t] = w /\ awaiting'[t] = Main)
             /\ pc'[t] \in {"wqueued", "wasking", "wloaded", "writing"} => at[t] \in Workers /\ at[t] # w
  <2>1. /\ t \in its <=> t \notin orphans /\ at[t] = w /\ pc[t] \notin {"new", "done", "failed"}
        /\ t \in arranged => pc[t] \in {"awaitRelease", "townQueued", "holding"}
    OBVIOUS
  <2>2. /\ pc'[t] = IF t \in its \ arranged THEN "failed" ELSE pc[t]
        /\ awaiting'[t] = IF t \in its \ arranged THEN NoWorker ELSE IF awaiting[t] = w THEN Main ELSE awaiting[t]
    BY DEF WorkerDies
  <2> HIDE DEF its, arranged
  <2>3. Fits(t) BY DEF AllFit
  <2>4. ASSUME pc'[t] \in {"wqueued", "wasking", "wloaded", "writing"} PROVE at[t] \in Workers /\ at[t] # w
    BY <2>1, <2>2, <2>3, <2>4 DEF Fits, TxnFits, InTown, Over
  <2> QED BY <2>2, <2>4
<1>2. /\ lease' = IF lease = w THEN NoWorker ELSE lease
      /\ UNCHANGED <<storage, at, ref, copy, base, granted, vat, acked>>
  BY DEF WorkerDies
<1>3. /\ up'[w] = <<>> /\ down'[w] = <<>> /\ writes'[w] = <<>> /\ asked'[w] = {} /\ ~releasing'[w] /\ ~Held(w)'
      /\ Items(down'[w]) = {} /\ Items(up'[w]) = {} /\ Items(writes'[w]) = {}
  <2>1. up'[w] = <<>> /\ down'[w] = <<>> /\ writes'[w] = <<>> /\ asked'[w] = {} /\ ~releasing'[w]
    BY DEF WorkerDies, TypeOK, WorkersTypeOK, ChannelsTypeOK
  <2>2. ~Held(w)' BY DEF WorkerDies, Held, TypeOK, VisitsTypeOK
  <2> QED BY <2>1, <2>2, ItemsOfNone
<1>4. ASSUME NEW v \in Workers, v # w
      PROVE  /\ up'[v] = up[v] /\ down'[v] = down[v] /\ writes'[v] = writes[v] /\ asked'[v] = asked[v]
             /\ live'[v] = live[v] /\ releasing'[v] = releasing[v] /\ (Held(v)' <=> Held(v))
  BY <1>4 DEF WorkerDies, TypeOK, WorkersTypeOK, ChannelsTypeOK, Held, VisitsTypeOK
<1>5. /\ ~HereOrBack(w)' /\ ~Granting(w)'
      /\ \A v \in Workers : v # w => /\ (HereOrBack(v)' <=> HereOrBack(v))
                                     /\ (Granting(v)' <=> Granting(v)) /\ (Returning(v)' <=> Returning(v))
  BY <1>3, <1>4, EmptySeq DEF HereOrBack, Granting, Returning
<1>6. Kept' BY <1>2, <1>3, <1>4, <1>5 DEF NothingLost, Kept
<1>7. ASSUME NEW t \in Txns PROVE ReadFits(t)' /\ CopyFits(t)'
  <2>0. ReadFits(t) /\ CopyFits(t) BY DEF NothingLost
  <2>1. ReadsFirst(t)' => ReadsFirst(t) BY <1>1, <1>2 DEF ReadsFirst
  <2>2. \A a : Leave(down'[w], a) BY <1>3, EmptySeq DEF Leave
  <2>3. ASSUME InOrder(t) PROVE InOrder(t)'
    <3>1. awaiting'[t] # NoWorker => lease' \in {NoWorker, awaiting'[t]}
      BY <1>0, <1>1, <1>2, <2>3 DEF InOrder
    <3>2. lease' # w BY <1>0, <1>2
    <3>3. ASSUME NEW v \in Workers, v # w
          PROVE  /\ Leave(down'[v], Msg("account", t, NoVal))
                 /\ t \in asked'[v] => ~Granting(v)'
                 /\ lease' = v => After(up'[v], Msg("live", t, NoVal))
                 /\ Msg("account", t, NoVal) \in Items(up'[v]) => ~Held(v)' /\ ~Granting(v)'
                 /\ Msg("live", t, NoVal) \in Items(down'[v]) =>
                       lease' = NoWorker \/ (lease' = v /\ (releasing'[v] \/ Returning(v)'))
      BY <1>0, <1>2, <1>4, <1>5, <2>3, <3>3 DEF InOrder
    <3> QED BY <1>3, <1>5, <2>2, <3>1, <3>2, <3>3 DEF InOrder
  <2>4. \A v \in Workers : Leave(down'[v], Msg("grant", t, NoVal))
    BY <1>4, <2>0, <2>2 DEF ReadFits
  <2>5. (pc[t] = "wqueued" /\ InTownLock(t) => ~Granting(at[t]))'
    <3>1. ASSUME NEW v \in Workers, v # w, pc'[t] = "wqueued", InTownLock(t)', at[t] = v PROVE ~Granting(v)'
      <4>1. pc[t] = "wqueued" /\ InTownLock(t) BY <1>1, <1>2, <3>1 DEF InTownLock
      <4> QED BY <1>5, <2>0, <3>1, <4>1 DEF ReadFits
    <3> QED BY <1>1, <1>2, <3>1
  <2>6. ReadFits(t)' BY <2>0, <2>1, <2>3, <2>4, <2>5 DEF ReadFits
  <2>7. ASSUME pc'[t] \in {"wloaded", "writing"}
        PROVE  /\ ref[t] = "live" => HereOrBack(at[t])'
               /\ ref[t] = "own" /\ t \in granted => Settled(t)' /\ acked \subseteq copy[t]
    <3>1. PICK v \in Workers : v = at[t] /\ v # w /\ pc[t] = pc'[t] BY <1>1, <2>7
    <3>2. ref[t] = "live" => HereOrBack(v)' BY <1>5, <2>0, <2>7, <3>1 DEF CopyFits
    <3>3. ref[t] = "own" /\ t \in granted => (lease' = NoWorker \/ (lease' = v /\ Returning(v)')) /\ acked \subseteq copy[t]
      BY <1>0, <1>2, <1>5, <2>0, <2>7, <3>1 DEF CopyFits, Settled
    <3> QED BY <1>2, <3>1, <3>2, <3>3 DEF Settled
  <2>8. CopyFits(t)' BY <1>0, <1>1, <1>2, <2>0, <2>7 DEF CopyFits
  <2> QED BY <2>6, <2>8
<1>8. ASSUME NEW v \in Workers PROVE WriteFits(v)'
  BY <1>2, <1>3, <1>4, <1>5 DEF NothingLost, WriteFits
<1> QED BY <1>6, <1>7, <1>8 DEF NothingLost

-----------------------------------------------------------------------------
LEMMA SaveInit == Init => NothingLost
<1> SUFFICES ASSUME Init PROVE NothingLost OBVIOUS
<1>1. acked = {} /\ \A w \in Workers : Items(down[w]) = {} /\ Items(writes[w]) = {}
  BY ItemsOfNone DEF Init
<1>2. Kept BY <1>1 DEF Kept
<1>3. ASSUME NEW t \in Txns PROVE ReadFits(t) /\ CopyFits(t)
  <2>1. pc[t] = "new" /\ \A w \in Workers : down[w] = <<>> BY DEF Init
  <2>2. \A w \in Workers : Leave(down[w], Msg("grant", t, NoVal)) BY <2>1, EmptySeq DEF Leave
  <2> QED BY <2>1, <2>2 DEF ReadFits, ReadsFirst, CopyFits
<1>4. \A w \in Workers : WriteFits(w) BY <1>1 DEF WriteFits
<1> QED BY <1>2, <1>3, <1>4 DEF NothingLost

\* An object saved after its hold had ended stays on record.
LEMMA StaleStays == stale /\ [Next]_vars => stale'
<1> SUFFICES ASSUME stale, [Next]_vars PROVE stale' OBVIOUS
<1>1. ASSUME NEW t \in Txns,
             MainLoad(t) \/ MainSave(t) \/ BorrowAgain(t) \/ TownTurn(t) \/ CallFails(t) \/ LostLockReturned(t)
      PROVE  stale'
  BY <1>1 DEF MainLoad, MainSave, BorrowAgain, TownTurn, CallFails, LostLockReturned, ghostVars
<1>2. ASSUME NEW w \in Workers, MainReceives(w) PROVE stale'
  BY <1>2 DEF MainReceives, RpcRetry, AccountAnswered, LeaseAsked, LeaseReleased, LockAsked, HoldAnswered,
     PatchHeld, PatchAnswered, AccountAsked, LockReturned, ghostVars
<1>3. ASSUME NEW t \in Txns, WorkerLock(t) \/ WorkerLoad(t) \/ WorkerSave(t) \/ TransactionEnds(t) \/ Rpc(t)
      PROVE  stale'
  BY <1>3 DEF WorkerLock, WorkerLoad, WorkerSave, TransactionEnds, Rpc, ghostVars
<1>4. ASSUME NEW w \in Workers, WorkerReceives(w) PROVE stale'
  BY <1>4 DEF WorkerReceives, RpcForwarded, LockGranted, LockRefused, WorkerRead, PatchSettled, CallFromElsewhere,
     PatchForElsewhere, ReleaseForElsewhere, LeaseGranted, LeaseRefused, ghostVars
<1>5. ASSUME NEW w \in Workers, WorkerReplaced(w) \/ HandBack(w) \/ WriteLands(w) \/ WorkerDies(w) PROVE stale'
  BY <1>5 DEF WorkerReplaced, HandBack, WriteLands, WorkerDies, ghostVars
<1>6. ASSUME NEW t \in Txns, NEW w \in Workers,
             LiveForElsewhere(t, w) \/ HoldForElsewhere(t, w) \/ HoldTurn(t, w) \/ SecondAccount(t, w)
      PROVE  stale'
  BY <1>6 DEF LiveForElsewhere, HoldForElsewhere, HoldTurn, SecondAccount, ghostVars
<1>7. ASSUME NEW e \in Visits, NEW w \in Workers,
             \/ LeaseTurn(e) \/ LeaseAgain(e) \/ LeaseTimeout(e) \/ AcquireLease(e) \/ Reward(e) \/ ReleaseLease(e)
             \/ Enter(e, w)
      PROVE  stale'
  BY <1>7 DEF LeaseTurn, LeaseAgain, LeaseTimeout, AcquireLease, Reward, ReleaseLease, Enter, ghostVars
<1>8. CASE UNCHANGED vars BY <1>8 DEF vars, ghostVars
<1> QED BY <1>1, <1>2, <1>3, <1>4, <1>5, <1>6, <1>7, <1>8, NamesAssumption DEF Next, MainStep, WorkerStep, Players

LEMMA NothingLostStep ==
  ASSUME TypeOK, TypeOK', LeaseInv, HeadFits, AllFit, NothingLost, [Next]_vars, ~stale'
  PROVE  NothingLost'
<1>0. PICK v \in Workers : TRUE BY NamesAssumption
<1>1. ASSUME NEW t \in Txns,
             MainLoad(t) \/ MainSave(t) \/ BorrowAgain(t) \/ TownTurn(t) \/ CallFails(t) \/ LostLockReturned(t)
      PROVE  NothingLost'
  BY <1>0, <1>1, MainLoadSaves, MainSaveSaves, PassingTurns, CallFailsSaves
<1>2. ASSUME NEW w \in Workers, MainReceives(w) PROVE NothingLost'
  BY <1>2, PassingMessages, AccountAnsweredSaves, EntryAnswers, LeaseReleasedSaves, AccountAskedSaves DEF MainReceives
<1>3. ASSUME NEW t \in Txns, WorkerLock(t) \/ WorkerLoad(t) \/ WorkerSave(t) \/ TransactionEnds(t) \/ Rpc(t)
      PROVE  NothingLost'
  BY <1>0, <1>3, WorkerLockSaves, WorkerLoadSaves, WorkerSaveSaves, PassingTurns
<1>4. ASSUME NEW w \in Workers, WorkerReceives(w) PROVE NothingLost'
  BY <1>4, PassingMessages, LockGrantedSaves, WorkerReadSaves, CallFromElsewhereSaves, PatchForElsewhereSaves,
     EntryAnswers DEF WorkerReceives
<1>5. ASSUME NEW w \in Workers, HandBack(w) \/ WriteLands(w) \/ WorkerDies(w) PROVE NothingLost'
  BY <1>5, HandBackSaves, WriteLandsSaves, WorkerDiesSaves
<1>6. ASSUME NEW t \in Txns, NEW w \in Workers,
             LiveForElsewhere(t, w) \/ HoldForElsewhere(t, w) \/ HoldTurn(t, w) \/ SecondAccount(t, w)
      PROVE  NothingLost'
  BY <1>6, LiveForElsewhereSaves, PassingTurns
<1>7. ASSUME NEW e \in Visits,
             LeaseTurn(e) \/ LeaseAgain(e) \/ LeaseTimeout(e) \/ AcquireLease(e) \/ Reward(e) \/ ReleaseLease(e)
      PROVE  NothingLost'
  BY <1>0, <1>7, EntryTurns, LeaseTurnSaves, RewardSaves
<1>8. ASSUME NEW e \in Visits, NEW w \in Workers, Enter(e, w) PROVE NothingLost'
  BY <1>8, EntryTurns
<1>9. CASE (UNCHANGED vars) \/ \E w \in Workers : WorkerReplaced(w) BY <1>9, NoStepSaves
<1> QED BY <1>1, <1>2, <1>3, <1>4, <1>5, <1>6, <1>7, <1>8, <1>9 DEF Next, MainStep, WorkerStep, Players

LEMMA SaveStep == TypeOK /\ LeaseInv /\ SaveInv /\ [Next]_vars => SaveInv'
<1> SUFFICES ASSUME TypeOK, LeaseInv, SaveInv, [Next]_vars PROVE SaveInv' OBVIOUS
<1>1. TypeOK' /\ ErrandInv' BY TypeStep, ErrandStep DEF SaveInv
<1>2. HeadFits /\ AllFit BY DEF SaveInv, ErrandInv, AllFit
<1>3. ASSUME ~stale' PROVE NothingLost'
  BY <1>1, <1>2, <1>3, StaleStays, NothingLostStep DEF SaveInv
<1> QED BY <1>1, <1>3 DEF SaveInv

\* What is saved is where the account is: in the live object, in the last write, or in storage.
LEMMA SavedIsThere ==
  ASSUME TypeOK, ErrandInv, NothingLost
  PROVE  NoLostUpdate
<1>1. CASE lease = NoWorker BY <1>1 DEF NothingLost, Kept, NoLostUpdate, Account
<1>2. ASSUME NEW w \in Workers, lease = w PROVE NoLostUpdate
  <2>0. w # NoWorker BY NamesAssumption
  <2>1. CASE Held(w)
    BY <1>2, <2>0, <2>1 DEF NothingLost, Kept, NoLostUpdate, Account, HereOrBack
  <2>2. CASE writes[w] = <<>> /\ ~Held(w)
    BY <1>2, <2>0, <2>2 DEF NothingLost, Kept, NoLostUpdate, Account
  <2>3. CASE writes[w] # <<>> /\ ~Held(w)
    <3>1. PICK s \in Seq(Txns \cup Visits) : s = writes[w] /\ s # <<>>
      BY <2>3 DEF TypeOK, WorkersTypeOK
    <3>2. PICK x : x = s[Len(s)] OBVIOUS
    <3>3. x \in Items(writes[w]) BY <3>1, <3>2, LenProperties, EmptySeq DEF Items
    <3>4. acked \subseteq Object(x, w)
      <4>1. CASE x \in Txns /\ at[x] = w /\ ref[x] # "live"
        <5>1. ref[x] = "own" /\ x \in granted BY <3>3, <4>1 DEF NothingLost, WriteFits
        <5>2. pc[x] = "writing" BY <3>3, <4>1 DEF ErrandInv, Fits, RoomFits
        <5> QED BY <4>1, <5>1, <5>2 DEF NothingLost, CopyFits, Object
      <4>2. CASE ~(x \in Txns /\ at[x] = w /\ ref[x] # "live")
        <5>1. acked \subseteq live[w] BY <3>3, <4>2 DEF NothingLost, WriteFits, Kept
        <5> QED BY <4>2, <5>1 DEF Object
      <4> QED BY <4>1, <4>2
    <3> QED BY <1>2, <2>0, <2>3, <3>1, <3>2, <3>4 DEF NoLostUpdate, Account
  <2> QED BY <2>1, <2>2, <2>3
<1> QED BY <1>1, <1>2 DEF TypeOK, MainTypeOK

\* The invariant behind the next theorem: until an object is saved whose hold had ended, every
\* read comes after the lease it is a read of, and every copy that can be saved holds all that
\* was saved before it (match-worker-pool.js and match-worker-thread.js, the locks and leases).
THEOREM NothingSavedIsLost == Spec => []SaveInv
<1>1. Init => SaveInv BY ErrandInit, SaveInit DEF SaveInv
<1> QED BY <1>1, TypeCorrect, LeaseInvHolds, SaveStep, PTL DEF Spec

\* "A transaction the player was promised quietly disappears" (rpc.js) only where an object is
\* saved whose hold had ended: while that has not happened, every update somebody was told is
\* saved is in the account, whichever threads saved it, and whichever workers have died.
THEOREM OnlyStaleLose == Spec => []OnlyStaleObjectsLose
<1>1. TypeOK /\ SaveInv => OnlyStaleObjectsLose
  BY SavedIsThere DEF SaveInv, OnlyStaleObjectsLose
<1> QED BY <1>1, TypeCorrect, NothingSavedIsLost, PTL
=============================================================================
