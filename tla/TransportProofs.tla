---------------------------- MODULE TransportProofs --------------------------
(***************************************************************************)
(* Seeds and chunks on their way to another machine.                       *)
(*                                                                         *)
(* First what a fetched seed, a pin and a health report stand for, for any *)
(* clients, paths, files and attempts, whatever others do to the node and  *)
(* to the paths.  Then what an imported genes pack brings, for any         *)
(* contents, sizes, seeds and genomes.                                     *)
(***************************************************************************)
EXTENDS SeedTransport, GenesPack, FiniteSetTheorems, SequenceTheorems, TLAPS

-----------------------------------------------------------------------------
(* The inductive invariant.                                                 *)

TransportShapes ==
    /\ DOMAIN pc = Client /\ DOMAIN job = Client /\ DOMAIN cid = Client
    /\ DOMAIN tries = Client /\ DOMAIN via = Client /\ DOMAIN blob = Client
    /\ DOMAIN pinned = Client /\ DOMAIN res = Client /\ DOMAIN files = Path

Fetching == {"cat", "gateway", "open", "flush", "check"}

\* A command is at a place of its own kind, and has no outcome before its end.
PlaceOK(c) ==
    /\ pc[c] # "idle" => res[c] = "none"
    /\ job[c].pin \/ job[c].remote => job[c].kind = "publish"
    /\ job[c].kind = "fetch" => job[c].path \in Path
    /\ pc[c] \in {"add", "pin"} => job[c].kind = "publish"
    /\ pc[c] = "pin" => job[c].pin
    /\ pc[c] = "psa" => job[c].kind = "remote" \/ (job[c].kind = "publish" /\ job[c].remote)
    /\ pc[c] \in {"ls", "stat"} => job[c].kind = "health"
    /\ pc[c] \in Fetching => job[c].kind = "fetch"

\* The gateway is asked when the attempts at the API are used up.
AttemptsOK(c) ==
    pc[c] \in Fetching =>
        /\ tries[c] \in Nat
        /\ \/ via[c] = "api" /\ tries[c] < Retries /\ pc[c] # "gateway"
           \/ via[c] = "gateway" /\ tries[c] = Retries /\ job[c].gateway /\ pc[c] # "cat"

\* What is received is not too large, and from the API the file of the CID.
BlobOK(c) ==
    /\ pc[c] \in {"open", "flush", "check"} =>
        blob[c] \in Content \ Large /\ (via[c] = "api" => Sha[blob[c]] = cid[c])
    /\ pc[c] = "check" /\ Calm(c) => files[job[c].path] = blob[c]

\* What a command was told about a pin is still so.
ToldOK(c) ==
    /\ pc[c] = "psa" /\ job[c].kind = "publish" /\ job[c].pin /\ Calm(c) => cid[c] \in pins
    /\ pc[c] = "stat" /\ pinned[c] /\ Calm(c) => cid[c] \in pins

\* How a command ended.
EndOK(c) ==
    /\ job[c].kind = "fetch" /\ res[c] = "ok" /\ Calm(c) =>
           /\ files[job[c].path] \in Seeds \ Large
           /\ via[c] = "api" => Sha[files[job[c].path]] = cid[c]
    /\ job[c].kind = "fetch" /\ res[c] = "failed" =>
           tries[c] = Retries /\ (job[c].gateway => via[c] = "gateway")
    /\ job[c].kind = "publish" /\ job[c].pin /\ Calm(c) /\ res[c] = "ok" => cid[c] \in pins
    /\ (job[c].kind = "remote" \/ job[c].remote) /\ res[c] = "ok" => cid[c] \in requested
    /\ job[c].kind = "health" /\ res[c] = "ok" /\ Calm(c) => cid[c] \in pins

ClientOK(c) == PlaceOK(c) /\ AttemptsOK(c) /\ BlobOK(c) /\ ToldOK(c) /\ EndOK(c)

TransportInv ==
    TransportShapes /\ pins \subseteq blocks /\ \A c \in Client : ClientOK(c)

-----------------------------------------------------------------------------
(* What a step of one client, or of the surroundings, is to the others.     *)

Same(d) ==
    /\ pc'[d] = pc[d] /\ job'[d] = job[d] /\ cid'[d] = cid[d] /\ tries'[d] = tries[d]
    /\ via'[d] = via[d] /\ blob'[d] = blob[d] /\ pinned'[d] = pinned[d] /\ res'[d] = res[d]

\* What a command relies on is left alone, or it counts as disturbed.
Spared(d) ==
    /\ requested \subseteq requested'
    /\ d \notin disturbed' =>
        /\ d \notin disturbed
        /\ job[d].kind = "fetch" => files'[job[d].path] = files[job[d].path]
        /\ job[d].kind # "fetch" /\ cid[d] \in pins => cid[d] \in pins'

LEMMA OthersOK ==
    ASSUME NEW d \in Client, ClientOK(d), Same(d), Spared(d)
    PROVE  ClientOK(d)'
  <1>1. PlaceOK(d)' /\ AttemptsOK(d)'
    BY DEF ClientOK, Same, PlaceOK, AttemptsOK
  <1>2. BlobOK(d)'
    BY DEF ClientOK, Same, Spared, BlobOK, PlaceOK, Fetching, Calm
  <1>3. ToldOK(d)'
    BY DEF ClientOK, Same, Spared, ToldOK, PlaceOK, Calm
  <1>4. EndOK(d)'
    BY DEF ClientOK, Same, Spared, EndOK, Calm
  <1> QED
    BY <1>1, <1>2, <1>3, <1>4 DEF ClientOK

\* A step of c that leaves the node's pins, the requests and the files, or adds
\* to the first two.
Gentle(c) ==
    /\ pins \subseteq pins' /\ requested \subseteq requested' /\ files' = files
    /\ disturbed \ {c} \subseteq disturbed'
    /\ \A d \in Client : d # c => Same(d)

LEMMA GentleInv ==
    ASSUME TransportInv, NEW c \in Client, Gentle(c), TransportShapes', (pins \subseteq blocks)',
           ClientOK(c)'
    PROVE  TransportInv'
  <1>1. ASSUME NEW d \in Client, d # c PROVE ClientOK(d)'
    <2>1. Same(d) /\ Spared(d)
      BY <1>1 DEF Gentle, Spared
    <2> QED
      BY <2>1, OthersOK DEF TransportInv
  <1> QED
    BY <1>1 DEF TransportInv

-----------------------------------------------------------------------------
(* Starting a command.                                                      *)

LEMMA InitInv == TransportInit => TransportInv
  BY DEF TransportInit, BlankJob, TransportInv, TransportShapes, ClientOK, PlaceOK,
         AttemptsOK, BlobOK, ToldOK, EndOK, Fetching

LEMMA BeginInv ==
    ASSUME TransportInv, NEW c \in Client, NEW kind, NEW d, NEW first, Begin(c, kind, d, first),
           <<kind, first>> \in {<<"publish", "add">>, <<"fetch", "cat">>,
                                <<"health", "ls">>, <<"remote", "psa">>}
    PROVE  TransportInv'
  <1>1. TransportShapes /\ pins \subseteq blocks
    BY DEF TransportInv
  <1>2. PICK p \in Path, pin \in BOOLEAN, remote \in BOOLEAN, gw \in BOOLEAN :
            /\ pin \/ remote => kind = "publish"
            /\ job' = [job EXCEPT ![c] = [kind |-> kind, path |-> p, pin |-> pin,
                                          remote |-> remote, gateway |-> gw]]
            /\ cid' = [cid EXCEPT ![c] = d]
            /\ tries' = [tries EXCEPT ![c] = 0]
            /\ via' = [via EXCEPT ![c] = "api"]
            /\ blob' = [blob EXCEPT ![c] = NoFile]
            /\ pinned' = [pinned EXCEPT ![c] = FALSE]
            /\ disturbed' = disturbed \ {c}
            /\ IF kind = "publish" /\ files[p] = NoFile
               THEN Ends(c, "failed")
               ELSE pc' = [pc EXCEPT ![c] = first] /\ res' = [res EXCEPT ![c] = "none"]
            /\ UNCHANGED <<nodeVars, requested, files>>
    BY DEF Begin
  <1>3. job'[c] = [kind |-> kind, path |-> p, pin |-> pin, remote |-> remote, gateway |-> gw]
    BY <1>1, <1>2 DEF TransportShapes
  <1>4. Gentle(c) /\ TransportShapes' /\ (pins \subseteq blocks)'
    BY <1>1, <1>2 DEF Gentle, Same, TransportShapes, nodeVars, Ends
  <1>5. \/ kind = "publish" /\ pc'[c] = "idle" /\ res'[c] = "failed"
        \/ pc'[c] = first /\ res'[c] = "none"
    BY <1>1, <1>2 DEF TransportShapes, Ends
  <1>6. tries'[c] = 0 /\ via'[c] = "api"
    BY <1>1, <1>2 DEF TransportShapes
  <1>7. ClientOK(c)'
    <2>1. PlaceOK(c)'
      BY <1>2, <1>3, <1>5 DEF PlaceOK, Fetching
    <2>2. AttemptsOK(c)'
      BY <1>3, <1>5, <1>6, TransportAssumption DEF AttemptsOK, Fetching
    <2>3. BlobOK(c)' /\ ToldOK(c)' /\ EndOK(c)'
      BY <1>3, <1>5 DEF BlobOK, ToldOK, EndOK
    <2> QED
      BY <2>1, <2>2, <2>3 DEF ClientOK
  <1> QED
    BY <1>4, <1>7, GentleInv

LEMMA CommandStartInv ==
    ASSUME TransportInv, NEW c \in Client, CommandStart(c)
    PROVE  TransportInv'
  BY BeginInv DEF CommandStart

-----------------------------------------------------------------------------
(* publish and remote-add.                                                  *)

\* What every request of these two leaves alone.
LEMMA PublishStep ==
    ASSUME TransportInv, NEW c \in Client, pc[c] \in {"add", "pin", "psa"},
           DOMAIN pc' = Client, DOMAIN res' = Client, DOMAIN cid' = Client, DOMAIN tries' = Client,
           \A e \in Client \ {c} : /\ pc'[e] = pc[e] /\ res'[e] = res[e]
                                   /\ cid'[e] = cid[e] /\ tries'[e] = tries[e],
           UNCHANGED <<files, job, via, blob, pinned, disturbed>>,
           pins \subseteq pins', (pins \subseteq blocks)', requested \subseteq requested',
           \/ pc'[c] = "idle" /\ res'[c] \in {"ok", "failed", "crashed"}
           \/ pc'[c] \in {"pin", "psa"} /\ res'[c] = "none",
           pc'[c] = "pin" => job[c].kind = "publish" /\ job[c].pin,
           pc'[c] = "psa" => \/ job[c].kind = "remote"
                             \/ job[c].kind = "publish" /\ job[c].remote,
           pc'[c] = "psa" \/ res'[c] = "ok" =>
               (job[c].kind = "publish" /\ job[c].pin /\ Calm(c) => cid'[c] \in pins'),
           res'[c] = "ok" =>
               (job[c].kind = "remote" \/ job[c].remote => cid'[c] \in requested')
    PROVE  TransportInv'
  <1>1. TransportShapes /\ PlaceOK(c)
    BY DEF TransportInv, ClientOK
  <1>2. job[c].kind \in {"publish", "remote"}
    BY <1>1 DEF PlaceOK
  <1>3. Gentle(c) /\ TransportShapes'
    BY <1>1 DEF Gentle, Same, TransportShapes
  <1>4. PlaceOK(c)' /\ AttemptsOK(c)' /\ BlobOK(c)'
    BY <1>1, <1>2 DEF PlaceOK, AttemptsOK, BlobOK, Fetching
  <1>5. ToldOK(c)' /\ EndOK(c)'
    BY <1>2 DEF ToldOK, EndOK, Calm
  <1> QED
    BY <1>3, <1>4, <1>5, GentleInv DEF ClientOK

LEMMA AddInv ==
    ASSUME TransportInv, NEW c \in Client, AddAnswered(c) \/ AddFails(c)
    PROVE  TransportInv'
  <1>1. TransportShapes /\ PlaceOK(c) /\ pins \subseteq blocks
    BY DEF TransportInv, ClientOK
  <1>2. CASE AddAnswered(c)
    <2>1. job[c].kind = "publish"
      BY <1>1, <1>2 DEF AddAnswered, PlaceOK
    <2>2. pins \subseteq pins' /\ (pins \subseteq blocks)'
      BY <1>1, <1>2 DEF AddAnswered, NodeAdds, Stores
    <2>3. DOMAIN cid' = Client /\ \A e \in Client \ {c} : cid'[e] = cid[e]
      BY <1>1, <1>2 DEF AddAnswered, TransportShapes
    <2>4. res[c] = "none"
      BY <1>1, <1>2 DEF AddAnswered, PlaceOK
    <2>5. \/ job[c].pin /\ Goes(c, "pin")
          \/ ~job[c].pin /\ job[c].remote /\ Goes(c, "psa")
          \/ ~job[c].pin /\ ~job[c].remote /\ Ends(c, "ok")
      BY <1>2 DEF AddAnswered, AfterPin
    <2>6. DOMAIN pc' = Client /\ DOMAIN res' = Client
          /\ \A e \in Client \ {c} : pc'[e] = pc[e] /\ res'[e] = res[e]
      BY <1>1, <2>5 DEF Goes, Ends, TransportShapes
    <2>7. \/ job[c].pin /\ pc'[c] = "pin" /\ res'[c] = "none"
          \/ ~job[c].pin /\ job[c].remote /\ pc'[c] = "psa" /\ res'[c] = "none"
          \/ ~job[c].pin /\ ~job[c].remote /\ pc'[c] = "idle" /\ res'[c] = "ok"
      BY <1>1, <2>4, <2>5 DEF Goes, Ends, TransportShapes
    <2>8. UNCHANGED <<files, job, tries, via, blob, pinned, disturbed, requested>> /\ pc[c] = "add"
      BY <1>2 DEF AddAnswered, OtherOwn
    <2> QED
      BY <1>1, <2>1, <2>2, <2>3, <2>6, <2>7, <2>8, PublishStep DEF TransportShapes
  <1>3. CASE AddFails(c)
    <2>1. pins \subseteq pins' /\ (pins \subseteq blocks)'
      BY <1>1, <1>3 DEF AddFails, NodeAdds, Stores
    <2>2. \/ Ends(c, "failed")
          \/ Ends(c, "crashed")
      BY <1>3 DEF AddFails
    <2> QED
      BY <1>1, <1>3, <2>1, <2>2, PublishStep DEF AddFails, Ends, OtherOwn, TransportShapes
  <1> QED
    BY <1>2, <1>3

LEMMA PinInv ==
    ASSUME TransportInv, NEW c \in Client, PinAnswered(c) \/ PinFails(c)
    PROVE  TransportInv'
  <1>1. TransportShapes /\ PlaceOK(c) /\ pins \subseteq blocks
    BY DEF TransportInv, ClientOK
  <1>2. CASE PinAnswered(c)
    <2>1. job[c].kind = "publish"
      BY <1>1, <1>2 DEF PinAnswered, PlaceOK
    <2>2. pins \subseteq pins' /\ (pins \subseteq blocks)' /\ cid'[c] \in pins'
      BY <1>1, <1>2 DEF PinAnswered, NodePins, Stores
    <2>3. res[c] = "none"
      BY <1>1, <1>2 DEF PinAnswered, PlaceOK
    <2>4. \/ job[c].remote /\ Goes(c, "psa")
          \/ ~job[c].remote /\ Ends(c, "ok")
      BY <1>2 DEF PinAnswered, AfterPin
    <2>5. DOMAIN pc' = Client /\ DOMAIN res' = Client
          /\ \A e \in Client \ {c} : pc'[e] = pc[e] /\ res'[e] = res[e]
      BY <1>1, <2>4 DEF Goes, Ends, TransportShapes
    <2>6. \/ job[c].remote /\ pc'[c] = "psa" /\ res'[c] = "none"
          \/ ~job[c].remote /\ pc'[c] = "idle" /\ res'[c] = "ok"
      BY <1>1, <2>3, <2>4 DEF Goes, Ends, TransportShapes
    <2>7. UNCHANGED <<files, job, cid, tries, via, blob, pinned, disturbed, requested>> /\ pc[c] = "pin"
      BY <1>2 DEF PinAnswered, OtherOwn
    <2> QED
      BY <1>1, <2>1, <2>2, <2>5, <2>6, <2>7, PublishStep DEF TransportShapes
  <1>3. CASE PinFails(c)
    <2>1. pins \subseteq pins' /\ (pins \subseteq blocks)'
      BY <1>1, <1>3 DEF PinFails, NodePins, Stores
    <2>2. \/ Ends(c, "failed")
          \/ Ends(c, "crashed")
      BY <1>3 DEF PinFails
    <2> QED
      BY <1>1, <1>3, <2>1, <2>2, PublishStep DEF PinFails, Ends, OtherOwn, TransportShapes
  <1> QED
    BY <1>2, <1>3

LEMMA PsaInv ==
    ASSUME TransportInv, NEW c \in Client,
           PsaAccepted(c) \/ PsaOtherCid(c) \/ PsaRefused(c) \/ PsaTransient(c)
    PROVE  TransportInv'
  <1>1. TransportShapes /\ PlaceOK(c) /\ ToldOK(c) /\ pins \subseteq blocks
    BY DEF TransportInv, ClientOK
  <1>2. pc[c] = "psa" /\ PsaOwn /\ requested \subseteq requested'
    BY DEF PsaAccepted, PsaOtherCid, PsaRefused, PsaTransient, MayBeAccepted
  <1>3. \/ Ends(c, "ok") /\ cid[c] \in requested'
        \/ Ends(c, "failed")
        \/ Ends(c, "crashed")
        \/ Goes(c, "psa")
    BY DEF PsaAccepted, PsaOtherCid, PsaRefused, PsaTransient
  <1>4. DOMAIN tries' = Client /\ \A e \in Client \ {c} : tries'[e] = tries[e]
    BY <1>1 DEF PsaAccepted, PsaOtherCid, PsaRefused, PsaTransient, TransportShapes
  <1>5. /\ job[c].kind = "publish" /\ job[c].pin /\ Calm(c) => cid[c] \in pins
        /\ job[c].kind = "remote" \/ (job[c].kind = "publish" /\ job[c].remote)
        /\ res[c] = "none"
    BY <1>1, <1>2 DEF ToldOK, PlaceOK
  <1> QED
    BY <1>1, <1>2, <1>3, <1>4, <1>5, PublishStep
    DEF PsaOwn, nodeVars, Goes, Ends, TransportShapes

-----------------------------------------------------------------------------
(* fetch.                                                                   *)

\* An attempt that gave no seed is followed by another while there are some.
LEMMA NextAttemptOK ==
    ASSUME TransportInv, NEW c \in Client, pc[c] \in Fetching, NextAttempt(c), job' = job
    PROVE  ClientOK(c)' /\ pc'[c] \in {"idle", "cat", "gateway"}
  <1>1. TransportShapes /\ PlaceOK(c) /\ AttemptsOK(c)
    BY DEF TransportInv, ClientOK
  <1>2. job[c].kind = "fetch" /\ res[c] = "none"
    BY <1>1 DEF PlaceOK, Fetching
  <1>3. Retries \in Nat
    BY TransportAssumption
  <1>4. \/ /\ pc'[c] = "idle" /\ res'[c] = "failed" /\ tries'[c] = Retries
           /\ job[c].gateway => via'[c] = "gateway"
        \/ /\ pc'[c] = "cat" /\ res'[c] = "none" /\ via'[c] = "api"
           /\ tries'[c] \in Nat /\ tries'[c] < Retries
        \/ /\ pc'[c] = "gateway" /\ res'[c] = "none" /\ via'[c] = "gateway"
           /\ tries'[c] = Retries /\ job[c].gateway
    <2>1. CASE via[c] = "gateway"
      BY <1>1, <1>2, <2>1 DEF NextAttempt, Ends, AttemptsOK, TransportShapes
    <2>2. CASE via[c] # "gateway"
      <3>1. via[c] = "api" /\ tries[c] \in Nat /\ tries[c] < Retries
        BY <1>1, <2>2 DEF AttemptsOK
      <3>2. tries'[c] = tries[c] + 1
        BY <1>1, <2>2 DEF NextAttempt, TransportShapes
      <3>3. CASE tries[c] + 1 < Retries
        BY <1>1, <1>2, <1>3, <2>2, <3>1, <3>2, <3>3 DEF NextAttempt, Goes, TransportShapes
      <3>4. CASE ~(tries[c] + 1 < Retries)
        <4>1. tries[c] + 1 = Retries
          BY <1>3, <3>1, <3>4
        <4> QED
          BY <1>1, <1>2, <2>2, <3>1, <3>2, <3>4, <4>1 DEF NextAttempt, Goes, Ends, TransportShapes
      <3> QED
        BY <3>3, <3>4
    <2> QED
      BY <2>1, <2>2
  <1>5. PlaceOK(c)'
    BY <1>1, <1>2, <1>4 DEF PlaceOK, Fetching
  <1>6. AttemptsOK(c)'
    BY <1>3, <1>4 DEF AttemptsOK, Fetching
  <1>7. BlobOK(c)' /\ ToldOK(c)' /\ EndOK(c)'
    BY <1>2, <1>4 DEF BlobOK, ToldOK, EndOK
  <1> QED
    BY <1>4, <1>5, <1>6, <1>7 DEF ClientOK

\* A step of a fetch that leaves the files alone.
LEMMA FetchStep ==
    ASSUME TransportInv, NEW c \in Client, pc[c] \in Fetching, ClientOK(c)', FetchOwn,
           UNCHANGED <<files, disturbed>>, blocks \subseteq blocks',
           \/ UNCHANGED blob
           \/ \E x : blob' = [blob EXCEPT ![c] = x],
           \/ NextAttempt(c)
           \/ \E w : Goes(c, w) /\ UNCHANGED <<tries, via>>
           \/ \E r : Ends(c, r) /\ UNCHANGED <<tries, via>>
    PROVE  TransportInv'
  <1>1. TransportShapes /\ pins \subseteq blocks
    BY DEF TransportInv
  <1>2. DOMAIN blob' = Client /\ \A d \in Client : d # c => blob'[d] = blob[d]
    BY <1>1 DEF TransportShapes
  <1>3. /\ DOMAIN pc' = Client /\ DOMAIN res' = Client
        /\ DOMAIN tries' = Client /\ DOMAIN via' = Client
        /\ \A d \in Client : d # c => /\ pc'[d] = pc[d] /\ res'[d] = res[d]
                                      /\ tries'[d] = tries[d] /\ via'[d] = via[d]
    <2>1. CASE NextAttempt(c)
      BY <1>1, <2>1 DEF NextAttempt, Goes, Ends, TransportShapes
    <2>2. CASE \E w : Goes(c, w) /\ UNCHANGED <<tries, via>>
      BY <1>1, <2>2 DEF Goes, TransportShapes
    <2>3. CASE \E r : Ends(c, r) /\ UNCHANGED <<tries, via>>
      BY <1>1, <2>3 DEF Ends, TransportShapes
    <2> QED
      BY <2>1, <2>2, <2>3
  <1>4. Gentle(c) /\ TransportShapes' /\ (pins \subseteq blocks)'
    BY <1>1, <1>2, <1>3 DEF Gentle, Same, TransportShapes, FetchOwn
  <1> QED
    BY <1>4, GentleInv

LEMMA ReceivesOK ==
    ASSUME TransportInv, NEW c \in Client, pc[c] \in {"cat", "gateway"}, NEW x \in Content,
           Receives(c, x), FetchOwn, UNCHANGED <<files, disturbed>>,
           via[c] = "api" => Sha[x] = cid[c]
    PROVE  ClientOK(c)'
  <1>1. TransportShapes /\ PlaceOK(c) /\ AttemptsOK(c)
    BY DEF TransportInv, ClientOK
  <1>2. job[c].kind = "fetch" /\ res[c] = "none" /\ job' = job /\ cid' = cid
    BY <1>1 DEF PlaceOK, Fetching, FetchOwn
  <1>3. CASE x \in Large
    BY <1>2, <1>3, NextAttemptOK DEF Receives, Fetching
  <1>4. CASE x \notin Large
    <2>1. /\ pc'[c] = "open" /\ res'[c] = "none" /\ blob'[c] = x
          /\ tries' = tries /\ via' = via
      BY <1>1, <1>2, <1>4 DEF Receives, Goes, TransportShapes
    <2>2. PlaceOK(c)'
      BY <1>1, <1>2, <2>1 DEF PlaceOK, Fetching
    <2>3. AttemptsOK(c)'
      BY <1>1, <1>2, <2>1 DEF AttemptsOK, Fetching
    <2>4. BlobOK(c)' /\ ToldOK(c)' /\ EndOK(c)'
      BY <1>2, <1>4, <2>1 DEF BlobOK, ToldOK, EndOK
    <2> QED
      BY <2>2, <2>3, <2>4 DEF ClientOK
  <1> QED
    BY <1>3, <1>4

LEMMA AnswerInv ==
    ASSUME TransportInv, NEW c \in Client, CatAnswered(c) \/ GatewayAnswered(c)
    PROVE  TransportInv'
  <1>1. AttemptsOK(c)
    BY DEF TransportInv, ClientOK
  <1>2. PICK x \in Content :
            /\ pc[c] \in {"cat", "gateway"} /\ (pc[c] = "cat" => Sha[x] = cid[c])
            /\ Receives(c, x) /\ blocks \subseteq blocks'
            /\ UNCHANGED <<files, disturbed>> /\ FetchOwn
    BY DEF CatAnswered, GatewayAnswered, Stores
  <1>3. ClientOK(c)'
    BY <1>1, <1>2, ReceivesOK DEF AttemptsOK, Fetching
  <1>4. UNCHANGED blob \/ \E y : blob' = [blob EXCEPT ![c] = y]
    BY <1>2 DEF Receives
  <1>5. NextAttempt(c) \/ \E w : Goes(c, w) /\ UNCHANGED <<tries, via>>
    BY <1>2 DEF Receives
  <1> QED
    BY <1>2, <1>3, <1>4, <1>5, FetchStep DEF Fetching

LEMMA CrashOK ==
    ASSUME TransportInv, NEW c \in Client, NEW r \in {"crashed", "killed"}, Ends(c, r), job' = job
    PROVE  ClientOK(c)'
  <1>1. pc'[c] = "idle" /\ res'[c] = r /\ PlaceOK(c)
    BY DEF Ends, TransportInv, TransportShapes, ClientOK
  <1> QED
    BY <1>1 DEF ClientOK, PlaceOK, AttemptsOK, BlobOK, ToldOK, EndOK, Fetching

LEMMA RequestFailsInv ==
    ASSUME TransportInv, NEW c \in Client, RequestFails(c)
    PROVE  TransportInv'
  <1>1. /\ pc[c] \in Fetching /\ FetchOwn /\ job' = job
        /\ UNCHANGED <<files, disturbed, blocks, blob>>
    BY DEF RequestFails, FetchOwn, Fetching
  <1>2. CASE NextAttempt(c)
    BY <1>1, <1>2, NextAttemptOK, FetchStep
  <1>3. CASE Ends(c, "crashed") /\ UNCHANGED <<tries, via>>
    BY <1>1, <1>3, CrashOK, FetchStep
  <1> QED
    BY <1>2, <1>3 DEF RequestFails

LEMMA OutInv ==
    ASSUME TransportInv, NEW c \in Client, OutOpen(c) \/ OutFlush(c)
    PROVE  TransportInv'
  <1>1. /\ TransportShapes /\ pins \subseteq blocks /\ \A d \in Client : ClientOK(d)
        /\ PlaceOK(c) /\ AttemptsOK(c) /\ BlobOK(c)
    BY DEF TransportInv, ClientOK
  <1>2. PICK x : /\ Writes(c, x)
                 /\ \/ pc[c] = "open" /\ Goes(c, "flush")
                    \/ pc[c] = "flush" /\ Goes(c, "check") /\ x = blob[c]
    BY DEF OutOpen, OutFlush
  <1>3. /\ job[c].kind = "fetch" /\ res[c] = "none" /\ job[c].path \in Path
        /\ UNCHANGED <<job, cid, tries, via, blob, pins, requested, pinned, blocks>>
    BY <1>1, <1>2 DEF PlaceOK, Fetching, Writes, FetchOwn
  <1>4. /\ TransportShapes' /\ res' = res
        /\ \A d \in Client : d # c => pc'[d] = pc[d]
        /\ pc'[c] \in {"flush", "check"} /\ (pc'[c] = "check" => x = blob[c])
        /\ files'[job[c].path] = x
        /\ \A p \in Path : p # job[c].path => files'[p] = files[p]
    BY <1>1, <1>2, <1>3 DEF TransportShapes, Writes, Goes
  <1>5. ASSUME NEW d \in Client, d # c PROVE ClientOK(d)'
    <2>1. Same(d)
      BY <1>3, <1>4, <1>5 DEF Same
    <2>2. job[d].kind = "fetch" => job[d].path \in Path
      BY <1>1 DEF ClientOK, PlaceOK
    <2>3. d \notin disturbed' => d \notin disturbed
                                 /\ (job[d].kind = "fetch" => job[d].path # job[c].path)
      BY <1>2, <1>5 DEF Writes
    <2>4. Spared(d)
      BY <1>3, <1>4, <2>2, <2>3 DEF Spared
    <2> QED
      BY <1>1, <2>1, <2>4, OthersOK
  <1>6. PlaceOK(c)' /\ AttemptsOK(c)'
    BY <1>1, <1>2, <1>3, <1>4 DEF PlaceOK, AttemptsOK, Fetching
  <1>7. BlobOK(c)' /\ ToldOK(c)' /\ EndOK(c)'
    BY <1>1, <1>2, <1>3, <1>4 DEF BlobOK, ToldOK, EndOK
  <1> QED
    BY <1>1, <1>3, <1>4, <1>5, <1>6, <1>7 DEF TransportInv, ClientOK

LEMMA OutCheckInv ==
    ASSUME TransportInv, NEW c \in Client, OutCheck(c)
    PROVE  TransportInv'
  <1>1. TransportShapes /\ PlaceOK(c) /\ BlobOK(c)
    BY DEF TransportInv, ClientOK
  <1>2. /\ pc[c] = "check" /\ FetchOwn /\ UNCHANGED <<files, disturbed, blocks, blob>>
        /\ pc[c] \in Fetching /\ job' = job /\ cid' = cid
    BY DEF OutCheck, FetchOwn, Fetching
  <1>3. CASE NextAttempt(c)
    BY <1>2, <1>3, NextAttemptOK, FetchStep
  <1>4. CASE ~NextAttempt(c)
    <2>1. /\ \/ blob[c] \in Sealed \intersect Seeds
             \/ blob[c] \notin Sealed /\ files[job[c].path] \in Seeds \ Sealed
          /\ Ends(c, "ok") /\ UNCHANGED <<tries, via>>
      BY <1>4 DEF OutCheck
    <2>2. pc'[c] = "idle" /\ res'[c] = "ok" /\ via' = via /\ job[c].kind = "fetch"
      BY <1>1, <1>2, <2>1 DEF Ends, TransportShapes, PlaceOK
    <2>3. Calm(c) => /\ files[job[c].path] \in Seeds \ Large
                     /\ via[c] = "api" => Sha[files[job[c].path]] = cid[c]
      BY <1>1, <1>2, <2>1 DEF BlobOK
    <2>4. PlaceOK(c)' /\ AttemptsOK(c)' /\ BlobOK(c)' /\ ToldOK(c)'
      BY <1>1, <1>2, <2>2 DEF PlaceOK, AttemptsOK, BlobOK, ToldOK, Fetching
    <2>5. EndOK(c)'
      BY <1>1, <1>2, <2>2, <2>3 DEF EndOK, Calm, PlaceOK
    <2> QED
      BY <1>2, <2>1, <2>4, <2>5, FetchStep DEF ClientOK
  <1> QED
    BY <1>3, <1>4

-----------------------------------------------------------------------------
(* pin-health.                                                              *)

LEMMA HealthStep ==
    ASSUME TransportInv, NEW c \in Client, pc[c] \in {"ls", "stat"}, HealthOwn,
           blocks \subseteq blocks',
           DOMAIN pc' = Client, DOMAIN res' = Client, DOMAIN pinned' = Client,
           \A e \in Client \ {c} : /\ pc'[e] = pc[e] /\ res'[e] = res[e]
                                   /\ pinned'[e] = pinned[e],
           \/ pc'[c] = "stat" /\ res'[c] = "none" /\ (pinned'[c] => cid[c] \in pins)
           \/ pc'[c] = "idle" /\ res'[c] \in {"failed", "crashed"}
           \/ pc'[c] = "idle" /\ res'[c] = "ok" /\ (Calm(c) => cid[c] \in pins)
    PROVE  TransportInv'
  <1>1. TransportShapes /\ PlaceOK(c) /\ pins \subseteq blocks
    BY DEF TransportInv, ClientOK
  <1>2. job[c].kind = "health" /\ ~job[c].remote
    BY <1>1 DEF PlaceOK
  <1>3. Gentle(c) /\ TransportShapes' /\ (pins \subseteq blocks)'
    BY <1>1 DEF Gentle, Same, TransportShapes, HealthOwn
  <1>4. PlaceOK(c)' /\ AttemptsOK(c)' /\ BlobOK(c)'
    BY <1>1, <1>2 DEF PlaceOK, AttemptsOK, BlobOK, Fetching, HealthOwn
  <1>5. ToldOK(c)' /\ EndOK(c)'
    BY <1>2 DEF ToldOK, EndOK, Calm, HealthOwn
  <1> QED
    BY <1>3, <1>4, <1>5, GentleInv DEF ClientOK

LEMMA HealthInv ==
    ASSUME TransportInv, NEW c \in Client,
           LsAnswered(c) \/ LsFails(c) \/ StatAnswered(c) \/ StatFails(c)
    PROVE  TransportInv'
  <1>1. TransportShapes /\ PlaceOK(c) /\ ToldOK(c)
    BY DEF TransportInv, ClientOK
  <1>2. CASE LsAnswered(c)
    <2>1. pinned'[c] = (cid[c] \in pins)
      BY <1>1, <1>2 DEF LsAnswered, TransportShapes
    <2>2. pinned'[c] => cid[c] \in pins
      BY <2>1
    <2>3. res[c] = "none"
      BY <1>1, <1>2 DEF LsAnswered, PlaceOK
    <2>4. /\ DOMAIN pinned' = Client /\ \A e \in Client \ {c} : pinned'[e] = pinned[e]
          /\ DOMAIN pc' = Client /\ pc'[c] = "stat" /\ res' = res
          /\ \A e \in Client \ {c} : pc'[e] = pc[e]
      BY <1>1, <1>2 DEF LsAnswered, Goes, TransportShapes
    <2> QED
      BY <1>1, <1>2, <2>2, <2>3, <2>4, HealthStep DEF LsAnswered, TransportShapes
  <1>3. CASE LsFails(c) \/ StatFails(c)
    <2>1. Ends(c, "failed") \/ Ends(c, "crashed")
      BY <1>3 DEF LsFails, StatFails
    <2> QED
      BY <1>1, <1>3, <2>1, HealthStep DEF LsFails, StatFails, Ends, TransportShapes
  <1>4. CASE StatAnswered(c)
    <2>1. pinned[c] /\ Calm(c) => cid[c] \in pins
      BY <1>1, <1>4 DEF StatAnswered, ToldOK
    <2>2. \/ Ends(c, "ok") /\ pinned[c]
          \/ Ends(c, "failed")
      BY <1>4 DEF StatAnswered
    <2> QED
      BY <1>1, <1>4, <2>1, <2>2, HealthStep DEF StatAnswered, Stores, Ends, TransportShapes
  <1> QED
    BY <1>2, <1>3, <1>4

-----------------------------------------------------------------------------
(* The surroundings.                                                        *)

LEMMA KillInv ==
    ASSUME TransportInv, NEW c \in Client, Kill(c)
    PROVE  TransportInv'
  <1>1. TransportShapes /\ pins \subseteq blocks
    BY DEF TransportInv
  <1>2. Gentle(c) /\ TransportShapes' /\ (pins \subseteq blocks)'
    BY <1>1 DEF Kill, Ends, Gentle, Same, TransportShapes, nodeVars
  <1>3. ClientOK(c)'
    BY CrashOK DEF Kill
  <1> QED
    BY <1>2, <1>3, GentleInv

\* Steps of no client: what was held is held, or those who relied on it count
\* as disturbed.
LEMMA SurroundingsInv ==
    ASSUME TransportInv, NodeLives \/ (\E d \in Digest : Unpin(d)) \/ UNCHANGED transportVars
    PROVE  TransportInv'
  <1>1. TransportShapes /\ pins \subseteq blocks /\ \A c \in Client : ClientOK(c)
    BY DEF TransportInv
  <1>2. UNCHANGED <<ownVars, requested, files>>
    BY DEF NodeLives, Unpin, transportVars
  <1>3. TransportShapes' /\ \A c \in Client : Same(c)
    BY <1>1, <1>2 DEF TransportShapes, Same, ownVars
  <1>4. (pins \subseteq blocks)'
    BY <1>1 DEF NodeLives, Unpin, transportVars, nodeVars
  <1>5. ASSUME NEW c \in Client PROVE Spared(c)
    BY <1>2 DEF Spared, NodeLives, Unpin, transportVars, nodeVars
  <1> QED
    BY <1>1, <1>3, <1>4, <1>5, OthersOK DEF TransportInv

LEMMA NextInv ==
    ASSUME TransportInv, [TransportNext]_transportVars
    PROVE  TransportInv'
  <1>1. ASSUME NEW c \in Client, CommandStart(c) PROVE TransportInv'
    BY <1>1, CommandStartInv
  <1>2. ASSUME NEW c \in Client, Running(c) PROVE TransportInv'
    BY <1>2, AddInv, PinInv, PsaInv, AnswerInv, RequestFailsInv, OutInv, OutCheckInv, HealthInv
    DEF Running
  <1>3. ASSUME NEW c \in Client, Kill(c) PROVE TransportInv'
    BY <1>3, KillInv
  <1> QED
    BY <1>1, <1>2, <1>3, SurroundingsInv DEF TransportNext

-----------------------------------------------------------------------------
(* The theorems.                                                            *)

\* TransportInv holds of every state the commands and their surroundings reach.
THEOREM TransportInvariant == TransportSpec => []TransportInv
  <1>1. TransportInv /\ [TransportNext]_transportVars => TransportInv'
    BY NextInv
  <1> QED
    BY InitInv, <1>1, PTL DEF TransportSpec

\* A fetch that succeeds undisturbed leaves a well-formed seed within the size
\* limit, the one of its CID if the API answered, for any files and attempts.
THEOREM FetchedSeeds == TransportSpec => []FetchedIs
  <1>1. TransportInv => FetchedIs
    BY DEF TransportInv, ClientOK, EndOK, FetchedIs
  <1> QED
    BY <1>1, TransportInvariant, PTL

\* A fetch reports failure only after --retries attempts, whatever --retries
\* is, and after the gateway if it was given one.
THEOREM FetchTriesAll == TransportSpec => []FetchExhausted
  <1>1. TransportInv => FetchExhausted
    BY DEF TransportInv, ClientOK, EndOK, FetchExhausted
  <1> QED
    BY <1>1, TransportInvariant, PTL

\* A pin that publish or remote-add reports is held, whatever the collector,
\* the other clients and a lossy pinning service do.
THEOREM ReportedPins == TransportSpec => []PinsHeld
  <1>1. TransportInv => PinsHeld
    BY DEF TransportInv, ClientOK, ToldOK, EndOK, PinsHeld
  <1> QED
    BY <1>1, TransportInvariant, PTL

\* pin-health says ok only of a CID that the node holds and keeps, although it
\* asks in two requests.
THEOREM HealthReports == TransportSpec => []HealthHonest
  <1>1. TransportInv => HealthHonest
    BY DEF TransportInv, ClientOK, EndOK, HealthHonest
  <1> QED
    BY <1>1, TransportInvariant, PTL

\* No file is truncated or replaced before its fetch holds bytes for it.
THEOREM FilesNeedBytes == TransportSpec => OverwrittenByBytes
  <1>1. ASSUME TransportInv, [TransportNext]_transportVars, NEW p \in Path, files'[p] # files[p]
        PROVE  \E c \in Client : job[c].path = p /\ blob[c] # NoFile
                                 /\ files'[p] \in {Torn, blob[c]}
    <2>1. PICK c \in Client : OutOpen(c) \/ OutFlush(c)
      <3>1. ASSUME NEW c \in Client, CommandStart(c) PROVE FALSE
        BY <1>1, <3>1 DEF CommandStart, Begin
      <3>2. ASSUME NEW c \in Client, Kill(c) PROVE FALSE
        BY <1>1, <3>2 DEF Kill
      <3>3. ~(NodeLives \/ \E d \in Digest : Unpin(d)) /\ ~UNCHANGED transportVars
        BY <1>1 DEF NodeLives, Unpin, transportVars
      <3>4. ASSUME NEW c \in Client, Running(c) PROVE OutOpen(c) \/ OutFlush(c)
        BY <1>1, <3>4
        DEF Running, AddAnswered, AddFails, PinAnswered, PinFails, PsaOwn, PsaAccepted,
            PsaOtherCid, PsaRefused, PsaTransient, CatAnswered, GatewayAnswered,
            RequestFails, OutCheck, HealthOwn, LsAnswered, LsFails, StatAnswered, StatFails
      <3> QED
        BY <1>1, <3>1, <3>2, <3>3, <3>4 DEF TransportNext
    <2>2. job[c].path = p /\ files'[p] \in {Torn, blob[c]}
      BY <1>1, <2>1 DEF OutOpen, OutFlush, Writes, TransportInv, TransportShapes
    <2>3. blob[c] # NoFile
      BY <1>1, <2>1, TransportAssumption DEF OutOpen, OutFlush, TransportInv, ClientOK, BlobOK
    <2> QED
      BY <2>2, <2>3
  <1>2. TransportInv /\ [TransportNext]_transportVars
        => [\A p \in Path : files'[p] # files[p] =>
               \E c \in Client : job[c].path = p /\ blob[c] # NoFile
                                 /\ files'[p] \in {Torn, blob[c]}]_transportVars
    BY <1>1
  <1> QED
    BY <1>2, TransportInvariant, PTL DEF TransportSpec, OverwrittenByBytes

-----------------------------------------------------------------------------
(* Genes packs: the fields of a pack.                                       *)

\* The fields of a pack, whole or cut.
Field ==
    [kind : {"magic"}] \union [kind : {"number", "partial"}, value : Nat]
        \union [kind : {"hash"}, hash : Digest] \union [kind : {"data"}, data : Content]

\* What a number is read from has a value.
Fields(fs) ==
    /\ fs \in Seq(Field)
    /\ Len(fs) > 1 => fs[2].value \in Nat

\* What the fields hold.
LEMMA FieldKinds ==
    /\ Magic \in Field
    /\ \A n \in Nat : Number(n) \in Field /\ Number(n).value = n /\ Number(n).kind = "number"
    /\ \A d \in Digest : Hash(d) \in Field /\ Hash(d).hash = d /\ Hash(d).kind = "hash"
    /\ \A c \in Content :
        Payload(c) \in Field /\ Payload(c).data = c /\ Payload(c).kind = "data"
    /\ \A f \in Field :
        /\ f.kind \in {"number", "partial"} => f.value \in Nat
        /\ f.kind = "hash" => f.hash \in Digest
        /\ f.kind = "data" => f.data \in Content
BY DEF Field, Magic, Number, Hash, Payload

\* A number that is cut short is a number.
LEMMA ShortIsNat ==
    ASSUME NEW n \in Nat, NEW k \in 1..3
    PROVE  ShortNumber(n, k) \in Nat
<1>1. k = 1 => ShortNumber(n, k) = n \div 256 ^ 3
  BY DEF ShortNumber
<1>2. k = 2 => ShortNumber(n, k) = n \div 256 ^ 2
  BY DEF ShortNumber
<1>3. k = 3 => ShortNumber(n, k) = n \div 256 ^ 1
  BY DEF ShortNumber
<1>4. n \div 256 ^ 3 \in Nat /\ n \div 256 ^ 2 \in Nat /\ n \div 256 ^ 1 \in Nat
  OBVIOUS
<1>. QED
  BY <1>1, <1>2, <1>3, <1>4

\* The beginning of a field is read as a number, if it is read as one.
LEMMA CutField ==
    ASSUME NEW f \in Field, NEW g \in Partials(f)
    PROVE  g \in Field /\ g.value \in Nat
<1>1. CASE f.kind = "number"
  <2>1. f.value \in Nat
    BY <1>1, FieldKinds
  <2>2. PICK k \in 1..3 : g = [kind |-> "partial", value |-> ShortNumber(f.value, k)]
    BY <1>1 DEF Partials
  <2>3. ShortNumber(f.value, k) \in Nat
    BY <2>1, ShortIsNat
  <2>. QED
    BY <2>2, <2>3 DEF Field
<1>2. CASE f.kind # "number"
  <2>1. g = [kind |-> "partial", value |-> 0]
    BY <1>2 DEF Partials
  <2>. QED
    BY <2>1 DEF Field
<1>. QED
  BY <1>1, <1>2

\* A cut pack is a sequence of fields, whose count, if there is one, is a number.
LEMMA CutsAreFields ==
    ASSUME NEW fs, Fields(fs), NEW g \in CutsOf(fs)
    PROVE  Fields(g)
<1>0. fs \in Seq(Field) /\ Len(fs) \in Nat
  BY DEF Fields
<1>1. ASSUME NEW n \in 0..Len(fs) - 1
      PROVE  /\ SubSeq(fs, 1, n) \in Seq(Field) /\ Len(SubSeq(fs, 1, n)) = n
             /\ \A i \in 1..n : SubSeq(fs, 1, n)[i] = fs[i]
             /\ fs[n + 1] \in Field
  <2>1. n \in Int /\ 1 \in Int /\ \A i \in 1..n : fs[i] \in Field
    BY <1>0
  <2>2. /\ SubSeq(fs, 1, n) \in Seq(Field)
        /\ Len(SubSeq(fs, 1, n)) = IF 1 <= n THEN n - 1 + 1 ELSE 0
        /\ \A i \in 1..n - 1 + 1 : SubSeq(fs, 1, n)[i] = fs[1 + i - 1]
    BY <2>1, SubSeqProperties
  <2>. QED
    BY <1>0, <2>2
<1>2. CASE \E n \in 0..Len(fs) - 1 : g = SubSeq(fs, 1, n)
  <2>1. PICK n \in 0..Len(fs) - 1 : g = SubSeq(fs, 1, n)
    BY <1>2
  <2>2. n > 1 => fs[2].value \in Nat
    BY <1>0 DEF Fields
  <2>. QED
    BY <1>0, <1>1, <2>1, <2>2 DEF Fields
<1>3. CASE \E n \in 0..Len(fs) - 1 : \E f \in Partials(fs[n + 1]) :
                g = Append(SubSeq(fs, 1, n), f)
  <2>1. PICK n \in 0..Len(fs) - 1 : \E f \in Partials(fs[n + 1]) :
                g = Append(SubSeq(fs, 1, n), f)
    BY <1>3
  <2>2. PICK f \in Partials(fs[n + 1]) : g = Append(SubSeq(fs, 1, n), f)
    BY <2>1
  <2>3. f \in Field /\ f.value \in Nat
    BY <1>1, CutField
  <2>. DEFINE s == SubSeq(fs, 1, n)
  <2>4. s \in Seq(Field) /\ Len(s) = n /\ \A i \in 1..n : s[i] = fs[i]
    BY <1>1
  <2>. HIDE DEF s
  <2>5. g = Append(s, f)
    BY <2>2 DEF s
  <2>6. g \in Seq(Field) /\ Len(g) = n + 1 /\ g[n + 1] = f /\ \A i \in 1..n : g[i] = fs[i]
    BY <2>3, <2>4, <2>5
  <2>7. n > 1 => fs[2].value \in Nat
    BY <1>0 DEF Fields
  <2>8. n = 1 => g[2] = f
    BY <2>6
  <2>. QED
    BY <1>0, <2>3, <2>6, <2>7, <2>8 DEF Fields
<1>. QED
  BY <1>2, <1>3 DEF CutsOf

\* The entries of a pack, and one more.
LEMMA EntriesCount ==
    ASSUME NEW fs \in Seq(Field)
    PROVE  EntriesIn(fs) \in Nat /\ IsFiniteSet({i \in 1..Len(fs) : fs[i].kind = "hash"})
<1>1. IsFiniteSet(1..Len(fs))
  BY FS_Interval
<1>2. IsFiniteSet({i \in 1..Len(fs) : fs[i].kind = "hash"})
  BY <1>1, FS_Subset
<1>. QED
  BY <1>2, FS_CardinalityType DEF EntriesIn

LEMMA EntriesGrow ==
    ASSUME NEW fs \in Seq(Field), NEW d \in Digest, NEW more \in Seq(Field),
           Len(more) >= 1, more[1] = Hash(d), \A i \in 2..Len(more) : more[i].kind # "hash"
    PROVE  EntriesIn(fs \o more) = EntriesIn(fs) + 1
<1>. DEFINE H(s) == {i \in 1..Len(s) : s[i].kind = "hash"}
            t == fs \o more   n == Len(fs)
<1>1. n \in Nat /\ Len(more) \in Nat /\ Len(t) = n + Len(more)
      /\ \A i \in 1..n : t[i] = fs[i]
  OBVIOUS
<1>2. t[n + 1] = Hash(d) /\ \A i \in 1..Len(more) : t[n + i] = more[i]
  OBVIOUS
<1>. HIDE DEF t, n
<1>3. H(t) = H(fs) \union {n + 1} /\ n + 1 \notin H(fs)
  <2>1. \A i \in 1..Len(t) : i \in 1..n \/ i = n + 1 \/ \E j \in 2..Len(more) : i = n + j
    <3>1. SUFFICES ASSUME NEW i \in 1..Len(t), i > n + 1
                   PROVE  \E j \in 2..Len(more) : i = n + j
      BY <1>1
    <3>2. i - n \in 2..Len(more) /\ i = n + (i - n)
      BY <1>1, <3>1
    <3>. QED
      BY <3>2
  <2>2. Hash(d).kind = "hash"
    BY FieldKinds
  <2>3. ASSUME NEW i \in 1..Len(t), t[i].kind = "hash"
        PROVE  i = n + 1 \/ (i \in 1..n /\ fs[i].kind = "hash")
    <3>1. CASE i \in 1..n
      BY <1>1, <2>3, <3>1
    <3>2. ASSUME NEW j \in 2..Len(more), i = n + j
          PROVE  FALSE
      <4>1. j \in 1..Len(more) /\ more[j].kind # "hash"
        BY <1>1
      <4>. QED
        BY <1>2, <2>3, <3>2, <4>1
    <3>. QED
      BY <2>1, <3>1, <3>2
  <2>4. ASSUME NEW i \in 1..n, fs[i].kind = "hash"
        PROVE  i \in 1..Len(t) /\ t[i].kind = "hash" /\ i # n + 1
    BY <1>1, <2>4
  <2>5. n + 1 \in 1..Len(t) /\ t[n + 1].kind = "hash"
    BY <1>1, <1>2, <2>2
  <2>. QED
    BY <2>3, <2>4, <2>5 DEF n
<1>4. IsFiniteSet(H(fs))
  BY EntriesCount
<1>5. Cardinality(H(t)) = Cardinality(H(fs)) + 1
  BY <1>3, <1>4, FS_AddElement
<1>. QED
  BY <1>5 DEF EntriesIn, t

LEMMA NoEntries ==
    ASSUME NEW n \in Nat
    PROVE  EntriesIn(<<Magic, Number(n)>>) = 0
<1>1. {i \in 1..Len(<<Magic, Number(n)>>) : <<Magic, Number(n)>>[i].kind = "hash"} = {}
  BY DEF Magic, Number
<1>. QED
  BY <1>1, FS_EmptySet DEF EntriesIn

-----------------------------------------------------------------------------
(* Genes packs: its entries.                                                *)

\* The first n entries of a pack of the hash table t: where each begins, and
\* which of them have a payload.
Layout(t, fs, n, pos, full) ==
    /\ Len(fs) >= 2 /\ fs[1] = Magic /\ fs[2] = Number(Len(t))
    /\ pos \in [1..n + 1 -> 3..Len(fs) + 1] /\ pos[1] = 3 /\ pos[n + 1] = Len(fs) + 1
    /\ full \subseteq 1..n
    /\ \A k \in 1..n :
        /\ fs[pos[k]] = Hash(t[k])
        /\ k \in full =>
            /\ pos[k + 1] = pos[k] + 3
            /\ \E c \in Content :
                fs[pos[k] + 1] = Number(SizeOf[c]) /\ fs[pos[k] + 2] = Payload(c)
        /\ k \notin full => pos[k + 1] = pos[k] + 2 /\ fs[pos[k] + 1] = Number(0)

\* The digests in c have been packed, and nothing was absent if a is zero.
Packed(t, fs, n, c, a) ==
    \E pos, full :
        /\ Layout(t, fs, n, pos, full)
        /\ c = {t[k] : k \in full}
        /\ a = 0 => full = 1..n

\* Nothing is packed behind a count alone.
LEMMA PackedNothing ==
    ASSUME NEW t \in Seq(Digest)
    PROVE  Packed(t, <<Magic, Number(Len(t))>>, 0, {}, 0)
<1>. DEFINE fs == <<Magic, Number(Len(t))>>   pos == [k \in 1..1 |-> 3]
<1>1. Len(fs) = 2 /\ fs[1] = Magic /\ fs[2] = Number(Len(t))
  OBVIOUS
<1>. HIDE DEF fs
<1>2. Layout(t, fs, 0, pos, {})
  BY <1>1 DEF Layout
<1>. QED
  BY <1>2 DEF Packed, fs

\* The entries of fs are found in g.
Kept(fs, g, n, pos, full) ==
    \A k \in 1..n :
        /\ g[pos[k]] = fs[pos[k]] /\ g[pos[k] + 1] = fs[pos[k] + 1]
        /\ k \in full => g[pos[k] + 2] = fs[pos[k] + 2]

\* What is written behind the pack leaves its entries where they are.
LEMMA LayoutStays ==
    ASSUME NEW t \in Seq(Digest), NEW fs \in Seq(Field), NEW more \in Seq(Field),
           NEW n \in Nat, NEW pos, NEW full, Layout(t, fs, n, pos, full)
    PROVE  Kept(fs, fs \o more, n, pos, full)
<1>. SUFFICES ASSUME NEW k \in 1..n
              PROVE  /\ (fs \o more)[pos[k]] = fs[pos[k]]
                     /\ (fs \o more)[pos[k] + 1] = fs[pos[k] + 1]
                     /\ k \in full => (fs \o more)[pos[k] + 2] = fs[pos[k] + 2]
  BY DEF Kept
<1>1. /\ pos[k] \in 3..Len(fs) + 1 /\ pos[k + 1] \in 3..Len(fs) + 1
      /\ k \in full => pos[k + 1] = pos[k] + 3
      /\ k \notin full => pos[k + 1] = pos[k] + 2
  <2>1. k \in 1..n + 1 /\ k + 1 \in 1..n + 1
    OBVIOUS
  <2>. QED
    BY <2>1 DEF Layout
<1>2. pos[k] \in 1..Len(fs) /\ pos[k] + 1 \in 1..Len(fs)
      /\ (k \in full => pos[k] + 2 \in 1..Len(fs))
  <2>. DEFINE m == Len(fs)   p == pos[k]   q == pos[k + 1]
  <2>1. m \in Nat /\ p \in 3..m + 1 /\ q \in 3..m + 1
        /\ (k \in full => q = p + 3) /\ (k \notin full => q = p + 2)
    BY <1>1
  <2>. HIDE DEF m, p, q
  <2>2. p \in 1..m /\ p + 1 \in 1..m /\ (k \in full => p + 2 \in 1..m)
    BY <2>1
  <2>. QED
    BY <2>2 DEF m, p, q
<1>3. \A i \in 1..Len(fs) : (fs \o more)[i] = fs[i]
  OBVIOUS
<1>. QED
  BY <1>2, <1>3

\* Another entry, with or without a payload.
LEMMA LayoutGrows ==
    ASSUME NEW t \in Seq(Digest), NEW fs \in Seq(Field), NEW n \in Nat, n < Len(t),
           NEW pos, NEW full, Layout(t, fs, n, pos, full),
           NEW more \in Seq(Field), NEW with \in BOOLEAN, more[1] = Hash(t[n + 1]),
           with => /\ Len(more) = 3
                   /\ \E c \in Content : more[2] = Number(SizeOf[c]) /\ more[3] = Payload(c),
           ~with => Len(more) = 2 /\ more[2] = Number(0),
           NEW all, all = IF with THEN full \union {n + 1} ELSE full
    PROVE  \E at : Layout(t, fs \o more, n + 1, at, all)
<1>. DEFINE g == fs \o more
            at == [k \in 1..n + 2 |-> IF k <= n + 1 THEN pos[k] ELSE Len(g) + 1]
            m == Len(fs)
<1>. HIDE DEF g, at, m
<1>0. /\ m \in Nat /\ m >= 2 /\ fs[1] = Magic /\ fs[2] = Number(Len(t))
      /\ pos \in [1..n + 1 -> 3..m + 1] /\ pos[1] = 3 /\ pos[n + 1] = m + 1
      /\ full \subseteq 1..n
  <2>1. m \in Nat
    BY DEF m
  <2>. QED
    BY <2>1 DEF Layout, m
<1>. USE DEF g, at, m
<1>1. Len(g) = m + Len(more) /\ (\A i \in 1..m : g[i] = fs[i])
      /\ \A i \in 1..Len(more) : g[m + i] = more[i]
  OBVIOUS
<1>2. Len(more) \in 2..3
  OBVIOUS
<1>. HIDE DEF g, m
<1>3. Len(g) >= 2 /\ g[1] = Magic /\ g[2] = Number(Len(t))
  BY <1>0, <1>1, <1>2
<1>4. at \in [1..(n + 1) + 1 -> 3..Len(g) + 1] /\ at[1] = 3 /\ at[(n + 1) + 1] = Len(g) + 1
      /\ \A k \in 1..n + 1 : at[k] = pos[k]
  BY <1>0, <1>1, <1>2
<1>. HIDE DEF at
<1>5. ASSUME NEW k \in 1..n
      PROVE  /\ g[at[k]] = Hash(t[k])
             /\ k \in all =>
                /\ at[k + 1] = at[k] + 3
                /\ \E c \in Content :
                    g[at[k] + 1] = Number(SizeOf[c]) /\ g[at[k] + 2] = Payload(c)
             /\ k \notin all => at[k + 1] = at[k] + 2 /\ g[at[k] + 1] = Number(0)
  <2>1. k \in all <=> k \in full
    OBVIOUS
  <2>2. at[k] = pos[k] /\ at[k + 1] = pos[k + 1]
    BY <1>4
  <2>3. g[pos[k]] = fs[pos[k]] /\ g[pos[k] + 1] = fs[pos[k] + 1]
        /\ (k \in full => g[pos[k] + 2] = fs[pos[k] + 2])
    <3>1. Kept(fs, fs \o more, n, pos, full)
      BY LayoutStays
    <3>. QED
      BY <3>1 DEF g, Kept
  <2>4. /\ fs[pos[k]] = Hash(t[k])
        /\ k \in full =>
            /\ pos[k + 1] = pos[k] + 3
            /\ \E c \in Content :
                fs[pos[k] + 1] = Number(SizeOf[c]) /\ fs[pos[k] + 2] = Payload(c)
        /\ k \notin full => pos[k + 1] = pos[k] + 2 /\ fs[pos[k] + 1] = Number(0)
    BY DEF Layout
  <2>. QED
    BY <2>1, <2>2, <2>3, <2>4
<1>6. at[n + 1] = m + 1 /\ at[(n + 1) + 1] = m + Len(more) + 1
  BY <1>0, <1>1, <1>4
<1>7. g[m + 1] = more[1] /\ g[m + 2] = more[2] /\ (with => g[m + 3] = more[3])
  BY <1>1, <1>2
<1>8. /\ g[at[n + 1]] = Hash(t[n + 1])
      /\ n + 1 \in all =>
            /\ at[(n + 1) + 1] = at[n + 1] + 3
            /\ \E c \in Content :
                g[at[n + 1] + 1] = Number(SizeOf[c]) /\ g[at[n + 1] + 2] = Payload(c)
      /\ n + 1 \notin all => at[(n + 1) + 1] = at[n + 1] + 2 /\ g[at[n + 1] + 1] = Number(0)
  <2>1. n + 1 \in all <=> with
    BY <1>0
  <2>2. (m + 1) + 1 = m + 2 /\ (m + 1) + 2 = m + 3
    BY <1>0
  <2>3. CASE with
    <3>0. Len(more) = 3
      BY <2>3
    <3>1. at[(n + 1) + 1] = at[n + 1] + 3
      BY <1>0, <1>6, <3>0
    <3>. QED
      BY <1>6, <1>7, <2>1, <2>2, <2>3, <3>1
  <2>4. CASE ~with
    <3>0. Len(more) = 2
      BY <2>4
    <3>1. at[(n + 1) + 1] = at[n + 1] + 2
      BY <1>0, <1>6, <3>0
    <3>. QED
      BY <1>6, <1>7, <2>1, <2>2, <2>4, <3>1
  <2>. QED
    BY <2>3, <2>4
<1>9. all \subseteq 1..n + 1
  <2>1. n + 1 \in 1..n + 1 /\ \A k \in 1..n : k \in 1..n + 1
    OBVIOUS
  <2>2. full \subseteq 1..n
    BY <1>0
  <2>. QED
    BY <2>1, <2>2
<1>10. \A k \in 1..n + 1 : k = n + 1 \/ k \in 1..n
  OBVIOUS
<1>11. Layout(t, g, n + 1, at, all)
  BY <1>3, <1>4, <1>5, <1>8, <1>9, <1>10 DEF Layout
<1>. QED
  BY <1>11 DEF g

LEMMA PackedRow ==
    ASSUME NEW t \in Seq(Digest), NEW fs \in Seq(Field), NEW n \in Nat, n < Len(t),
           NEW c, NEW a, Packed(t, fs, n, c, a), NEW chunk \in Content
    PROVE  Packed(t, fs \o <<Hash(t[n + 1]), Number(SizeOf[chunk]), Payload(chunk)>>, n + 1,
                  c \union {t[n + 1]}, a)
<1>. DEFINE more == <<Hash(t[n + 1]), Number(SizeOf[chunk]), Payload(chunk)>>
<1>1. PICK pos, full : Layout(t, fs, n, pos, full) /\ c = {t[k] : k \in full}
                       /\ (a = 0 => full = 1..n)
  BY DEF Packed
<1>2. more \in Seq(Field) /\ Len(more) = 3 /\ more[1] = Hash(t[n + 1])
      /\ more[2] = Number(SizeOf[chunk]) /\ more[3] = Payload(chunk)
  <2>1. t[n + 1] \in Digest /\ SizeOf[chunk] \in Nat
    BY GenesAssumption
  <2>. QED
    BY <2>1, FieldKinds
<1>. DEFINE all == full \union {n + 1}
<1>. HIDE DEF more
<1>3. \E at : Layout(t, fs \o more, n + 1, at, all)
  <2>1. all = IF TRUE THEN full \union {n + 1} ELSE full
    OBVIOUS
  <2>2. \E x \in Content : more[2] = Number(SizeOf[x]) /\ more[3] = Payload(x)
    BY <1>2
  <2>. HIDE DEF all
  <2>. QED
    BY <1>1, <1>2, <2>1, <2>2, LayoutGrows
<1>4. c \union {t[n + 1]} = {t[k] : k \in all} /\ (a = 0 => all = 1..n + 1)
  BY <1>1
<1>. HIDE DEF all
<1>. QED
  BY <1>3, <1>4 DEF Packed, more

LEMMA PackedMissing ==
    ASSUME NEW t \in Seq(Digest), NEW fs \in Seq(Field), NEW n \in Nat, n < Len(t),
           NEW c, NEW a \in Nat, Packed(t, fs, n, c, a)
    PROVE  Packed(t, fs \o <<Hash(t[n + 1]), Number(0)>>, n + 1, c, a + 1)
<1>. DEFINE more == <<Hash(t[n + 1]), Number(0)>>
<1>1. PICK pos, full : Layout(t, fs, n, pos, full) /\ c = {t[k] : k \in full}
  BY DEF Packed
<1>2. more \in Seq(Field) /\ Len(more) = 2 /\ more[1] = Hash(t[n + 1])
      /\ more[2] = Number(0)
  BY FieldKinds
<1>. HIDE DEF more
<1>3. \E at : Layout(t, fs \o more, n + 1, at, full)
  <2>1. full = IF FALSE THEN full \union {n + 1} ELSE full
    OBVIOUS
  <2>. QED
    BY <1>1, <1>2, <2>1, LayoutGrows
<1>4. a + 1 # 0
  OBVIOUS
<1>. QED
  BY <1>1, <1>3, <1>4 DEF Packed, more

\* What the exporter writes keeps the fields well formed.
LEMMA FieldsGrow ==
    ASSUME NEW fs, Fields(fs), Len(fs) >= 2, NEW more \in Seq(Field)
    PROVE  Fields(fs \o more)
BY DEF Fields

\* What export_genes writes for a row and for a missing chunk.
LEMMA CountRow ==
    ASSUME NEW fs \in Seq(Field), NEW d \in Digest, NEW n \in Nat, NEW c \in Content
    PROVE  /\ <<Hash(d), Number(n), Payload(c)>> \in Seq(Field)
           /\ EntriesIn(fs \o <<Hash(d), Number(n), Payload(c)>>) = EntriesIn(fs) + 1
<1>. DEFINE more == <<Hash(d), Number(n), Payload(c)>>
<1>1. /\ more \in Seq(Field) /\ Len(more) = 3 /\ more[1] = Hash(d)
      /\ more[2].kind = "number" /\ more[3].kind = "data"
  BY FieldKinds
<1>. HIDE DEF more
<1>2. \A i \in 2..Len(more) : more[i].kind # "hash"
  <2>1. \A i \in 2..Len(more) : i = 2 \/ i = 3
    BY <1>1
  <2>. QED
    BY <1>1, <2>1
<1>3. more \in Seq(Field) /\ Len(more) >= 1 /\ more[1] = Hash(d)
  BY <1>1
<1>4. EntriesIn(fs \o more) = EntriesIn(fs) + 1
  BY <1>2, <1>3, EntriesGrow
<1>. QED
  BY <1>1, <1>4 DEF more

LEMMA CountMissing ==
    ASSUME NEW fs \in Seq(Field), NEW d \in Digest, NEW n \in Nat
    PROVE  /\ <<Hash(d), Number(n)>> \in Seq(Field)
           /\ EntriesIn(fs \o <<Hash(d), Number(n)>>) = EntriesIn(fs) + 1
<1>. DEFINE more == <<Hash(d), Number(n)>>
<1>1. /\ more \in Seq(Field) /\ Len(more) = 2 /\ more[1] = Hash(d)
      /\ more[2].kind = "number"
  BY FieldKinds
<1>. HIDE DEF more
<1>2. \A i \in 2..Len(more) : more[i].kind # "hash"
  <2>1. \A i \in 2..Len(more) : i = 2
    BY <1>1
  <2>. QED
    BY <1>1, <2>1
<1>3. more \in Seq(Field) /\ Len(more) >= 1 /\ more[1] = Hash(d)
  BY <1>1
<1>4. EntriesIn(fs \o more) = EntriesIn(fs) + 1
  BY <1>2, <1>3, EntriesGrow
<1>. QED
  BY <1>1, <1>4 DEF more

-----------------------------------------------------------------------------
(* Genes packs: the inductive invariant.                                    *)

\* The importer stands before the j-th entry, and the payloads of the earlier
\* ones are in the target.
Standing(t, fs, at, todo, gift, rows, pos, full, j) ==
    /\ Layout(t, fs, Len(t), pos, full)
    /\ gift[1] = {t[k] : k \in full}
    /\ gift[2] = 0 => full = 1..Len(t)
    /\ j \in 1..Len(t) + 1
    /\ at + 1 = pos[j] /\ todo = Len(t) + 1 - j
    /\ \A k \in full : k < j => rows[t[k]] # Missing

InPlace(t, fs, at, todo, gift, rows) ==
    \E pos, full, j : Standing(t, fs, at, todo, gift, rows, pos, full, j)

GenesTypes ==
    /\ source \in Rows /\ target \in Rows /\ table \in Tables
    /\ xpc \in {"idle", "rows"}
    /\ ipc \in {"idle", "entries", "ok", "refused", "killed"}
    /\ offset \in Nat /\ owed \in Nat
    /\ carried \in SUBSET Digest /\ entire \in BOOLEAN
    /\ absent \in 0..Len(table)
    /\ Fields(written) /\ Fields(pack) /\ Fields(copy)
    /\ promise = <<>> \/ promise \in (SUBSET Digest) \X Nat

\* An export under way has packed the first entries of the table, a pack left
\* as its export wrote it holds them all.
ExportInv ==
    /\ xpc = "rows" =>
        /\ ~entire
        /\ EntriesIn(written) <= Len(table) /\ absent <= EntriesIn(written)
        /\ Packed(table, written, EntriesIn(written), carried, absent)
    /\ entire => Packed(table, pack, Len(table), carried, absent)

ImportInv ==
    ipc = "entries" /\ promise # <<>> => InPlace(table, copy, offset, owed, promise, target)

GenesInv == GenesTypes /\ ExportInv /\ ImportInv /\ Transported

LEMMA TableIs ==
    ASSUME GenesTypes
    PROVE  table \in Seq(Digest) /\ Len(table) \in Nat
BY GenesAssumption DEF GenesTypes

LEMMA GenesInvInit == GenesInit => GenesInv
<1>. SUFFICES ASSUME GenesInit PROVE GenesInv
  OBVIOUS
<1>1. table \in Seq(Digest) /\ Len(table) \in Nat
  BY GenesAssumption DEF GenesInit
<1>2. Fields(<<>>)
  BY DEF Fields
<1>3. GenesTypes
  <2>1. 0 \in 0..Len(table)
    BY <1>1
  <2>2. source \in Rows /\ target \in Rows
    BY DEF GenesInit, GenuineRows
  <2>. QED
    BY <1>2, <2>1, <2>2 DEF GenesInit, GenesTypes
<1>4. ExportInv /\ ImportInv /\ Transported
  BY DEF GenesInit, ExportInv, ImportInv, Transported
<1>. QED
  BY <1>3, <1>4 DEF GenesInv

\* A put adds a row where none was and leaves the others alone.
LEMMA PutRow ==
    ASSUME NEW rows \in Rows, NEW d \in Digest, NEW c \in Content,
           NEW more, more = [rows EXCEPT ![d] = IF @ = Missing THEN c ELSE @]
    PROVE  /\ more \in Rows /\ more[d] # Missing
           /\ \A e \in Digest : rows[e] # Missing => more[e] = rows[e]
BY ShaAssumption DEF Rows

\* The entry at which the importer stands names a digest.
LEMMA EntryTyped ==
    ASSUME GenesTypes, Has(offset + 1, "hash")
    PROVE  EntryHash \in Digest /\ copy[offset + 1] \in Field
<1>1. offset + 1 \in 1..Len(copy) /\ copy \in Seq(Field)
  BY DEF GenesTypes, Has, Fields
<1>2. copy[offset + 1] \in Field
  BY <1>1
<1>. QED
  BY <1>2, FieldKinds DEF EntryHash, Has

LEMMA DataTyped ==
    ASSUME GenesTypes, GoodEntry
    PROVE  EntryData \in Content
<1>1. offset + 3 \in 1..Len(copy) /\ copy \in Seq(Field)
  BY DEF GenesTypes, GoodEntry, Has, Fields
<1>2. copy[offset + 3] \in Field
  BY <1>1
<1>. QED
  BY <1>2, FieldKinds DEF EntryData, GoodEntry, Has

\* No step loses a row of the target.
LEMMA TargetKept ==
    ASSUME GenesTypes, GenesNext
    PROVE  /\ target' \in Rows
           /\ \A d \in Digest : target[d] # Missing => target'[d] = target[d]
<1>. USE DEF GenesTypes
<1>1. CASE ImportPut
  <2>1. EntryHash \in Digest /\ EntryData \in Content
    BY <1>1, EntryTyped, DataTyped DEF ImportPut
  <2>2. target' = [target EXCEPT ![EntryHash] = IF @ = Missing THEN EntryData ELSE @]
    BY <1>1 DEF ImportPut, Target!PutChunk
  <2>. HIDE DEF GenesTypes
  <2>3. target \in Rows
    BY DEF GenesTypes
  <2>4. target' \in Rows
    BY <2>1, <2>2, <2>3, PutRow
  <2>5. \A d \in Digest : target[d] # Missing => target'[d] = target[d]
    BY <2>1, <2>2, <2>3 DEF Rows
  <2>. QED
    BY <2>4, <2>5
<1>2. ASSUME NEW c \in Content, LearnTarget(c)
      PROVE  /\ target' \in Rows
             /\ \A d \in Digest : target[d] # Missing => target'[d] = target[d]
  <2>1. Sha[c] \in Digest
    BY ShaAssumption
  <2>2. target' = [target EXCEPT ![Sha[c]] = IF @ = Missing THEN c ELSE @]
    BY <1>2 DEF LearnTarget, Target!PutChunk
  <2>. HIDE DEF GenesTypes
  <2>3. target \in Rows
    BY DEF GenesTypes
  <2>4. target' \in Rows
    BY <2>1, <2>2, <2>3, PutRow
  <2>5. \A d \in Digest : target[d] # Missing => target'[d] = target[d]
    BY <2>1, <2>2, <2>3 DEF Rows
  <2>. QED
    BY <2>4, <2>5
<1>3. CASE target' = target
  BY <1>3
<1>. QED
  BY <1>1, <1>2, <1>3 DEF GenesNext, ExportStart, ExportRow, ExportMissing, ExportDone,
     ExportAbort, ImportStart, ImportSkip, ImportRefuse, ImportDone, ImportKill,
     LearnSource, CutCopy, RotSource, Mishap

\* The rows of the source stay rows.
LEMMA SourceTyped ==
    ASSUME GenesTypes, GenesNext
    PROVE  source' \in Rows
<1>. USE DEF GenesTypes
<1>1. ASSUME NEW c \in Content, LearnSource(c)
      PROVE  source' \in Rows
  <2>1. Sha[c] \in Digest
    BY ShaAssumption
  <2>2. source' = [source EXCEPT ![Sha[c]] = IF @ = Missing THEN c ELSE @]
    BY <1>1 DEF LearnSource, Source!PutChunk
  <2>. HIDE DEF GenesTypes
  <2>3. source \in Rows
    BY DEF GenesTypes
  <2>. QED
    BY <2>1, <2>2, <2>3, PutRow
<1>2. ASSUME NEW d \in Digest, Source!RotRow(d)
      PROVE  source' \in Rows
  BY <1>2 DEF Source!RotRow, Rows
<1>3. CASE source' = source
  BY <1>3
<1>. QED
  BY <1>1, <1>2, <1>3 DEF GenesNext, ExportStart, ExportRow, ExportMissing, ExportDone,
     ExportAbort, ImportStart, ImportSkip, ImportPut, ImportRefuse, ImportDone, ImportKill,
     LearnTarget, CutCopy, RotSource, Mishap

-----------------------------------------------------------------------------
(* Genes packs: steps.                                                      *)

\* What the exporter has under way at least starts with the magic and a count.
LEMMA RowsWritten ==
    ASSUME GenesTypes, ExportInv, xpc = "rows"
    PROVE  /\ written \in Seq(Field) /\ Len(written) >= 2
           /\ EntriesIn(written) \in Nat
           /\ EntriesIn(written) <= Len(table) /\ absent <= EntriesIn(written)
           /\ Packed(table, written, EntriesIn(written), carried, absent)
           /\ ~entire
<1>1. written \in Seq(Field)
  BY DEF GenesTypes, Fields
<1>2. /\ EntriesIn(written) <= Len(table) /\ absent <= EntriesIn(written)
      /\ Packed(table, written, EntriesIn(written), carried, absent) /\ ~entire
  BY DEF ExportInv
<1>3. Len(written) >= 2
  BY <1>2 DEF Packed, Layout
<1>. QED
  BY <1>1, <1>2, <1>3, EntriesCount

\* The entry to be written, and the row there may be.
LEMMA CurrentTyped ==
    ASSUME GenesTypes, ExportInv, Exporting
    PROVE  /\ EntriesIn(written) \in Nat /\ EntriesIn(written) < Len(table)
           /\ Current \in Digest /\ Current = table[EntriesIn(written) + 1]
           /\ Source!GetChunk(Current) \in Content \union {Missing}
<1>1. EntriesIn(written) \in Nat /\ EntriesIn(written) < Len(table)
  BY RowsWritten DEF Exporting
<1>2. Current = table[EntriesIn(written) + 1] /\ Current \in Digest
  BY <1>1, TableIs DEF Current
<1>3. source[Current] \in Content \union {Missing}
  BY <1>2 DEF GenesTypes, Rows
<1>. QED
  BY <1>1, <1>2, <1>3 DEF Source!GetChunk

\* The exporter, step by step.
LEMMA ExportStartStep ==
    ASSUME GenesTypes, ExportStart
    PROVE  Fields(pack') /\ Fields(written') /\ absent' \in 0..Len(table) /\ ExportInv'
<1>. DEFINE w == <<Magic, Number(Len(table))>>
<1>1. written' = w /\ pack' = <<>> /\ absent' = 0 /\ carried' = {} /\ entire' = FALSE
      /\ table' = table /\ xpc' = "rows"
  BY DEF ExportStart, Announced
<1>2. table \in Seq(Digest) /\ Len(table) \in Nat
  BY TableIs
<1>3. Fields(w)
  BY <1>2, FieldKinds DEF Fields
<1>4. EntriesIn(w) = 0
  BY <1>2, NoEntries
<1>5. Packed(table, w, 0, {}, 0)
  BY <1>2, PackedNothing
<1>6. Fields(<<>>)
  BY DEF Fields
<1>. HIDE DEF w
<1>. QED
  BY <1>1, <1>2, <1>3, <1>4, <1>5, <1>6 DEF ExportInv

LEMMA ExportRowStep ==
    ASSUME GenesTypes, ExportInv, ExportRow
    PROVE  Fields(written') /\ carried' \in SUBSET Digest /\ ExportInv'
<1>. DEFINE chunk == Source!GetChunk(Current)
            n == EntriesIn(written)
            w == written \o <<Hash(Current), Number(SizeOf[chunk]), Payload(chunk)>>
<1>1. /\ written' = w /\ carried' = carried \union {Current} /\ chunk # Missing
      /\ xpc' = xpc /\ absent' = absent /\ entire' = entire /\ table' = table
      /\ xpc = "rows" /\ Exporting
  BY DEF ExportRow, Exporting
<1>2. chunk \in Content /\ SizeOf[chunk] \in Nat
  BY <1>1, CurrentTyped, GenesAssumption
<1>3. /\ n \in Nat /\ n < Len(table) /\ Current \in Digest /\ Current = table[n + 1]
      /\ written \in Seq(Field) /\ Len(written) >= 2 /\ absent <= n /\ ~entire
      /\ Packed(table, written, n, carried, absent) /\ absent \in Nat /\ Len(table) \in Nat
  BY <1>1, CurrentTyped, RowsWritten, TableIs DEF GenesTypes
<1>. HIDE DEF chunk
<1>4. EntriesIn(w) = n + 1
  BY <1>2, <1>3, CountRow
<1>5. Packed(table, w, n + 1, carried \union {table[n + 1]}, absent)
  BY <1>2, <1>3, TableIs, PackedRow
<1>6. Fields(w)
  <2>1. <<Hash(Current), Number(SizeOf[chunk]), Payload(chunk)>> \in Seq(Field)
    BY <1>2, <1>3, CountRow
  <2>. QED
    BY <1>3, <2>1, FieldsGrow DEF GenesTypes
<1>. HIDE DEF w, n
<1>7. carried' \in SUBSET Digest
  BY <1>1, <1>3 DEF GenesTypes
<1>8. ExportInv'
  <2>1. n + 1 <= Len(table) /\ absent <= n + 1
    BY <1>3
  <2>. QED
    BY <1>1, <1>3, <1>4, <1>5, <2>1 DEF ExportInv
<1>. QED
  BY <1>1, <1>6, <1>7, <1>8

LEMMA ExportMissingStep ==
    ASSUME GenesTypes, ExportInv, ExportMissing
    PROVE  Fields(written') /\ absent' \in 0..Len(table) /\ ExportInv'
<1>. DEFINE n == EntriesIn(written)
            w == written \o <<Hash(Current), Number(0)>>
<1>1. /\ written' = w /\ carried' = carried
      /\ xpc' = xpc /\ absent' = absent + 1 /\ entire' = entire /\ table' = table
      /\ xpc = "rows" /\ Exporting
  BY DEF ExportMissing, Exporting
<1>3. /\ n \in Nat /\ n < Len(table) /\ Current \in Digest /\ Current = table[n + 1]
      /\ written \in Seq(Field) /\ Len(written) >= 2 /\ absent <= n /\ ~entire
      /\ Packed(table, written, n, carried, absent) /\ absent \in Nat /\ Len(table) \in Nat
  BY <1>1, CurrentTyped, RowsWritten, TableIs DEF GenesTypes
<1>4. EntriesIn(w) = n + 1
  BY <1>3, CountMissing
<1>5. Packed(table, w, n + 1, carried, absent + 1)
  BY <1>3, TableIs, PackedMissing
<1>6. Fields(w)
  <2>1. <<Hash(Current), Number(0)>> \in Seq(Field)
    BY <1>3, CountMissing
  <2>. QED
    BY <1>3, <2>1, FieldsGrow DEF GenesTypes
<1>. HIDE DEF w, n
<1>7. n + 1 <= Len(table) /\ absent + 1 <= n + 1 /\ absent + 1 \in 0..Len(table)
  BY <1>3
<1>8. ExportInv'
  BY <1>1, <1>3, <1>4, <1>5, <1>7 DEF ExportInv
<1>. QED
  BY <1>1, <1>6, <1>7, <1>8

LEMMA ExportDoneStep ==
    ASSUME GenesTypes, ExportInv, ExportDone
    PROVE  Fields(pack') /\ ExportInv'
<1>1. /\ pack' = written /\ entire' = TRUE /\ table' = table /\ carried' = carried
      /\ absent' = absent /\ xpc' = "idle" /\ xpc = "rows" /\ ~Exporting
  BY DEF ExportDone
<1>2. EntriesIn(written) = Len(table)
  BY <1>1, RowsWritten, TableIs DEF Exporting
<1>3. Packed(table, written, Len(table), carried, absent)
  BY <1>1, <1>2, RowsWritten
<1>. QED
  BY <1>1, <1>3 DEF ExportInv, GenesTypes

LEMMA ExportStays ==
    ASSUME GenesTypes, ExportInv,
           UNCHANGED <<table, pack, xpc, written, absent, carried, entire>>
    PROVE  ExportInv'
BY DEF ExportInv

LEMMA ExportCut ==
    ASSUME GenesTypes, ExportInv, ExportAbort \/ CutCopy
    PROVE  Fields(pack') /\ ExportInv'
<1>1. CASE ExportAbort
  <2>1. pack' \in CutsOf(written) /\ xpc' = "idle" /\ entire' = entire /\ xpc = "rows"
    BY <1>1 DEF ExportAbort
  <2>2. Fields(pack')
    BY <2>1, CutsAreFields DEF GenesTypes
  <2>. QED
    BY <2>1, <2>2 DEF ExportInv
<1>2. CASE CutCopy
  <2>1. pack' \in CutsOf(pack) /\ xpc' = "idle" /\ entire' = FALSE
    BY <1>2 DEF CutCopy, Mishap, exporterVars
  <2>2. Fields(pack')
    BY <2>1, CutsAreFields DEF GenesTypes
  <2>. QED
    BY <2>1, <2>2 DEF ExportInv
<1>. QED
  BY <1>1, <1>2

-----------------------------------------------------------------------------
(* Genes packs: the importer, entry by entry.                               *)

\* The entry at which an importer stands that is not past the last one.
LEMMA EntryAt ==
    ASSUME NEW t \in Seq(Digest), NEW fs \in Seq(Field), NEW pos, NEW full,
           Layout(t, fs, Len(t), pos, full),
           NEW j \in 1..Len(t), NEW at \in Nat, at + 1 = pos[j]
    PROVE  /\ fs[at + 1] = Hash(t[j])
           /\ at + 2 <= Len(fs)
           /\ j \in full => /\ pos[j + 1] = (at + 3) + 1 /\ at + 3 <= Len(fs)
                            /\ \E c \in Content : /\ fs[at + 2] = Number(SizeOf[c])
                                                  /\ fs[at + 3] = Payload(c)
           /\ j \notin full => pos[j + 1] = (at + 2) + 1 /\ fs[at + 2] = Number(0)
<1>1. Len(t) \in Nat /\ Len(fs) \in Nat
  OBVIOUS
<1>2. pos[j + 1] \in 3..Len(fs) + 1
  <2>1. j + 1 \in 1..Len(t) + 1
    BY <1>1
  <2>. QED
    BY <2>1 DEF Layout
<1>3. /\ fs[pos[j]] = Hash(t[j])
      /\ j \in full =>
            /\ pos[j + 1] = pos[j] + 3
            /\ \E c \in Content :
                fs[pos[j] + 1] = Number(SizeOf[c]) /\ fs[pos[j] + 2] = Payload(c)
      /\ j \notin full => pos[j + 1] = pos[j] + 2 /\ fs[pos[j] + 1] = Number(0)
  BY DEF Layout
<1>4. pos[j] + 1 = at + 2 /\ pos[j] + 2 = at + 3
  OBVIOUS
<1>5. at + 2 <= Len(fs) /\ (j \in full => at + 3 <= Len(fs))
  BY <1>1, <1>2, <1>3
<1>. QED
  BY <1>3, <1>4, <1>5

\* An importer of a whole pack starts before the first entry.
LEMMA StartsInPlace ==
    ASSUME NEW t \in Seq(Digest), NEW fs \in Seq(Field), NEW c, NEW a, NEW rows,
           Packed(t, fs, Len(t), c, a)
    PROVE  /\ InPlace(t, fs, 2, Len(t), <<c, a>>, rows)
           /\ Len(fs) > 1 /\ fs[2].value = Len(t)
<1>1. PICK pos, full : Layout(t, fs, Len(t), pos, full) /\ c = {t[k] : k \in full}
                       /\ (a = 0 => full = 1..Len(t))
  BY DEF Packed
<1>2. Len(t) \in Nat /\ Len(fs) \in Nat
  OBVIOUS
<1>3. Len(fs) >= 2 /\ fs[2] = Number(Len(t)) /\ pos[1] = 3 /\ full \subseteq 1..Len(t)
  BY <1>1 DEF Layout
<1>4. 1 \in 1..Len(t) + 1 /\ 2 + 1 = pos[1] /\ Len(t) = Len(t) + 1 - 1
      /\ \A k \in full : ~(k < 1)
  BY <1>2, <1>3
<1>5. <<c, a>>[1] = c /\ <<c, a>>[2] = a
  OBVIOUS
<1>6. InPlace(t, fs, 2, Len(t), <<c, a>>, rows)
  <2>1. Standing(t, fs, 2, Len(t), <<c, a>>, rows, pos, full, 1)
    BY <1>1, <1>4, <1>5 DEF Standing
  <2>. QED
    BY <2>1 DEF InPlace
<1>. QED
  BY <1>2, <1>3, <1>6, FieldKinds

\* Rows that only grow keep the importer in its place.
LEMMA InPlaceKept ==
    ASSUME NEW t \in Seq(Digest), NEW fs, NEW at, NEW todo, NEW gift, NEW rows, NEW more,
           InPlace(t, fs, at, todo, gift, rows),
           \A d \in Digest : rows[d] # Missing => more[d] = rows[d]
    PROVE  InPlace(t, fs, at, todo, gift, more)
<1>0. PICK pos, full, j : Standing(t, fs, at, todo, gift, rows, pos, full, j)
  BY DEF InPlace
<1>1. /\ Layout(t, fs, Len(t), pos, full)
      /\ gift[1] = {t[k] : k \in full}
      /\ gift[2] = 0 => full = 1..Len(t)
      /\ j \in 1..Len(t) + 1
      /\ at + 1 = pos[j] /\ todo = Len(t) + 1 - j
      /\ \A k \in full : k < j => rows[t[k]] # Missing
  BY <1>0 DEF Standing
<1>2. full \subseteq 1..Len(t)
  BY <1>1 DEF Layout
<1>3. \A k \in full : k < j => more[t[k]] # Missing
  BY <1>1, <1>2
<1>4. Standing(t, fs, at, todo, gift, more, pos, full, j)
  BY <1>1, <1>3 DEF Standing
<1>. QED
  BY <1>4 DEF InPlace

LEMMA InPlaceTyped ==
    ASSUME NEW t \in Seq(Digest), NEW fs \in Seq(Field), NEW at \in Nat, NEW todo, NEW gift,
           NEW rows, InPlace(t, fs, at, todo, gift, rows)
    PROVE  at <= Len(fs)
<1>1. PICK pos, full, j : Layout(t, fs, Len(t), pos, full) /\ j \in 1..Len(t) + 1 /\ at + 1 = pos[j]
  BY DEF InPlace, Standing
<1>2. pos[j] \in 3..Len(fs) + 1
  BY <1>1 DEF Layout
<1>. QED
  BY <1>1, <1>2

ReadEntry(fs, at) == IF at + 2 <= Len(fs) THEN fs[at + 2].value ELSE 0

\* Importing the entry moves the importer to the next.
LEMMA InPlaceMoves ==
    ASSUME NEW t \in Seq(Digest), NEW fs \in Seq(Field), NEW at \in Nat, NEW todo \in Nat,
           NEW gift, NEW rows, NEW more,
           InPlace(t, fs, at, todo, gift, rows), todo > 0,
           \A d \in Digest : rows[d] # Missing => more[d] = rows[d],
           NEW size, size = ReadEntry(fs, at)
    PROVE  /\ size = 0 => InPlace(t, fs, at + 2, todo - 1, gift, more)
           /\ size > 0 /\ more[fs[at + 1].hash] # Missing =>
                InPlace(t, fs, at + 3, todo - 1, gift, more)
<1>0. PICK pos, full, j : Standing(t, fs, at, todo, gift, rows, pos, full, j)
  BY DEF InPlace
<1>1. /\ Layout(t, fs, Len(t), pos, full)
      /\ gift[1] = {t[k] : k \in full}
      /\ gift[2] = 0 => full = 1..Len(t)
      /\ j \in 1..Len(t) + 1
      /\ at + 1 = pos[j] /\ todo = Len(t) + 1 - j
      /\ \A k \in full : k < j => rows[t[k]] # Missing
  BY <1>0 DEF Standing
<1>2. full \subseteq 1..Len(t) /\ Len(t) \in Nat /\ Len(fs) \in Nat
  BY <1>1 DEF Layout
<1>3. j \in 1..Len(t) /\ j + 1 \in 1..Len(t) + 1 /\ todo - 1 = Len(t) + 1 - (j + 1)
  BY <1>1, <1>2
<1>4. \A k \in full : k < j => more[t[k]] # Missing
  BY <1>1, <1>2
<1>5. /\ fs[at + 1] = Hash(t[j])
      /\ at + 2 <= Len(fs)
      /\ j \in full => /\ pos[j + 1] = (at + 3) + 1
                       /\ \E c \in Content : fs[at + 2] = Number(SizeOf[c])
      /\ j \notin full => pos[j + 1] = (at + 2) + 1 /\ fs[at + 2] = Number(0)
  BY <1>1, <1>3, EntryAt
<1>6. \A k \in full : k < j + 1 => k < j \/ k = j
  BY <1>1, <1>2
<1>7. size = fs[at + 2].value
  BY <1>2, <1>5 DEF ReadEntry
<1>8. ASSUME size = 0
      PROVE  InPlace(t, fs, at + 2, todo - 1, gift, more)
  <2>1. j \notin full
    <3>1. ASSUME NEW c \in Content
          PROVE  Number(SizeOf[c]).value # 0
      <4>1. SizeOf[c] \in Nat /\ SizeOf[c] # 0
        BY GenesAssumption
      <4>. QED
        BY <4>1, FieldKinds
    <3>. QED
      BY <1>5, <1>7, <1>8, <3>1
  <2>2. \A k \in full : k < j + 1 => more[t[k]] # Missing
    BY <1>4, <1>6, <2>1
  <2>3. Standing(t, fs, at + 2, todo - 1, gift, more, pos, full, j + 1)
    BY <1>1, <1>3, <1>5, <2>1, <2>2 DEF Standing
  <2>. QED
    BY <2>3 DEF InPlace
<1>9. ASSUME size > 0, more[fs[at + 1].hash] # Missing
      PROVE  InPlace(t, fs, at + 3, todo - 1, gift, more)
  <2>1. j \in full
    <3>1. Number(0).value = 0
      BY FieldKinds
    <3>. QED
      BY <1>5, <1>7, <1>9, <3>1
  <2>2. more[t[j]] # Missing
    BY <1>3, <1>5, <1>9, FieldKinds
  <2>3. \A k \in full : k < j + 1 => more[t[k]] # Missing
    BY <1>4, <1>6, <2>2
  <2>4. Standing(t, fs, at + 3, todo - 1, gift, more, pos, full, j + 1)
    BY <1>1, <1>3, <1>5, <2>1, <2>3 DEF Standing
  <2>. QED
    BY <2>4 DEF InPlace
<1>. QED
  BY <1>8, <1>9

\* The steps of the exporter, of the copy and of the rest.
ExporterStep ==
    \/ ExportStart \/ ExportRow \/ ExportMissing \/ ExportDone \/ ExportAbort \/ CutCopy
ImporterStep ==
    \/ ImportStart \/ ImportSkip \/ ImportPut \/ ImportRefuse \/ ImportDone \/ ImportKill
OtherStep == (\E c \in Content : LearnSource(c) \/ LearnTarget(c)) \/ RotSource

\* What the steps of one actor leave alone.
LEMMA StepKinds == GenesNext <=> ExporterStep \/ ImporterStep \/ OtherStep
BY DEF GenesNext, ExporterStep, ImporterStep, OtherStep

LEMMA ExporterLeaves ==
    ASSUME ExporterStep
    PROVE  UNCHANGED <<table, ipc, copy, offset, owed, promise>> /\ xpc' \in {"idle", "rows"}
<1>1. UNCHANGED <<table, ipc, copy, offset, owed, promise>>
  BY DEF ExporterStep, ExportStart, ExportRow, ExportMissing, ExportDone, ExportAbort,
     CutCopy, Mishap, importerVars
<1>2. CASE ExportRow \/ ExportMissing
  BY <1>1, <1>2 DEF ExportRow, ExportMissing, Exporting
<1>3. CASE ExportStart \/ ExportDone \/ ExportAbort
  BY <1>1, <1>3 DEF ExportStart, ExportDone, ExportAbort
<1>4. CASE CutCopy
  BY <1>1, <1>4 DEF CutCopy, Mishap, exporterVars
<1>. QED
  BY <1>2, <1>3, <1>4 DEF ExporterStep

LEMMA ImporterLeaves ==
    ASSUME ImporterStep
    PROVE  UNCHANGED <<source, table, pack, xpc, written, absent, carried, entire>>
BY DEF ImporterStep, ImportStart, ImportSkip, ImportPut, ImportRefuse, ImportDone,
   ImportKill, exporterVars

LEMMA OtherLeaves ==
    ASSUME OtherStep
    PROVE  UNCHANGED <<table, pack, xpc, written, absent, carried, entire,
                       ipc, copy, offset, owed, promise>>
BY DEF OtherStep, LearnSource, LearnTarget, RotSource, Mishap, exporterVars, importerVars

\* Types, actor by actor.
LEMMA ExporterTyped ==
    ASSUME GenesTypes, ExportInv, ExporterStep
    PROVE  /\ carried' \in SUBSET Digest /\ entire' \in BOOLEAN
           /\ absent' \in 0..Len(table) /\ Fields(written') /\ Fields(pack')
           /\ ExportInv'
<1>1. CASE ExportStart
  <2>1. carried' = {} /\ entire' = FALSE
    BY <1>1 DEF ExportStart
  <2>. QED
    BY <1>1, <2>1, ExportStartStep
<1>2. CASE ExportRow
  <2>1. absent' = absent /\ entire' = entire /\ pack' = pack
    BY <1>2 DEF ExportRow
  <2>. QED
    BY <1>2, <2>1, ExportRowStep DEF GenesTypes
<1>3. CASE ExportMissing
  <2>1. carried' = carried /\ entire' = entire /\ pack' = pack
    BY <1>3 DEF ExportMissing
  <2>. QED
    BY <1>3, <2>1, ExportMissingStep DEF GenesTypes
<1>4. CASE ExportDone
  <2>1. carried' = carried /\ entire' = TRUE /\ written' = written /\ absent' = absent
    BY <1>4 DEF ExportDone
  <2>. QED
    BY <1>4, <2>1, ExportDoneStep DEF GenesTypes
<1>5. CASE ExportAbort
  <2>1. carried' = carried /\ entire' = entire /\ written' = written /\ absent' = absent
    BY <1>5 DEF ExportAbort
  <2>. QED
    BY <1>5, <2>1, ExportCut DEF GenesTypes
<1>6. CASE CutCopy
  <2>1. carried' = carried /\ entire' = FALSE /\ written' = written /\ absent' = absent
    BY <1>6 DEF CutCopy, Mishap, exporterVars
  <2>. QED
    BY <1>6, <2>1, ExportCut DEF GenesTypes
<1>. QED
  BY <1>1, <1>2, <1>3, <1>4, <1>5, <1>6 DEF ExporterStep

LEMMA ImporterTyped ==
    ASSUME GenesTypes, ImporterStep
    PROVE  /\ ipc' \in {"idle", "entries", "ok", "refused", "killed"}
           /\ offset' \in Nat /\ owed' \in Nat /\ Fields(copy')
           /\ promise' = <<>> \/ promise' \in (SUBSET Digest) \X Nat
<1>1. CASE ImportStart
  <2>1. copy' = pack /\ offset' = 2 /\ ipc' \in {"entries", "refused"}
        /\ promise' = IF entire THEN <<carried, absent>> ELSE <<>>
    BY <1>1 DEF ImportStart
  <2>2. Len(pack) > 1 => pack[2].value \in Nat
    BY DEF GenesTypes, Fields
  <2>3. owed' \in Nat
    BY <1>1, <2>2 DEF ImportStart
  <2>4. carried \in SUBSET Digest /\ absent \in Nat /\ entire \in BOOLEAN
    BY TableIs DEF GenesTypes
  <2>5. <<carried, absent>> \in (SUBSET Digest) \X Nat
    BY <2>4
  <2>6. promise' = <<>> \/ promise' \in (SUBSET Digest) \X Nat
    BY <2>1, <2>5
  <2>7. Fields(copy')
    BY <2>1 DEF GenesTypes
  <2>. QED
    BY <2>1, <2>3, <2>6, <2>7
<1>2. CASE ImportSkip \/ ImportPut
  <2>1. /\ ipc' = ipc /\ copy' = copy /\ promise' = promise /\ owed > 0 /\ owed' = owed - 1
        /\ offset' = offset + 2 \/ offset' = offset + 3
    BY <1>2 DEF ImportSkip, ImportPut
  <2>2. owed' \in Nat /\ offset' \in Nat
    BY <2>1 DEF GenesTypes
  <2>. QED
    BY <2>1, <2>2 DEF GenesTypes
<1>3. CASE ImportRefuse \/ ImportDone \/ ImportKill
  <2>1. /\ copy' = copy /\ promise' = promise /\ owed' = owed /\ offset' = offset
        /\ ipc' \in {"refused", "ok", "killed"}
    BY <1>3 DEF ImportRefuse, ImportDone, ImportKill, ImportEnd
  <2>. QED
    BY <2>1 DEF GenesTypes
<1>. QED
  BY <1>1, <1>2, <1>3 DEF ImporterStep

LEMMA GenesTypesStep ==
    ASSUME GenesTypes, ExportInv, GenesNext
    PROVE  GenesTypes' /\ ExportInv'
<1>1. source' \in Rows /\ target' \in Rows
  BY SourceTyped, TargetKept
<1>2. CASE ExporterStep
  <2>1. UNCHANGED <<table, ipc, copy, offset, owed, promise>> /\ xpc' \in {"idle", "rows"}
    BY <1>2, ExporterLeaves
  <2>2. /\ carried' \in SUBSET Digest /\ entire' \in BOOLEAN
        /\ absent' \in 0..Len(table) /\ Fields(written') /\ Fields(pack')
        /\ ExportInv'
    BY <1>2, ExporterTyped
  <2>. QED
    BY <1>1, <2>1, <2>2 DEF GenesTypes
<1>3. CASE ImporterStep
  <2>1. UNCHANGED <<table, pack, xpc, written, absent, carried, entire>>
    BY <1>3, ImporterLeaves
  <2>2. /\ ipc' \in {"idle", "entries", "ok", "refused", "killed"}
        /\ offset' \in Nat /\ owed' \in Nat /\ Fields(copy')
        /\ promise' = <<>> \/ promise' \in (SUBSET Digest) \X Nat
    BY <1>3, ImporterTyped
  <2>3. ExportInv'
    BY <2>1, ExportStays
  <2>. QED
    BY <1>1, <2>1, <2>2, <2>3 DEF GenesTypes
<1>4. CASE OtherStep
  <2>1. UNCHANGED <<table, pack, xpc, written, absent, carried, entire,
                    ipc, copy, offset, owed, promise>>
    BY <1>4, OtherLeaves
  <2>2. ExportInv'
    BY <2>1, ExportStays
  <2>. QED
    BY <1>1, <2>1, <2>2 DEF GenesTypes
<1>. QED
  BY <1>2, <1>3, <1>4, StepKinds

\* The importer of a pack that was left as its export wrote it stays in its place.
LEMMA ImportStep ==
    ASSUME GenesTypes, ExportInv, ImportInv, GenesNext
    PROVE  ImportInv'
<1>0. table \in Seq(Digest) /\ Len(table) \in Nat /\ copy \in Seq(Field) /\ pack \in Seq(Field)
  BY TableIs DEF GenesTypes, Fields
<1>00. \A d \in Digest : target[d] # Missing => target'[d] = target[d]
  BY TargetKept
<1>1. CASE UNCHANGED <<table, ipc, copy, offset, owed, promise>>
  <2>1. SUFFICES ASSUME ipc = "entries", promise # <<>>
                 PROVE  InPlace(table, copy, offset, owed, promise, target')
    BY <1>1 DEF ImportInv
  <2>2. InPlace(table, copy, offset, owed, promise, target)
    BY <2>1 DEF ImportInv
  <2>. QED
    BY <1>0, <1>00, <2>2, InPlaceKept
<1>2. CASE ImportStart
  <2>1. /\ copy' = pack /\ offset' = 2 /\ table' = table
        /\ promise' = IF entire THEN <<carried, absent>> ELSE <<>>
        /\ ipc' = "entries" => owed' = IF Len(pack) > 1 THEN pack[2].value ELSE 0
    BY <1>2 DEF ImportStart
  <2>2. CASE entire
    <3>1. Packed(table, pack, Len(table), carried, absent)
      BY <2>2 DEF ExportInv
    <3>2. /\ InPlace(table, pack, 2, Len(table), <<carried, absent>>, target')
          /\ Len(pack) > 1 /\ pack[2].value = Len(table)
      BY <1>0, <3>1, StartsInPlace
    <3>. QED
      BY <2>1, <2>2, <3>2 DEF ImportInv
  <2>3. CASE ~entire
    BY <2>1, <2>3 DEF ImportInv
  <2>. QED
    BY <2>2, <2>3
<1>3. CASE ImportSkip
  <2>1. /\ ipc' = ipc /\ copy' = copy /\ promise' = promise /\ table' = table /\ owed > 0
        /\ owed' = owed - 1 /\ offset' = offset + 2 /\ ipc = "entries" /\ EntrySize = 0
    BY <1>3 DEF ImportSkip
  <2>2. SUFFICES ASSUME promise # <<>>
                 PROVE  InPlace(table, copy, offset + 2, owed - 1, promise, target')
    BY <2>1 DEF ImportInv
  <2>3. InPlace(table, copy, offset, owed, promise, target)
    BY <2>1, <2>2 DEF ImportInv
  <2>4. ReadEntry(copy, offset) = 0
    BY <2>1 DEF EntrySize, ReadNumber, ReadEntry
  <2>. QED
    BY <1>0, <1>00, <2>1, <2>3, <2>4, InPlaceMoves DEF GenesTypes
<1>4. CASE ImportPut
  <2>1. /\ ipc' = ipc /\ copy' = copy /\ promise' = promise /\ table' = table /\ owed > 0
        /\ owed' = owed - 1 /\ offset' = offset + 3 /\ ipc = "entries" /\ EntrySize > 0
    BY <1>4 DEF ImportPut
  <2>2. SUFFICES ASSUME promise # <<>>
                 PROVE  InPlace(table, copy, offset + 3, owed - 1, promise, target')
    BY <2>1 DEF ImportInv
  <2>3. InPlace(table, copy, offset, owed, promise, target)
    BY <2>1, <2>2 DEF ImportInv
  <2>4. ReadEntry(copy, offset) > 0
    BY <2>1 DEF EntrySize, ReadNumber, ReadEntry
  <2>5. EntryHash \in Digest /\ EntryData \in Content /\ target \in Rows
    BY <1>4, EntryTyped, DataTyped DEF ImportPut, GenesTypes
  <2>6. target' = [target EXCEPT ![EntryHash] = IF @ = Missing THEN EntryData ELSE @]
    BY <1>4 DEF ImportPut, Target!PutChunk
  <2>7. target'[EntryHash] # Missing
    BY <2>5, <2>6, ShaAssumption DEF Rows
  <2>8. target'[copy[offset + 1].hash] # Missing
    BY <2>7 DEF EntryHash
  <2>. QED
    BY <1>0, <1>00, <2>1, <2>3, <2>4, <2>8, InPlaceMoves DEF GenesTypes
<1>5. CASE ImportRefuse \/ ImportDone \/ ImportKill
  <2>1. ipc' # "entries"
    BY <1>5 DEF ImportRefuse, ImportDone, ImportKill, ImportEnd
  <2>. QED
    BY <2>1 DEF ImportInv
<1>. QED
  BY <1>1, <1>2, <1>3, <1>4, <1>5, StepKinds, ExporterLeaves, OtherLeaves DEF ImporterStep

\* At its end it has passed every entry, so every payload is in the target.
LEMMA TransportedStep ==
    ASSUME GenesTypes, ImportInv, Transported, GenesNext
    PROVE  Transported'
<1>0. table \in Seq(Digest) /\ Len(table) \in Nat
  BY TableIs
<1>00. \A d \in Digest : target[d] # Missing => target'[d] = target[d]
  BY TargetKept
<1>1. CASE UNCHANGED <<table, ipc, promise>>
  <2>1. SUFFICES ASSUME ipc = "ok", promise # <<>>
                 PROVE  /\ \A d \in promise[1] : d \in Digest /\ target'[d] # Missing
                        /\ promise[2] = 0 =>
                            \A i \in 1..Len(table) : target'[table[i]] # Missing
    BY <1>1 DEF Transported, Target!Stored, Target!HasChunk
  <2>2. /\ \A d \in promise[1] : d \in Digest /\ target[d] # Missing
        /\ promise[2] = 0 => \A i \in 1..Len(table) : target[table[i]] # Missing
    BY <2>1 DEF Transported, Target!Stored, Target!HasChunk
  <2>3. \A i \in 1..Len(table) : table[i] \in Digest
    BY <1>0
  <2>. QED
    BY <1>00, <2>2, <2>3
<1>2. CASE ImportDone
  <2>1. UNCHANGED <<table, promise, target>> /\ ipc = "entries" /\ owed = 0
    BY <1>2 DEF ImportDone
  <2>2. SUFFICES ASSUME promise # <<>>
                 PROVE  /\ \A d \in promise[1] : d \in Digest /\ target[d] # Missing
                        /\ promise[2] = 0 =>
                            \A i \in 1..Len(table) : target[table[i]] # Missing
    BY <2>1 DEF Transported, Target!Stored, Target!HasChunk
  <2>3. PICK pos, full, j : Standing(table, copy, offset, owed, promise, target, pos, full, j)
    BY <2>1, <2>2 DEF ImportInv, InPlace
  <2>4. /\ promise[1] = {table[k] : k \in full}
        /\ promise[2] = 0 => full = 1..Len(table)
        /\ j \in 1..Len(table) + 1 /\ 0 = Len(table) + 1 - j
        /\ \A k \in full : k < j => target[table[k]] # Missing
        /\ full \subseteq 1..Len(table)
    BY <2>1, <2>3 DEF Standing, Layout
  <2>5. \A k \in full : k < j /\ target[table[k]] # Missing /\ table[k] \in Digest
    BY <1>0, <2>4
  <2>. QED
    BY <2>4, <2>5
<1>3. CASE ipc' # "ok"
  BY <1>3 DEF Transported
<1>4. ImporterStep => ImportDone \/ ipc' # "ok"  \/ UNCHANGED <<table, ipc, promise>>
  BY DEF ImporterStep, ImportStart, ImportSkip, ImportPut, ImportRefuse, ImportKill, ImportEnd
<1>. QED
  BY <1>1, <1>2, <1>3, <1>4, StepKinds, ExporterLeaves, OtherLeaves

-----------------------------------------------------------------------------
(* Genes packs: theorems.                                                   *)

LEMMA GenesInvStep == GenesInv /\ [GenesNext]_genesVars => GenesInv'
<1>. SUFFICES ASSUME GenesInv, [GenesNext]_genesVars PROVE GenesInv'
  OBVIOUS
<1>1. CASE GenesNext
  BY <1>1, GenesTypesStep, ImportStep, TransportedStep DEF GenesInv
<1>2. CASE UNCHANGED genesVars
  BY <1>2 DEF GenesInv, GenesTypes, ExportInv, ImportInv, Transported, genesVars,
     exporterVars, importerVars, Target!Stored, Target!HasChunk
<1>. QED
  BY <1>1, <1>2

\* The inductive invariant of export_genes and import_genes: types, what the exporter has
\* packed so far and how far the importer of a whole pack is.
THEOREM GenesInvariant == GenesSpec => []GenesInv
BY GenesInvInit, GenesInvStep, PTL DEF GenesSpec

\* Every variable keeps its type, and the importer of a whole pack is never past its end.
THEOREM GenesTyped == GenesSpec => []GenesTypeOK
<1>1. GenesInv => GenesTypeOK
  <2>. SUFFICES ASSUME GenesInv PROVE GenesTypeOK
    OBVIOUS
  <2>1. GenesTypes /\ ImportInv
    BY DEF GenesInv
  <2>2. ipc = "entries" /\ promise # <<>> => offset <= Len(copy)
    BY <2>1, TableIs, InPlaceTyped DEF GenesTypes, ImportInv, Fields
  <2>3. promise # <<>> => promise[1] \subseteq Digest /\ promise[2] \in Nat
    BY <2>1 DEF GenesTypes
  <2>. QED
    BY <2>1, <2>2, <2>3 DEF GenesTypes, GenesTypeOK
<1>. QED
  BY <1>1, GenesInvariant, PTL

\* For any contents, sizes, seeds and genomes: an import that ends well, of a pack left as
\* its export wrote it, has brought every chunk that was packed, and all of the seed if
\* the export reported none missing, whatever both genomes learn or lose meanwhile.
THEOREM PacksTransport == GenesSpec => []Transported
<1>1. GenesInv => Transported
  BY DEF GenesInv
<1>. QED
  BY <1>1, GenesInvariant, PTL

\* Whatever an import reads, cut, rotten or whole, it adds no row whose payload has not
\* the digest it is stored under (the check of import_genes before put_chunk).
THEOREM ImportsGenuine == GenesSpec => ImportGenuine
<1>1. GenesInv /\ [GenesNext]_genesVars =>
        [Target!RottenRows' \subseteq Target!RottenRows]_genesVars
  <2>. SUFFICES ASSUME GenesTypes, GenesNext, NEW d \in Digest, target'[d] # Missing,
                       Sha[target'[d]] # d
                PROVE  target[d] # Missing /\ Sha[target[d]] # d
    BY DEF GenesInv, Target!RottenRows, Target!Stored, Target!HasChunk
  <2>1. CASE target[d] # Missing
    BY <2>1, TargetKept
  <2>2. CASE target' = target
    BY <2>2
  <2>3. CASE ImportPut
    <3>1. EntryHash \in Digest /\ EntryData \in Content /\ Sha[EntryData] = EntryHash
      BY <2>3, EntryTyped, DataTyped DEF ImportPut, GoodEntry
    <3>2. target' = [target EXCEPT ![EntryHash] = IF @ = Missing THEN EntryData ELSE @]
      BY <2>3 DEF ImportPut, Target!PutChunk
    <3>. QED
      BY <2>1, <3>1, <3>2 DEF GenesTypes, Rows
  <2>4. ASSUME NEW c \in Content, LearnTarget(c)
        PROVE  target[d] # Missing /\ Sha[target[d]] # d
    <3>1. target' = [target EXCEPT ![Sha[c]] = IF @ = Missing THEN c ELSE @]
      BY <2>4 DEF LearnTarget, Target!PutChunk
    <3>. QED
      BY <2>1, <3>1, ShaAssumption DEF GenesTypes, Rows
  <2>. QED
    BY <2>2, <2>3, <2>4 DEF GenesNext, ExportStart, ExportRow, ExportMissing, ExportDone,
       ExportAbort, ImportStart, ImportSkip, ImportRefuse, ImportDone, ImportKill,
       LearnSource, CutCopy, RotSource, Mishap
<1>. QED
  BY <1>1, GenesInvariant, PTL DEF GenesSpec, ImportGenuine
=============================================================================
