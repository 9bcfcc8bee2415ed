----------------------------- MODULE JobReviewProofs -----------------------------
(***************************************************************************)
(* Theorems about JobReview, for any readings, proposals, names, number of *)
(* writers and scenarios.                                                  *)
(*                                                                         *)
(* The properties relate the head of one chain to the head of the other.   *)
(* A commit that extends a chain extends the revision its writer read; one *)
(* that brings a review only is judged against a scene it read and does    *)
(* not extend.  Beheld says why that is enough.                            *)
(***************************************************************************)
EXTENDS JobReview, TLAPS, SequenceTheorems

-----------------------------------------------------------------------------
(* The inductive invariant, of the two heads and of what the writers read.  *)

\* What is drawn is of decided readings, once each, and of the decision in force unless the
\* scene is held back.
Draws(review, scene) ==
    /\ \A d \in scene.drawn :
          /\ d.at # 0
          /\ \/ d.at = review.readings[d.reading].at
             \/ "READING_DECISION_SUPERSEDED" \in scene.issues
    /\ \A d, e \in scene.drawn : d.reading = e.reading => d = e

\* The lines are those of accepted proposals, one of each.
Lines(review, scene) ==
    \A l \in scene.lines :
        /\ review.decided[l.proposal] = "accept"
        /\ \A m \in scene.lines : m.proposal = l.proposal => m = l

Agree(review, scene) == Draws(review, scene) /\ Lines(review, scene)

\* A reading has an outcome when it was decided.
Dated(review) ==
    \A x \in Readings : review.readings[x].outcome \in Outcomes => review.readings[x].at # 0

OneActive(observations) ==
    \A i, j \in DOMAIN observations :
        observations[i].status = "ACTIVE" /\ observations[j].status = "ACTIVE" => i = j

Apart(elements) ==
    \A i, j \in DOMAIN elements :
        elements[i].active /\ elements[j].active /\ i # j =>
            /\ elements[i].group \cap elements[j].group = {}
            /\ elements[i].label = "" \/ elements[i].label # elements[j].label

Sound(review) == Dated(review) /\ OneActive(review.observations) /\ Apart(review.elements)

\* A review points at scenes there are, and its calibration is of the scene it names.
Fitting(review, chain) ==
    /\ review.scene \in 0..Len(chain)
    /\ review.calibration # Uncalibrated =>
          /\ review.calibration.snapshot = review.snapshot
          /\ review.calibration.scene \in 1..Len(chain)
          /\ chain[review.calibration.scene].frame = review.calibration.frame

\* Writers read revisions there are.
Bases ==
    /\ Len(reviews) > 0
    /\ \A r \in Request :
          request[r].pc # "idle" =>
             request[r].review \in 1..Len(reviews) /\ request[r].scene \in 0..Len(scenes)

\* While nobody brought a review, the scene a writer looked at is drawn as the latest: a scene
\* that comes without a review is a copy of the one before it.
Beheld ==
    \A r \in Request :
        /\ request[r].pc = "ready" /\ request[r].act \in LooksAtScene
        /\ request[r].review = Len(reviews)
        => BaseScene(r) = LatestScene

IInv ==
    /\ TypeOK /\ Bases /\ Beheld
    /\ Agree(Current(reviews), LatestScene)
    /\ Sound(Current(reviews))
    /\ Fitting(Current(reviews), scenes)

-----------------------------------------------------------------------------
(* What a step keeps of the heads, besides the invariant.                   *)

\* From one review to the next, the records travel.
Carried(old, new, act) ==
    /\ old.chains \subseteq new.chains \/ act = "chain"
    /\ old.witnesses \subseteq new.witnesses \/ act = "witness"
    /\ \A i \in DOMAIN old.observations : new.observations[i].at = old.observations[i].at
    /\ \A p \in Proposals : old.decided[p] \in {"open", new.decided[p]}

\* Lines held back in one scene and let go in the next were calibrated.
Thawed(review, old, new) ==
    /\ "CALIBRATION_SUPERSEDED" \in old.issues \ new.issues
    /\ Preserved(new) # {}
    => review.calibration # Uncalibrated

Keeps(r) ==
    /\ Carried(Current(reviews), Current(reviews'), request[r].act)
    /\ Thawed(Current(reviews), LatestScene, LatestScene')

-----------------------------------------------------------------------------
(* Chains that grow by one.                                                  *)

\* A chain with one more revision keeps those it had and ends with that one.
LEMMA OneMore ==
    ASSUME NEW S, NEW chain \in Seq(S), NEW x \in S
    PROVE  /\ chain \o <<x>> \in Seq(S)
           /\ Len(chain \o <<x>>) = Len(chain) + 1
           /\ \A i \in 1..Len(chain) : (chain \o <<x>>)[i] = chain[i]
           /\ (chain \o <<x>>)[Len(chain) + 1] = x
           /\ chain \o <<x>> # <<>>
  <1>1. <<x>> \in Seq(S) /\ Len(<<x>>) = 1 /\ <<x>>[1] = x
    OBVIOUS
  <1>2. /\ chain \o <<x>> \in Seq(S)
        /\ Len(chain \o <<x>>) = Len(chain) + Len(<<x>>)
        /\ \A i \in 1..(Len(chain) + Len(<<x>>)) :
              (chain \o <<x>>)[i] = IF i <= Len(chain) THEN chain[i] ELSE <<x>>[i - Len(chain)]
    BY <1>1, ConcatProperties, Zenon
  <1>3. Len(chain) \in Nat
    BY LenProperties
  <1>4. Len(chain \o <<x>>) = Len(chain) + 1
    BY <1>1, <1>2
  <1>5. \A i \in 1..Len(chain) : (chain \o <<x>>)[i] = chain[i]
    BY <1>1, <1>2, <1>3
  <1>6. (chain \o <<x>>)[Len(chain) + 1] = x
    BY <1>1, <1>2, <1>3
  <1>7. chain \o <<x>> # <<>>
    BY <1>3, <1>4, EmptySeq
  <1> QED
    BY <1>2, <1>4, <1>5, <1>6, <1>7

\* A chain is empty when its length is zero.
LEMMA EmptyChain ==
    ASSUME NEW S, NEW chain \in Seq(S)
    PROVE  /\ chain = <<>> <=> Len(chain) = 0
           /\ Len(chain) \in Nat
           /\ chain # <<>> => chain[Len(chain)] \in S
           /\ chain \o <<>> = chain
  <1>1. chain \o <<>> = chain
    BY ConcatEmptySeq
  <1>2. chain = <<>> <=> Len(chain) = 0
    BY EmptySeq
  <1>3. Len(chain) \in Nat
    BY LenProperties
  <1>4. chain # <<>> => chain[Len(chain)] \in S
    BY <1>2, <1>3, ElementOfSeq
  <1> QED
    BY <1>1, <1>2, <1>3, <1>4

\* The scene before any is one.
LEMMA NoSceneIsOne == NoScene \in SceneRevision /\ NoFrame \in Frame
  <1>1. NoFrame \in Frame
    BY DEF NoFrame, Frame
  <1> QED
    BY <1>1 DEF NoScene, SceneRevision

\* Before it commits, a writer read revisions there are; if nobody extended a chain since,
\* they are the heads.
LEMMA AtCommit ==
    ASSUME IInv, NEW r \in Request, request[r].pc = "ready"
    PROVE  /\ BaseReview(r) \in Review /\ BaseScene(r) \in SceneRevision
           /\ request[r].review \in 1..Len(reviews) /\ request[r].scene \in 0..Len(scenes)
           /\ request[r].scene # 0 => BaseScene(r) = scenes[request[r].scene]
           /\ NextReview(r) \in Nat \ {0} /\ NextScene(r) \in Nat \ {0}
           /\ request[r].review = Len(reviews) => BaseReview(r) = Current(reviews)
           /\ request[r].scene = Len(scenes) => BaseScene(r) = LatestScene
  <1>1. /\ reviews \in Seq(Review) /\ scenes \in Seq(SceneRevision)
        /\ request[r].review \in 1..Len(reviews) /\ request[r].scene \in 0..Len(scenes)
    BY DEF IInv, TypeOK, Bases
  <1>2. Len(reviews) \in Nat /\ Len(scenes) \in Nat /\ (scenes = <<>> <=> Len(scenes) = 0)
    BY <1>1, EmptyChain
  <1>3. BaseReview(r) \in Review
    BY <1>1, ElementOfSeq DEF BaseReview
  <1>4. request[r].scene # 0 => scenes[request[r].scene] \in SceneRevision
    BY <1>1, <1>2, ElementOfSeq
  <1>5. BaseScene(r) \in SceneRevision
    BY <1>4, NoSceneIsOne DEF BaseScene
  <1>6. NextReview(r) \in Nat \ {0} /\ NextScene(r) \in Nat \ {0}
    BY <1>1, <1>2 DEF NextReview, NextScene
  <1>7. request[r].scene = Len(scenes) => BaseScene(r) = LatestScene
    BY <1>2 DEF BaseScene, LatestScene, Current
  <1> QED
    BY <1>1, <1>3, <1>5, <1>6, <1>7 DEF BaseReview, BaseScene, Current

\* What is sound of a review with the chain of scenes stays so when the chain grows.
LEMMA FittingGrows ==
    ASSUME NEW review \in Review, NEW chain \in Seq(SceneRevision), NEW scene \in SceneRevision,
           Fitting(review, chain)
    PROVE  Fitting(review, chain \o <<scene>>)
  <1>1. PICK longer : longer = chain \o <<scene>>
    OBVIOUS
  <1>2. /\ Len(longer) = Len(chain) + 1
        /\ \A i \in 1..Len(chain) : longer[i] = chain[i]
    BY <1>1, OneMore
  <1>3. Len(chain) \in Nat
    BY EmptyChain
  <1>4. review.scene \in 0..Len(longer)
    BY <1>2, <1>3 DEF Fitting
  <1>5. review.calibration # Uncalibrated =>
          /\ review.calibration.snapshot = review.snapshot
          /\ review.calibration.scene \in 1..Len(longer)
          /\ longer[review.calibration.scene].frame = review.calibration.frame
    BY <1>2, <1>3 DEF Fitting
  <1> QED
    BY <1>1, <1>4, <1>5 DEF Fitting

-----------------------------------------------------------------------------
(* Commits.                                                                  *)

\* Nothing is carried further than where it is.
LEMMA Reflexive ==
    ASSUME NEW review, NEW scene, NEW act
    PROVE  Carried(review, review, act) /\ Thawed(review, scene, scene)
  BY DEF Carried, Thawed

\* A transaction that changes nothing but where its writer is.
LEMMA NothingCommits ==
    ASSUME IInv, NEW r \in Request,
           request' = [request EXCEPT ![r] = Waiting],
           UNCHANGED <<rectangle, reviews, scenes, left>>
    PROVE  IInv' /\ Keeps(r)
  <1>1. Waiting \in [pc : {"idle", "look", "ready"}, act : Act \cup {"none"}, review : Nat,
                     scene : Nat]
    BY DEF Waiting
  <1>2. TypeOK'
    BY <1>1 DEF IInv, TypeOK
  <1>3. \A q \in Request : request'[q] = IF q = r THEN Waiting ELSE request[q]
    BY DEF IInv, TypeOK
  <1>4. Bases'
    BY <1>3 DEF IInv, Bases, Waiting
  <1>5. Beheld'
    BY <1>3 DEF IInv, Beheld, Waiting, BaseScene, LatestScene, Current
  <1>6. Keeps(r)
    BY Reflexive DEF Keeps, LatestScene, Current
  <1> QED
    BY <1>2, <1>4, <1>5, <1>6 DEF IInv, LatestScene, Current

\* The control of a writer that committed, and of the others.
LEMMA Done ==
    ASSUME IInv, NEW r \in Request, request' = [request EXCEPT ![r] = Waiting]
    PROVE  /\ request' \in [Request -> [pc : {"idle", "look", "ready"}, act : Act \cup {"none"},
                                        review : Nat, scene : Nat]]
           /\ request'[r].pc = "idle"
           /\ \A q \in Request : q # r => request'[q] = request[q]
  <1>1. Waiting \in [pc : {"idle", "look", "ready"}, act : Act \cup {"none"}, review : Nat,
                     scene : Nat]
    BY DEF Waiting
  <1> QED
    BY <1>1 DEF IInv, TypeOK, Waiting

\* A review that its writer judged against the scene it read, and that brings no scene.
LEMMA ReviewCommits ==
    ASSUME IInv, NEW r \in Request, request[r].pc = "ready",
           NEW review \in Review, AppendReview(r, review),
           request[r].review = Len(reviews) =>
              /\ Agree(review, LatestScene) /\ Sound(review) /\ Fitting(review, scenes)
              /\ Carried(BaseReview(r), review, request[r].act)
    PROVE  IInv' /\ Keeps(r)
  <1>1. /\ reviews \in Seq(Review) /\ scenes \in Seq(SceneRevision)
        /\ <<review>> # <<>>
    BY DEF IInv, TypeOK
  <1>2. /\ request' = [request EXCEPT ![r] = Waiting]
        /\ rectangle' = rectangle /\ left' = left
        /\ reviews' = IF Len(reviews) = request[r].review THEN reviews \o <<review>> ELSE reviews
        /\ scenes' = scenes
    BY <1>1, EmptyChain DEF AppendReview, Extend, Fits, Seen
  <1>9. /\ request' \in [Request -> [pc : {"idle", "look", "ready"}, act : Act \cup {"none"},
                                     review : Nat, scene : Nat]]
        /\ request'[r].pc = "idle"
        /\ \A q \in Request : q # r => request'[q] = request[q]
    BY <1>2, Done
  <1>3. CASE Len(reviews) # request[r].review
    BY <1>2, <1>3, NothingCommits
  <1>4. CASE Len(reviews) = request[r].review
    <2>1. reviews' = reviews \o <<review>> /\ Len(reviews) \in Nat
      BY <1>1, <1>2, <1>4, EmptyChain
    <2>2. reviews' \in Seq(Review) /\ Len(reviews') = Len(reviews) + 1 /\ Current(reviews') = review
      BY <1>1, <2>1, OneMore DEF Current
    <2>3. LatestScene' = LatestScene
      BY <1>2 DEF LatestScene, Current
    <2>4. TypeOK'
      BY <1>2, <2>2, <1>9 DEF IInv, TypeOK
    <2>5. Bases'
      BY <1>2, <2>1, <2>2, <1>9 DEF IInv, Bases
    <2>6. Beheld'
      BY <1>2, <2>1, <2>2, <1>9 DEF IInv, Bases, Beheld
    <2>7. Agree(Current(reviews), LatestScene)'
      BY <1>4, <2>2, <2>3
    <2>8. Sound(Current(reviews))' /\ Fitting(Current(reviews), scenes)'
      BY <1>2, <1>4, <2>2
    <2>9. Keeps(r)
      BY <1>4, <2>2, <2>3, AtCommit, Reflexive DEF Keeps
    <2> QED
      BY <2>4, <2>5, <2>6, <2>7, <2>8, <2>9 DEF IInv
  <1> QED
    BY <1>3, <1>4

\* A review and the scene that goes with it.
LEMMA BothCommit ==
    ASSUME IInv, NEW r \in Request, request[r].pc = "ready",
           NEW review \in Review, NEW scene \in SceneRevision,
           Extend(r, <<review>>, <<scene>>),
           request[r].review = Len(reviews) /\ request[r].scene = Len(scenes) =>
              /\ Agree(review, scene) /\ Sound(review) /\ Fitting(review, scenes \o <<scene>>)
              /\ Carried(BaseReview(r), review, request[r].act)
              /\ Thawed(BaseReview(r), BaseScene(r), scene)
    PROVE  IInv' /\ Keeps(r)
  <1> DEFINE fits == Len(reviews) = request[r].review /\ Len(scenes) = request[r].scene
  <1>1. /\ reviews \in Seq(Review) /\ scenes \in Seq(SceneRevision)
        /\ <<review>> # <<>> /\ <<scene>> # <<>>
    BY DEF IInv, TypeOK
  <1>2. /\ request' = [request EXCEPT ![r] = Waiting]
        /\ rectangle' = rectangle /\ left' = left
        /\ reviews' = IF fits THEN reviews \o <<review>> ELSE reviews
        /\ scenes' = IF fits THEN scenes \o <<scene>> ELSE scenes
    BY <1>1 DEF Extend, Fits, Seen
  <1>9. /\ request' \in [Request -> [pc : {"idle", "look", "ready"}, act : Act \cup {"none"},
                                     review : Nat, scene : Nat]]
        /\ request'[r].pc = "idle"
        /\ \A q \in Request : q # r => request'[q] = request[q]
    BY <1>2, Done
  <1>3. CASE ~fits
    BY <1>2, <1>3, NothingCommits
  <1>4. CASE fits
    <2>1. /\ reviews' = reviews \o <<review>> /\ Len(reviews) \in Nat
          /\ scenes' = scenes \o <<scene>> /\ Len(scenes) \in Nat
      BY <1>1, <1>2, <1>4, EmptyChain
    <2>2. reviews' \in Seq(Review) /\ Len(reviews') = Len(reviews) + 1 /\ Current(reviews') = review
      BY <1>1, <2>1, OneMore DEF Current
    <2>3. /\ scenes' \in Seq(SceneRevision) /\ Len(scenes') = Len(scenes) + 1
          /\ LatestScene' = scene
      BY <1>1, <2>1, OneMore DEF LatestScene, Current
    <2>4. TypeOK'
      BY <1>2, <2>2, <2>3, <1>9 DEF IInv, TypeOK
    <2>5. Bases'
      BY <1>2, <2>1, <2>2, <2>3, <1>9 DEF IInv, Bases
    <2>6. Beheld'
      BY <1>2, <2>1, <2>2, <1>9 DEF IInv, Bases, Beheld
    <2>7. Agree(Current(reviews), LatestScene)'
      BY <1>4, <2>2, <2>3
    <2>8. Sound(Current(reviews))' /\ Fitting(Current(reviews), scenes)'
      BY <1>4, <2>1, <2>2
    <2>9. Keeps(r)
      BY <1>4, <2>2, <2>3, AtCommit DEF Keeps
    <2> QED
      BY <2>4, <2>5, <2>6, <2>7, <2>8, <2>9 DEF IInv
  <1> QED
    BY <1>3, <1>4

\* A scene that copies the one before it, and brings no review.
LEMMA SceneCommits ==
    ASSUME IInv, NEW r \in Request, CreateRevision(r)
    PROVE  IInv' /\ Keeps(r)
  <1> DEFINE scene == BaseScene(r)
             fits == Len(scenes) = request[r].scene
  <1>1. /\ reviews \in Seq(Review) /\ scenes \in Seq(SceneRevision)
        /\ request[r].pc = "ready" /\ request[r].scene # 0
        /\ <<scene>> # <<>>
    BY DEF IInv, TypeOK, CreateRevision, Ready
  <1>2. /\ request' = [request EXCEPT ![r] = Waiting]
        /\ rectangle' = rectangle /\ left' = left
        /\ reviews' = reviews
        /\ scenes' = IF fits THEN scenes \o <<scene>> ELSE scenes
    BY <1>1, EmptyChain DEF CreateRevision, Extend, Fits, Seen
  <1>9. /\ request' \in [Request -> [pc : {"idle", "look", "ready"}, act : Act \cup {"none"},
                                     review : Nat, scene : Nat]]
        /\ request'[r].pc = "idle"
        /\ \A q \in Request : q # r => request'[q] = request[q]
    BY <1>2, Done
  <1>3. CASE ~fits
    BY <1>2, <1>3, NothingCommits
  <1>4. CASE fits
    <2>1. /\ scene \in SceneRevision /\ scene = LatestScene
          /\ scenes' = scenes \o <<scene>> /\ Len(scenes) \in Nat
      BY <1>1, <1>2, <1>4, EmptyChain, AtCommit
    <2>2. /\ scenes' \in Seq(SceneRevision) /\ Len(scenes') = Len(scenes) + 1
          /\ \A i \in 1..Len(scenes) : scenes'[i] = scenes[i]
          /\ LatestScene' = LatestScene
      BY <1>1, <2>1, OneMore DEF LatestScene, Current
    <2>3. TypeOK'
      BY <1>2, <2>2, <1>9 DEF IInv, TypeOK
    <2>4. Bases'
      BY <1>2, <2>1, <2>2, <1>9 DEF IInv, Bases
    <2>5. ASSUME NEW q \in Request, request'[q].pc # "idle"
          PROVE  request'[q] = request[q] /\ BaseScene(q)' = BaseScene(q)
      <3>1. request'[q] = request[q] /\ request[q].scene \in 0..Len(scenes)
        BY <1>2, <2>5, <1>9 DEF IInv, Bases
      <3> QED
        BY <2>1, <2>2, <3>1 DEF BaseScene
    <2>6. Beheld'
      BY <1>2, <2>2, <2>5 DEF IInv, Beheld
    <2>7. Fitting(Current(reviews), scenes \o <<scene>>)
      <3>1. Current(reviews) \in Review
        BY <1>1, EmptyChain DEF IInv, Bases, Current
      <3> QED
        BY <1>1, <2>1, <3>1, FittingGrows DEF IInv
    <2>8. Agree(Current(reviews), LatestScene)' /\ Sound(Current(reviews))'
      BY <1>2, <2>2 DEF IInv, Current
    <2>9. Fitting(Current(reviews), scenes)'
      BY <1>2, <2>1, <2>7 DEF Current
    <2>10. Keeps(r)
      BY <1>2, <2>2, Reflexive DEF Keeps, Current
    <2> QED
      BY <2>3, <2>4, <2>6, <2>8, <2>9, <2>10 DEF IInv
  <1> QED
    BY <1>3, <1>4

-----------------------------------------------------------------------------
(* Reading.                                                                  *)

\* A writer begins at the latest review.
LEMMA BeginKeeps ==
    ASSUME IInv, NEW r \in Request, NEW act \in Act, Begin(r, act)
    PROVE  IInv' /\ Keeps(r)
  <1>1. /\ reviews \in Seq(Review) /\ scenes \in Seq(SceneRevision) /\ Len(reviews) > 0
        /\ reviews' = reviews /\ scenes' = scenes /\ rectangle' = rectangle
        /\ left' = [left EXCEPT ![act] = @ - 1] /\ left[act] > 0
    BY DEF IInv, TypeOK, Bases, Begin
  <1>2. Len(reviews) \in Nat /\ Len(scenes) \in Nat
    BY <1>1, EmptyChain
  <1>3. Current(reviews).scene \in 0..Len(scenes)
    BY DEF IInv, Fitting
  <1>4. PICK state :
           /\ state = [pc |-> IF act \in LooksAtScene THEN "look" ELSE "ready", act |-> act,
                       review |-> Len(reviews),
                       scene |-> IF act = "refresh" THEN Current(reviews).scene
                                                    ELSE Len(scenes)]
           /\ request' = [request EXCEPT ![r] = state]
    BY DEF Begin, Seen
  <1>5. /\ state \in [pc : {"idle", "look", "ready"}, act : Act \cup {"none"}, review : Nat,
                      scene : Nat]
        /\ state.review = Len(reviews) /\ state.scene \in 0..Len(scenes)
        /\ state.act \in LooksAtScene => state.pc = "look"
    BY <1>2, <1>3, <1>4
  <1>6. \A q \in Request : request'[q] = IF q = r THEN state ELSE request[q]
    BY <1>4 DEF IInv, TypeOK
  <1>7. left' \in [Act -> Nat]
    BY <1>1 DEF IInv, TypeOK
  <1>8. TypeOK'
    BY <1>1, <1>4, <1>5, <1>7 DEF IInv, TypeOK
  <1>9. Bases'
    BY <1>1, <1>2, <1>5, <1>6 DEF IInv, Bases
  <1>10. Beheld'
    BY <1>1, <1>5, <1>6 DEF IInv, Beheld, BaseScene, LatestScene, Current
  <1>11. Keeps(r)
    BY <1>1, Reflexive DEF Keeps, LatestScene, Current
  <1> QED
    BY <1>1, <1>8, <1>9, <1>10, <1>11 DEF IInv, LatestScene, Current

\* It goes on from the latest scene, or stops.
LEMMA LookKeeps ==
    ASSUME IInv, NEW r \in Request, LookAtScene(r)
    PROVE  IInv' /\ Keeps(r)
  <1>1. /\ reviews \in Seq(Review) /\ scenes \in Seq(SceneRevision)
        /\ request[r].pc = "look"
        /\ reviews' = reviews /\ scenes' = scenes /\ rectangle' = rectangle /\ left' = left
    BY DEF IInv, TypeOK, LookAtScene
  <1>2. Len(scenes) \in Nat /\ (scenes = <<>> <=> Len(scenes) = 0)
    BY <1>1, EmptyChain
  <1>3. PICK state :
           /\ state = [request[r] EXCEPT !.pc = "ready", !.scene = Len(scenes)]
           /\ \/ request' = [request EXCEPT ![r] = state]
              \/ request' = [request EXCEPT ![r] = Waiting]
    BY DEF LookAtScene, Seen
  <1>4. CASE request' = [request EXCEPT ![r] = Waiting]
    BY <1>1, <1>4, NothingCommits
  <1>5. CASE request' = [request EXCEPT ![r] = state]
    <2>1. /\ state \in [pc : {"idle", "look", "ready"}, act : Act \cup {"none"}, review : Nat,
                        scene : Nat]
          /\ state.review = request[r].review /\ state.scene = Len(scenes)
      BY <1>2, <1>3 DEF IInv, TypeOK
    <2>2. \A q \in Request : request'[q] = IF q = r THEN state ELSE request[q]
      BY <1>5 DEF IInv, TypeOK
    <2>3. TypeOK'
      BY <1>1, <1>5, <2>1 DEF IInv, TypeOK
    <2>4. Bases'
      BY <1>1, <1>2, <2>1, <2>2 DEF IInv, Bases
    <2>5. BaseScene(r)' = LatestScene'
      BY <1>1, <1>2, <2>1, <2>2 DEF BaseScene, LatestScene, Current
    <2>6. Beheld'
      BY <1>1, <2>2, <2>5 DEF IInv, Beheld, BaseScene, LatestScene, Current
    <2>7. Keeps(r)
      BY <1>1, Reflexive DEF Keeps, LatestScene, Current
    <2> QED
      BY <1>1, <2>3, <2>4, <2>6, <2>7 DEF IInv, LatestScene, Current
  <1> QED
    BY <1>3, <1>4, <1>5

LEMMA RefuseKeeps ==
    ASSUME IInv, NEW r \in Request, Refuse(r)
    PROVE  IInv' /\ Keeps(r)
  BY NothingCommits DEF Refuse, Seen

-----------------------------------------------------------------------------
(* The side columns.                                                         *)

\* A review with the readings, the decisions and the calibration of the one before it.
Core(old, new) ==
    /\ new.readings = old.readings /\ new.decided = old.decided
    /\ new.calibration = old.calibration /\ new.snapshot = old.snapshot
    /\ new.scene = old.scene

LEMMA ColumnCommits ==
    ASSUME IInv, NEW r \in Request, request[r].pc = "ready",
           NEW review \in Review, AppendReview(r, review),
           Core(BaseReview(r), review),
           Carried(BaseReview(r), review, request[r].act),
           Sound(BaseReview(r)) => OneActive(review.observations) /\ Apart(review.elements)
    PROVE  IInv' /\ Keeps(r)
  <1>1. ASSUME request[r].review = Len(reviews)
        PROVE  /\ Agree(review, LatestScene) /\ Sound(review) /\ Fitting(review, scenes)
    <2>1. /\ BaseReview(r) = Current(reviews)
          /\ Agree(BaseReview(r), LatestScene) /\ Sound(BaseReview(r))
          /\ Fitting(BaseReview(r), scenes)
      BY <1>1, AtCommit DEF IInv
    <2>2. Agree(review, LatestScene)
      BY <2>1 DEF Agree, Draws, Lines, Core
    <2>3. Sound(review)
      BY <2>1 DEF Sound, Dated, Core
    <2>4. Fitting(review, scenes)
      BY <2>1 DEF Fitting, Core
    <2> QED
      BY <2>2, <2>3, <2>4
  <1> QED
    BY <1>1, ReviewCommits

LEMMA ChainKeeps ==
    ASSUME IInv, NEW r \in Request, DeclareReviewChain(r)
    PROVE  IInv' /\ Keeps(r)
  <1>1. /\ request[r].pc = "ready" /\ request[r].act = "chain"
        /\ \E chains \in Changes(r, BaseReview(r).chains) :
              AppendReview(r, [BaseReview(r) EXCEPT !.chains = chains])
    BY DEF DeclareReviewChain, Ready
  <1>2. PICK chains \in Changes(r, BaseReview(r).chains) :
           AppendReview(r, [BaseReview(r) EXCEPT !.chains = chains])
    BY <1>1
  <1>3. PICK base, review :
           base = BaseReview(r) /\ review = [base EXCEPT !.chains = chains]
    OBVIOUS
  <1>4. base \in Review /\ NextReview(r) \in Nat
    BY <1>1, <1>3, AtCommit
  <1>5. chains \in SUBSET Nat
    BY <1>3, <1>4 DEF Changes, Review
  <1>6. review \in Review /\ Core(base, review) /\ Carried(base, review, "chain")
    BY <1>3, <1>4, <1>5 DEF Review, Core, Carried
  <1>7. review.observations = base.observations /\ review.elements = base.elements
    BY <1>3, <1>4 DEF Review
  <1> QED
    BY <1>1, <1>2, <1>3, <1>6, <1>7, ColumnCommits DEF Sound

LEMMA NoneApart == Apart(<<>>) /\ OneActive(<<>>)
  <1>1. DOMAIN <<>> = 1..Len(<<>>) /\ Len(<<>>) = 0
    BY EmptySeq, LenProperties
  <1> QED
    BY <1>1 DEF Apart, OneActive

\* The column of elements left to its default.
LEMMA BareReview ==
    ASSUME NEW review \in Review
    PROVE  /\ WithoutElements(review) \in Review
           /\ WithoutElements(review).elements = <<>>
           /\ Core(review, WithoutElements(review))
           /\ WithoutElements(review).chains = review.chains
           /\ WithoutElements(review).witnesses = review.witnesses
           /\ WithoutElements(review).observations = review.observations
  <1>1. <<>> \in Seq([at : Nat, label : Labels \cup {""}, group : SUBSET Proposals,
                     active : BOOLEAN])
    BY EmptySeq
  <1>2. WithoutElements(review) \in Review
    BY <1>1 DEF WithoutElements, Review
  <1> QED
    BY <1>2 DEF WithoutElements, Review, Core

LEMMA WitnessKeeps ==
    ASSUME IInv, NEW r \in Request, MutateReviewWitnesses(r)
    PROVE  IInv' /\ Keeps(r)
  <1>1. /\ request[r].pc = "ready" /\ request[r].act = "witness"
    BY DEF MutateReviewWitnesses, Ready
  <1>2. PICK witnesses \in Changes(r, BaseReview(r).witnesses) :
           AppendReview(r, WithoutElements([BaseReview(r) EXCEPT !.witnesses = witnesses]))
    BY DEF MutateReviewWitnesses
  <1>3. PICK base, whole, review :
           /\ base = BaseReview(r) /\ whole = [base EXCEPT !.witnesses = witnesses]
           /\ review = WithoutElements(whole)
    OBVIOUS
  <1>4. base \in Review /\ NextReview(r) \in Nat
    BY <1>1, <1>3, AtCommit
  <1>5. witnesses \in SUBSET Nat
    BY <1>3, <1>4 DEF Changes, Review
  <1>6. /\ whole \in Review /\ Core(base, whole) /\ Carried(base, whole, "witness")
        /\ whole.observations = base.observations
    BY <1>3, <1>4, <1>5 DEF Review, Core, Carried
  <1>7. review \in Review /\ Core(base, review) /\ Carried(base, review, "witness")
    BY <1>3, <1>6, BareReview DEF Core, Carried
  <1>8. review.observations = base.observations /\ review.elements = <<>>
    BY <1>3, <1>6, BareReview
  <1> QED
    BY <1>1, <1>2, <1>3, <1>7, <1>8, ColumnCommits, NoneApart DEF Sound

\* The observation in force is superseded, and one more takes its place.
LEMMA Superseding ==
    ASSUME NEW observations \in Seq([at : Nat, status : {"ACTIVE", "SUPERSEDED", "DISMISSED"}])
    PROVE  /\ Supersede(observations) \in
                 Seq([at : Nat, status : {"ACTIVE", "SUPERSEDED", "DISMISSED"}])
           /\ Len(Supersede(observations)) = Len(observations)
           /\ \A i \in DOMAIN observations :
                 /\ Supersede(observations)[i].at = observations[i].at
                 /\ Supersede(observations)[i].status # "ACTIVE"
  <1>1. PICK n \in Nat : n = Len(observations)
    BY EmptyChain
  <1>2. /\ DOMAIN observations = 1..n
        /\ \A i \in 1..n :
              observations[i] \in [at : Nat, status : {"ACTIVE", "SUPERSEDED", "DISMISSED"}]
    BY <1>1, LenProperties, ElementOfSeq
  <1>3. PICK after : after = Supersede(observations)
    OBVIOUS
  <1>4. /\ after = [i \in 1..n |-> IF observations[i].status = "ACTIVE"
                                   THEN [observations[i] EXCEPT !.status = "SUPERSEDED"]
                                   ELSE observations[i]]
    BY <1>2, <1>3 DEF Supersede
  <1>5. \A i \in 1..n :
           /\ after[i] \in [at : Nat, status : {"ACTIVE", "SUPERSEDED", "DISMISSED"}]
           /\ after[i].at = observations[i].at /\ after[i].status # "ACTIVE"
    BY <1>2, <1>4
  <1>6. after \in [1..n -> [at : Nat, status : {"ACTIVE", "SUPERSEDED", "DISMISSED"}]]
    BY <1>4, <1>5
  <1>7. /\ after \in Seq([at : Nat, status : {"ACTIVE", "SUPERSEDED", "DISMISSED"}])
        /\ Len(after) = n
    BY <1>1, <1>6
  <1> QED
    BY <1>1, <1>2, <1>3, <1>5, <1>7

\* One more observation, in force when no other is.
LEMMA Observing ==
    ASSUME NEW observations \in Seq([at : Nat, status : {"ACTIVE", "SUPERSEDED", "DISMISSED"}]),
           NEW new \in [at : Nat, status : {"ACTIVE", "SUPERSEDED", "DISMISSED"}]
    PROVE  /\ observations \o <<new>> \in
                 Seq([at : Nat, status : {"ACTIVE", "SUPERSEDED", "DISMISSED"}])
           /\ \A i \in DOMAIN observations : (observations \o <<new>>)[i] = observations[i]
           /\ \/ new.status # "ACTIVE" /\ OneActive(observations)
              \/ \A i \in DOMAIN observations : observations[i].status # "ACTIVE"
              => OneActive(observations \o <<new>>)
  <1>1. PICK n \in Nat : n = Len(observations)
    BY EmptyChain
  <1>2. PICK after : after = observations \o <<new>>
    OBVIOUS
  <1>3. DOMAIN observations = 1..n
    BY <1>1, LenProperties
  <1>4. /\ after \in Seq([at : Nat, status : {"ACTIVE", "SUPERSEDED", "DISMISSED"}])
        /\ Len(after) = n + 1
        /\ \A i \in 1..n : after[i] = observations[i]
        /\ after[n + 1] = new
    BY <1>1, <1>2, OneMore
  <1>5. DOMAIN after = 1..(n + 1)
    BY <1>4, LenProperties
  <1>6. ASSUME \/ new.status # "ACTIVE" /\ OneActive(observations)
               \/ \A i \in DOMAIN observations : observations[i].status # "ACTIVE"
        PROVE  OneActive(after)
    BY <1>3, <1>4, <1>5, <1>6 DEF OneActive
  <1> QED
    BY <1>2, <1>3, <1>4, <1>6

\* A review whose observations are others.
LEMMA ObservationsChange ==
    ASSUME NEW base \in Review,
           NEW observations \in Seq([at : Nat, status : {"ACTIVE", "SUPERSEDED", "DISMISSED"}]),
           \A i \in DOMAIN base.observations : observations[i].at = base.observations[i].at,
           NEW review, review = WithoutElements([base EXCEPT !.observations = observations])
    PROVE  /\ review \in Review /\ Core(base, review) /\ Carried(base, review, "observe")
           /\ review.observations = observations /\ review.elements = <<>>
  <1>1. PICK whole : whole = [base EXCEPT !.observations = observations]
    OBVIOUS
  <1>2. /\ whole \in Review /\ Core(base, whole) /\ Carried(base, whole, "observe")
        /\ whole.observations = observations
    BY <1>1 DEF Review, Core, Carried
  <1> QED
    BY <1>1, <1>2, BareReview DEF Core, Carried

LEMMA ObserveKeeps ==
    ASSUME IInv, NEW r \in Request, MutateReviewFieldObservations(r)
    PROVE  IInv' /\ Keeps(r)
  <1>1. /\ request[r].pc = "ready" /\ request[r].act = "observe"
    BY DEF MutateReviewFieldObservations, Ready
  <1>2. PICK base, column :
           base = BaseReview(r) /\ column = base.observations
    OBVIOUS
  <1>3. /\ base \in Review /\ NextReview(r) \in Nat
        /\ column \in Seq([at : Nat, status : {"ACTIVE", "SUPERSEDED", "DISMISSED"}])
    BY <1>1, <1>2, AtCommit DEF Review
  <1>4. PICK active, dismissed :
           /\ active = [at |-> NextReview(r), status |-> "ACTIVE"]
           /\ dismissed = [at |-> NextReview(r), status |-> "DISMISSED"]
    OBVIOUS
  <1>5. /\ active \in [at : Nat, status : {"ACTIVE", "SUPERSEDED", "DISMISSED"}]
        /\ dismissed \in [at : Nat, status : {"ACTIVE", "SUPERSEDED", "DISMISSED"}]
        /\ dismissed.status # "ACTIVE"
    BY <1>3, <1>4
  <1>6. ASSUME NEW next \in Seq([at : Nat, status : {"ACTIVE", "SUPERSEDED", "DISMISSED"}]),
               AppendReview(r, WithoutElements([base EXCEPT !.observations = next])),
               \A i \in DOMAIN column : next[i].at = column[i].at,
               Sound(base) => OneActive(next)
        PROVE  IInv' /\ Keeps(r)
    <2>1. PICK review : review = WithoutElements([base EXCEPT !.observations = next])
      OBVIOUS
    <2>2. /\ review \in Review /\ Core(base, review) /\ Carried(base, review, "observe")
          /\ review.observations = next /\ review.elements = <<>>
      BY <1>2, <1>3, <1>6, <2>1, ObservationsChange
    <2>3. Apart(review.elements)
      BY <2>2, NoneApart
    <2> QED
      BY <1>1, <1>2, <1>6, <2>1, <2>2, <2>3, ColumnCommits
  <1>7. \/ /\ ~Observed(base, {"ACTIVE"})
           /\ AppendReview(r, WithoutElements([base EXCEPT !.observations = column \o <<active>>]))
        \/ /\ Observed(base, {"ACTIVE"})
           /\ AppendReview(r, WithoutElements([base EXCEPT
                 !.observations = Supersede(column) \o <<active>>]))
        \/ /\ ~Observed(base, {"ACTIVE", "DISMISSED"})
           /\ AppendReview(r, WithoutElements([base EXCEPT
                 !.observations = column \o <<dismissed>>]))
    BY <1>2, <1>4 DEF MutateReviewFieldObservations, Observation
  <1>8. CASE /\ ~Observed(base, {"ACTIVE"})
             /\ AppendReview(r, WithoutElements([base EXCEPT !.observations = column \o <<active>>]))
    <2>1. \A i \in DOMAIN column : column[i].status # "ACTIVE"
      BY <1>2, <1>8 DEF Observed
    <2>2. /\ column \o <<active>> \in
                Seq([at : Nat, status : {"ACTIVE", "SUPERSEDED", "DISMISSED"}])
          /\ \A i \in DOMAIN column : (column \o <<active>>)[i] = column[i]
          /\ OneActive(column \o <<active>>)
      BY <1>3, <1>5, <2>1, Observing
    <2> QED
      BY <1>6, <1>8, <2>2
  <1>9. CASE /\ Observed(base, {"ACTIVE"})
             /\ AppendReview(r, WithoutElements([base EXCEPT
                   !.observations = Supersede(column) \o <<active>>]))
    <2>1. PICK done : done = Supersede(column)
      OBVIOUS
    <2>2. /\ done \in Seq([at : Nat, status : {"ACTIVE", "SUPERSEDED", "DISMISSED"}])
          /\ DOMAIN done = DOMAIN column
          /\ \A i \in DOMAIN column : done[i].at = column[i].at /\ done[i].status # "ACTIVE"
      BY <1>3, <2>1, Superseding, LenProperties
    <2>3. /\ done \o <<active>> \in
                Seq([at : Nat, status : {"ACTIVE", "SUPERSEDED", "DISMISSED"}])
          /\ \A i \in DOMAIN column : (done \o <<active>>)[i] = done[i]
          /\ OneActive(done \o <<active>>)
      BY <1>5, <2>2, Observing
    <2> QED
      BY <1>6, <1>9, <2>1, <2>2, <2>3
  <1>10. CASE /\ ~Observed(base, {"ACTIVE", "DISMISSED"})
              /\ AppendReview(r, WithoutElements([base EXCEPT
                    !.observations = column \o <<dismissed>>]))
    <2>1. /\ column \o <<dismissed>> \in
                Seq([at : Nat, status : {"ACTIVE", "SUPERSEDED", "DISMISSED"}])
          /\ \A i \in DOMAIN column : (column \o <<dismissed>>)[i] = column[i]
          /\ Sound(base) => OneActive(column \o <<dismissed>>)
      BY <1>2, <1>3, <1>5, Observing DEF Sound
    <2> QED
      BY <1>6, <1>10, <2>1
  <1> QED
    BY <1>7, <1>8, <1>9, <1>10

\* What the column of elements holds.
Element == [at : Nat, label : Labels \cup {""}, group : SUBSET Proposals, active : BOOLEAN]

\* A review whose elements are others.
LEMMA ElementsChange ==
    ASSUME IInv, NEW r \in Request, request[r].pc = "ready",
           NEW elements \in Seq(Element),
           AppendReview(r, [BaseReview(r) EXCEPT !.elements = elements]),
           Apart(BaseReview(r).elements) => Apart(elements)
    PROVE  IInv' /\ Keeps(r)
  <1>1. PICK base, review :
           base = BaseReview(r) /\ review = [base EXCEPT !.elements = elements]
    OBVIOUS
  <1>2. base \in Review
    BY <1>1, AtCommit
  <1>3. /\ review \in Review /\ Core(base, review) /\ Carried(base, review, request[r].act)
        /\ review.observations = base.observations /\ review.elements = elements
    BY <1>1, <1>2 DEF Review, Core, Carried, Element
  <1> QED
    BY <1>1, <1>3, ColumnCommits DEF Sound

\* An element shares no proposal and no name with those in force.
Stranger(new, elements) ==
    \A i \in DOMAIN elements :
        elements[i].active => /\ elements[i].group \cap new.group = {}
                              /\ new.label = "" \/ elements[i].label # new.label

\* Then it may join them.
LEMMA Joining ==
    ASSUME NEW elements \in Seq(Element), NEW new \in Element, Stranger(new, elements)
    PROVE  /\ elements \o <<new>> \in Seq(Element)
           /\ Apart(elements) => Apart(elements \o <<new>>)
  <1>1. PICK n \in Nat : n = Len(elements)
    BY EmptyChain
  <1>2. PICK after : after = elements \o <<new>>
    OBVIOUS
  <1>3. DOMAIN elements = 1..n
    BY <1>1, LenProperties
  <1>4. /\ after \in Seq(Element)
        /\ Len(after) = n + 1
        /\ \A i \in 1..n : after[i] = elements[i]
        /\ after[n + 1] = new
    BY <1>1, <1>2, OneMore
  <1>5. DOMAIN after = 1..(n + 1)
    BY <1>4, LenProperties
  <1>6. ASSUME Apart(elements) PROVE Apart(after)
    <2>1. SUFFICES ASSUME NEW i \in 1..(n + 1), NEW j \in 1..(n + 1),
                          after[i].active, after[j].active, i # j
                   PROVE  /\ after[i].group \cap after[j].group = {}
                          /\ after[i].label = "" \/ after[i].label # after[j].label
      BY <1>5 DEF Apart
    <2>2. CASE i \in 1..n /\ j \in 1..n
      BY <1>3, <1>4, <1>6, <2>1, <2>2 DEF Apart
    <2>3. CASE i \in 1..n /\ j = n + 1
      BY <1>3, <1>4, <2>1, <2>3 DEF Stranger
    <2>4. CASE i = n + 1 /\ j \in 1..n
      <3>1. after[i] = new /\ after[j] = elements[j] /\ j \in DOMAIN elements
        BY <1>3, <1>4, <2>4
      <3>2. /\ elements[j].group \cap new.group = {}
            /\ new.label = "" \/ elements[j].label # new.label
        BY <2>1, <3>1 DEF Stranger
      <3>3. new.group \cap elements[j].group = {}
        BY <3>2
      <3>4. new.label = "" \/ new.label # elements[j].label
        BY <3>2, Zenon
      <3> QED
        BY <3>1, <3>3, <3>4, Zenon
    <2>5. \/ i \in 1..n /\ j \in 1..n
          \/ i \in 1..n /\ j = n + 1
          \/ i = n + 1 /\ j \in 1..n
      BY <2>1
    <2> QED
      BY <2>2, <2>3, <2>4, <2>5, Zenon
  <1> QED
    BY <1>2, <1>4, <1>6

LEMMA DeclareKeeps ==
    ASSUME IInv, NEW r \in Request, DeclareReviewElement(r)
    PROVE  IInv' /\ Keeps(r)
  <1>1. /\ request[r].pc = "ready" /\ BaseReview(r) \in Review /\ NextReview(r) \in Nat
    BY AtCommit DEF DeclareReviewElement, Ready
  <1>0. PICK group \in SUBSET Proposals \ {{}}, label \in Labels \cup {""} :
          \E base, new :
             /\ base = BaseReview(r)
             /\ new = [at |-> NextReview(r), label |-> label, group |-> group, active |-> TRUE]
             /\ \A i \in ActiveElements(base) : base.elements[i].group \cap group = {}
             /\ LabelFree(base, label, {})
             /\ AppendReview(r, [base EXCEPT !.elements = @ \o <<new>>])
    BY DEF DeclareReviewElement
  <1>2. PICK base, new :
           /\ base = BaseReview(r)
           /\ new = [at |-> NextReview(r), label |-> label, group |-> group, active |-> TRUE]
           /\ \A i \in ActiveElements(base) : base.elements[i].group \cap group = {}
           /\ LabelFree(base, label, {})
           /\ AppendReview(r, [base EXCEPT !.elements = @ \o <<new>>])
    BY <1>0
  <1>3. new \in Element /\ base.elements \in Seq(Element)
    BY <1>1, <1>2 DEF Review, Element
  <1>4. Stranger(new, base.elements)
    BY <1>2 DEF Stranger, ActiveElements, LabelFree
  <1>5. PICK elements :
           /\ elements = base.elements \o <<new>> /\ elements \in Seq(Element)
           /\ Apart(base.elements) => Apart(elements)
    BY <1>3, <1>4, Joining
  <1>6. AppendReview(r, [BaseReview(r) EXCEPT !.elements = elements])
    BY <1>2, <1>5
  <1> QED
    BY <1>1, <1>2, <1>5, <1>6, ElementsChange

\* One element of the column is another.
LEMMA OneElement ==
    ASSUME NEW elements \in Seq(Element), NEW i \in DOMAIN elements, NEW new \in Element,
           NEW after, after = [elements EXCEPT ![i] = new]
    PROVE  /\ after \in Seq(Element) /\ DOMAIN after = DOMAIN elements
           /\ elements[i] \in Element
           /\ after[i] = new /\ \A j \in DOMAIN elements : j # i => after[j] = elements[j]
  <1>1. PICK n \in Nat : n = Len(elements)
    BY EmptyChain
  <1>2. DOMAIN elements = 1..n /\ elements \in [1..n -> Element]
    BY <1>1, LenProperties
  <1>3. after \in Seq(Element)
    BY <1>1, <1>2, ExceptSeq
  <1> QED
    BY <1>2, <1>3

LEMMA RevokeKeeps ==
    ASSUME IInv, NEW r \in Request, RevokeReviewElement(r)
    PROVE  IInv' /\ Keeps(r)
  <1>1. /\ request[r].pc = "ready" /\ BaseReview(r) \in Review
    BY AtCommit DEF RevokeReviewElement, Ready
  <1>2. PICK base : base = BaseReview(r)
    OBVIOUS
  <1>3. PICK i \in ActiveElements(base) :
           AppendReview(r, [base EXCEPT !.elements[i].active = FALSE])
    BY <1>2 DEF RevokeReviewElement
  <1>4. base.elements \in Seq(Element) /\ i \in DOMAIN base.elements
    BY <1>1, <1>2, <1>3 DEF Review, Element, ActiveElements
  <1>5. base.elements[i] \in Element
    BY <1>4, LenProperties, ElementOfSeq
  <1>6. PICK new : new = [base.elements[i] EXCEPT !.active = FALSE]
    OBVIOUS
  <1>7. new \in Element /\ ~new.active
    BY <1>5, <1>6 DEF Element
  <1>8. PICK elements :
           /\ elements = [base.elements EXCEPT ![i] = new]
           /\ elements = [base.elements EXCEPT ![i].active = FALSE]
    BY <1>6
  <1>9. /\ elements \in Seq(Element) /\ DOMAIN elements = DOMAIN base.elements
        /\ elements[i] = new
        /\ \A j \in DOMAIN base.elements : j # i => elements[j] = base.elements[j]
    BY <1>4, <1>7, <1>8, OneElement
  <1>10. Apart(base.elements) => Apart(elements)
    BY <1>7, <1>9 DEF Apart
  <1>11. AppendReview(r, [BaseReview(r) EXCEPT !.elements = elements])
    BY <1>2, <1>3, <1>8
  <1> QED
    BY <1>1, <1>2, <1>9, <1>10, <1>11, ElementsChange

LEMMA RelabelKeeps ==
    ASSUME IInv, NEW r \in Request, RelabelReviewElement(r)
    PROVE  IInv' /\ Keeps(r)
  <1>1. /\ request[r].pc = "ready" /\ BaseReview(r) \in Review
    BY AtCommit DEF RelabelReviewElement, Ready
  <1>2. PICK base : base = BaseReview(r)
    OBVIOUS
  <1>3. PICK i \in ActiveElements(base), label \in Labels :
           /\ LabelFree(base, label, {i})
           /\ AppendReview(r, [base EXCEPT !.elements[i].label = label])
    BY <1>2 DEF RelabelReviewElement
  <1>4. base.elements \in Seq(Element) /\ i \in DOMAIN base.elements
    BY <1>1, <1>2, <1>3 DEF Review, Element, ActiveElements
  <1>5. base.elements[i] \in Element /\ base.elements[i].active
    BY <1>3, <1>4, LenProperties, ElementOfSeq DEF ActiveElements
  <1>6. PICK new : new = [base.elements[i] EXCEPT !.label = label]
    OBVIOUS
  <1>7. /\ new \in Element /\ new.label = label /\ new.active
        /\ new.group = base.elements[i].group
    BY <1>5, <1>6 DEF Element
  <1>8. PICK elements :
           /\ elements = [base.elements EXCEPT ![i] = new]
           /\ elements = [base.elements EXCEPT ![i].label = label]
    BY <1>6
  <1>9. /\ elements \in Seq(Element) /\ DOMAIN elements = DOMAIN base.elements
        /\ elements[i] = new
        /\ \A j \in DOMAIN base.elements : j # i => elements[j] = base.elements[j]
    BY <1>4, <1>7, <1>8, OneElement
  <1>10. ASSUME NEW j \in DOMAIN base.elements, base.elements[j].active, j # i
         PROVE  label = "" \/ base.elements[j].label # label
    <2>1. j \in ActiveElements(base) \ {i}
      BY <1>10 DEF ActiveElements
    <2> QED
      BY <1>3, <2>1, Zenon DEF LabelFree
  <1>11. ASSUME Apart(base.elements) PROVE Apart(elements)
    <2>1. SUFFICES ASSUME NEW j \in DOMAIN base.elements, NEW k \in DOMAIN base.elements,
                          elements[j].active, elements[k].active, j # k
                   PROVE  /\ elements[j].group \cap elements[k].group = {}
                          /\ elements[j].label = "" \/ elements[j].label # elements[k].label
      BY <1>9 DEF Apart
    <2>2. CASE j # i /\ k # i
      BY <1>9, <1>11, <2>1, <2>2 DEF Apart
    <2>3. CASE j = i /\ k # i
      BY <1>4, <1>5, <1>7, <1>9, <1>10, <1>11, <2>1, <2>3 DEF Apart
    <2>4. CASE j # i /\ k = i
      BY <1>4, <1>5, <1>7, <1>9, <1>10, <1>11, <2>1, <2>4 DEF Apart
    <2> QED
      BY <2>1, <2>2, <2>3, <2>4
  <1>12. AppendReview(r, [BaseReview(r) EXCEPT !.elements = elements])
    BY <1>2, <1>3, <1>8
  <1> QED
    BY <1>1, <1>2, <1>9, <1>11, <1>12, ElementsChange

LEMMA CorrectKeeps ==
    ASSUME IInv, NEW r \in Request, CorrectProposalShape(r)
    PROVE  IInv' /\ Keeps(r)
  <1>1. /\ request[r].pc = "ready"
        /\ AppendReview(r, [BaseReview(r) EXCEPT !.corrections = @ \cup {NextReview(r)}])
    BY DEF CorrectProposalShape, Ready
  <1>2. PICK base, review :
           /\ base = BaseReview(r)
           /\ review = [base EXCEPT !.corrections = @ \cup {NextReview(r)}]
    OBVIOUS
  <1>3. base \in Review /\ NextReview(r) \in Nat
    BY <1>1, <1>2, AtCommit
  <1>4. /\ review \in Review /\ Core(base, review) /\ Carried(base, review, request[r].act)
        /\ review.observations = base.observations /\ review.elements = base.elements
    BY <1>2, <1>3 DEF Review, Core, Carried
  <1> QED
    BY <1>1, <1>2, <1>4, ColumnCommits DEF Sound

-----------------------------------------------------------------------------
(* Calibration and proposals.                                                *)

\* A review on the scene that goes with it, under the calibration of the one before.
LEMMA FittingNext ==
    ASSUME NEW base \in Review, NEW review, NEW chain \in Seq(SceneRevision),
           NEW scene \in SceneRevision, Fitting(base, chain),
           review.calibration = base.calibration, review.snapshot = base.snapshot,
           review.scene = Len(chain) + 1
    PROVE  Fitting(review, chain \o <<scene>>)
  <1>1. PICK longer : longer = chain \o <<scene>>
    OBVIOUS
  <1>2. Fitting(base, longer) /\ Len(longer) = Len(chain) + 1 /\ Len(chain) \in Nat
    BY <1>1, FittingGrows, OneMore, EmptyChain
  <1>3. Fitting(review, longer)
    BY <1>2 DEF Fitting
  <1> QED
    BY <1>1, <1>3

LEMMA CalibrateKeeps ==
    ASSUME IInv, NEW r \in Request, CreateProposalCalibration(r)
    PROVE  IInv' /\ Keeps(r)
  <1>1. PICK base, frame, at, calibration, review :
           /\ base = BaseReview(r) /\ frame = BaseScene(r).frame /\ at = request[r].scene
           /\ calibration = [made |-> NextReview(r), scene |-> at, frame |-> frame,
                             snapshot |-> base.snapshot]
           /\ review = [base EXCEPT !.calibration = calibration, !.scene = at]
           /\ AppendReview(r, review)
    BY DEF CreateProposalCalibration
  <1>2. request[r].pc = "ready" /\ at # 0
    BY <1>1 DEF CreateProposalCalibration, Ready
  <1>3. /\ base \in Review /\ NextReview(r) \in Nat /\ frame \in Frame
        /\ at \in 0..Len(scenes) /\ scenes[at].frame = frame
        /\ request[r].review = Len(reviews) => base = Current(reviews)
    BY <1>1, <1>2, AtCommit DEF SceneRevision
  <1>4. Len(scenes) \in Nat
    <2>1. scenes \in Seq(SceneRevision)
      BY DEF IInv, TypeOK
    <2> QED
      BY <2>1, EmptyChain
  <1>5. calibration \in [made : Nat, scene : Nat, frame : Frame, snapshot : Nat]
    <2>1. base.snapshot \in Nat
      BY <1>3 DEF Review
    <2>2. at \in Nat
      BY <1>3, <1>4
    <2> QED
      BY <1>1, <1>3, <2>1, <2>2
  <1>6. /\ review \in Review /\ review.readings = base.readings /\ review.decided = base.decided
        /\ review.observations = base.observations /\ review.elements = base.elements
        /\ review.calibration = calibration /\ review.snapshot = base.snapshot
        /\ review.scene = at /\ Carried(base, review, request[r].act)
    BY <1>1, <1>3, <1>4, <1>5 DEF Review, Carried
  <1>7. ASSUME request[r].review = Len(reviews)
        PROVE  /\ Agree(review, LatestScene) /\ Sound(review) /\ Fitting(review, scenes)
    <2>1. Agree(base, LatestScene) /\ Sound(base)
      BY <1>3, <1>7 DEF IInv
    <2>2. Agree(review, LatestScene) /\ Sound(review)
      BY <1>6, <2>1 DEF Agree, Draws, Lines, Sound, Dated
    <2>3. Fitting(review, scenes)
      BY <1>1, <1>2, <1>3, <1>4, <1>6 DEF Fitting
    <2> QED
      BY <2>2, <2>3
  <1> QED
    BY <1>1, <1>2, <1>6, <1>7, ReviewCommits

\* The decisions on proposals once a group of open ones is decided.
Become(base, group, action, decided) ==
    /\ decided \in [Proposals -> {"open", "accept", "reject"}]
    /\ \A p \in Proposals : decided[p] = IF p \in group THEN action ELSE base.decided[p]

LEMMA Becoming ==
    ASSUME NEW base \in Review, NEW group \in SUBSET Proposals, NEW action \in {"accept", "reject"}
    PROVE  Become(base, group, action,
                  [p \in Proposals |-> IF p \in group THEN action ELSE base.decided[p]])
  <1>1. base.decided \in [Proposals -> {"open", "accept", "reject"}]
    BY DEF Review
  <1> QED
    BY <1>1 DEF Become

Settled(base, decided, at, review) ==
    review = [base EXCEPT !.decided = decided, !.scene = at]

\* What a group of proposals decided leaves of a review.
LEMMA Deciding ==
    ASSUME NEW base \in Review, NEW group \in SUBSET Proposals, NEW action,
           \A p \in group : base.decided[p] = "open", NEW at \in Nat, NEW act,
           NEW decided, Become(base, group, action, decided),
           NEW review, Settled(base, decided, at, review)
    PROVE  /\ review \in Review /\ Carried(base, review, act)
           /\ review.decided = decided
           /\ review.readings = base.readings /\ review.scene = at
           /\ review.calibration = base.calibration /\ review.snapshot = base.snapshot
           /\ Sound(base) => Sound(review)
  <1>1. /\ decided \in [Proposals -> {"open", "accept", "reject"}]
        /\ \A p \in Proposals : base.decided[p] \in {"open", decided[p]}
    BY DEF Become
  <1>2. /\ review \in Review /\ review.decided = decided
        /\ review.readings = base.readings /\ review.scene = at
        /\ review.calibration = base.calibration /\ review.snapshot = base.snapshot
        /\ review.chains = base.chains /\ review.witnesses = base.witnesses
        /\ review.observations = base.observations /\ review.elements = base.elements
    BY <1>1 DEF Review, Settled
  <1>3. Carried(base, review, act)
    BY <1>1, <1>2 DEF Carried
  <1>4. Sound(base) => Sound(review)
    BY <1>2 DEF Sound, Dated
  <1> QED
    BY <1>2, <1>3, <1>4

\* A line of each proposal of a group.
OnePerProposal(new, group) ==
    /\ new \in SUBSET [proposal : Proposals, under : Nat, accepted : BOOLEAN]
    /\ \A l \in new : l.proposal \in group
    /\ \A l, m \in new : m.proposal = l.proposal => m = l

LEMMA Projecting ==
    ASSUME NEW group \in SUBSET Proposals, NEW made \in Nat
    PROVE  OnePerProposal({[proposal |-> p, under |-> made, accepted |-> TRUE] : p \in group},
                          group)
  <1>1. PICK new : new = {[proposal |-> p, under |-> made, accepted |-> TRUE] : p \in group}
    OBVIOUS
  <1>2. /\ new \in SUBSET [proposal : Proposals, under : Nat, accepted : BOOLEAN]
        /\ \A l \in new : l.proposal \in group
    <2>1. ASSUME NEW l \in new
          PROVE  /\ l \in [proposal : Proposals, under : Nat, accepted : BOOLEAN]
                 /\ l.proposal \in group
      <3>1. PICK p \in group : l = [proposal |-> p, under |-> made, accepted |-> TRUE]
        BY <1>1, <2>1
      <3> QED
        BY <3>1
    <2> QED
      BY <2>1
  <1>3. ASSUME NEW l \in new, NEW m \in new, m.proposal = l.proposal
        PROVE  m = l
    <2>1. PICK p \in group : l = [proposal |-> p, under |-> made, accepted |-> TRUE]
      BY <1>1
    <2>2. PICK q \in group : m = [proposal |-> q, under |-> made, accepted |-> TRUE]
      BY <1>1
    <2>3. p = q
      BY <1>3, <2>1, <2>2
    <2> QED
      BY <2>1, <2>2, <2>3
  <1> QED
    BY <1>1, <1>2, <1>3 DEF OnePerProposal

\* Lines of proposals accepted together join those of proposals accepted before.
LEMMA Accepting ==
    ASSUME NEW base \in Review, NEW scene \in SceneRevision, Lines(base, scene),
           NEW group \in SUBSET Proposals, \A p \in group : base.decided[p] = "open",
           NEW review, Become(base, group, "accept", review.decided),
           NEW new, OnePerProposal(new, group),
           NEW after, after.lines = scene.lines \cup new
    PROVE  Lines(review, after)
  <1>1. \A l \in new : l.proposal \in group
    BY DEF OnePerProposal
  <1>2. \A l, m \in new : m.proposal = l.proposal => m = l
    BY DEF OnePerProposal
  <1>3. \A l \in scene.lines :
           /\ l.proposal \in Proposals \ group /\ base.decided[l.proposal] = "accept"
           /\ \A m \in scene.lines : m.proposal = l.proposal => m = l
    BY DEF Lines, SceneRevision
  <1>4. \A p \in Proposals :
           review.decided[p] = IF p \in group THEN "accept" ELSE base.decided[p]
    BY DEF Become
  <1>5. ASSUME NEW l \in after.lines
        PROVE  /\ review.decided[l.proposal] = "accept"
               /\ \A m \in after.lines : m.proposal = l.proposal => m = l
    <2>1. CASE l \in new
      BY <1>1, <1>2, <1>3, <1>4, <2>1
    <2>2. CASE l \in scene.lines
      BY <1>1, <1>3, <1>4, <2>2
    <2> QED
      BY <1>4, <1>5, <2>1, <2>2
  <1> QED
    BY <1>5 DEF Lines

LEMMA GroupKeeps ==
    ASSUME IInv, NEW r \in Request, request[r].pc = "ready",
           NEW group \in SUBSET Proposals, DecideGroup(r, group)
    PROVE  IInv' /\ Keeps(r)
  <1>1. PICK base, scene :
           base = BaseReview(r) /\ scene = BaseScene(r)
    OBVIOUS
  <1>2. /\ base \in Review /\ scene \in SceneRevision
        /\ NextScene(r) \in Nat /\ NextScene(r) = request[r].scene + 1
        /\ request[r].review = Len(reviews) => base = Current(reviews)
        /\ request[r].scene = Len(scenes) => scene = LatestScene
    BY <1>1, AtCommit DEF NextScene
  <1>3. /\ scenes \in Seq(SceneRevision) /\ Len(scenes) \in Nat
        /\ request[r].scene \in 0..Len(scenes)
    <2>1. scenes \in Seq(SceneRevision)
      BY DEF IInv, TypeOK
    <2> QED
      BY <2>1, EmptyChain, AtCommit
  <1>4. \A p \in group : base.decided[p] = "open"
    BY <1>1 DEF DecideGroup
  <1>5. ASSUME Usable(r),
               Extend(r, <<[Decisions(r, group, "accept") EXCEPT !.scene = NextScene(r)]>>,
                      <<[scene EXCEPT !.lines = @ \cup {Projected(r, p) : p \in group}]>>)
        PROVE  IInv' /\ Keeps(r)
    <2>0. PICK decided, at, act, whole :
             /\ decided = [p \in Proposals |-> IF p \in group THEN "accept" ELSE base.decided[p]]
             /\ at = NextScene(r) /\ act = request[r].act
             /\ whole = [Decisions(r, group, "accept") EXCEPT !.scene = at]
      OBVIOUS
    <2>8. whole = [base EXCEPT !.decided = decided, !.scene = at]
      BY <1>1, <2>0 DEF Decisions
    <2>9. PICK new : new = {Projected(r, p) : p \in group}
      OBVIOUS
    <2>10. new = {[proposal |-> p, under |-> base.calibration.made, accepted |-> TRUE] : p \in group}
      BY <1>1, <2>9 DEF Projected
    <2>1. PICK review, after :
             /\ review = [base EXCEPT !.decided = decided, !.scene = at]
             /\ after = [scene EXCEPT !.lines = @ \cup new]
             /\ Extend(r, <<review>>, <<after>>)
      BY <1>5, <2>0, <2>8, <2>9
    <2>2. Become(base, group, "accept", decided)
      BY <1>2, <2>0, Becoming
    <2>3. /\ review \in Review /\ Carried(base, review, act)
          /\ review.decided = decided
          /\ review.readings = base.readings /\ review.scene = at
          /\ review.calibration = base.calibration /\ review.snapshot = base.snapshot
          /\ Sound(base) => Sound(review)
      <3>1. base \in Review /\ at \in Nat
        BY <1>2, <2>0
      <3>2. Settled(base, decided, at, review)
        BY <2>1 DEF Settled
      <3> QED
        BY <1>4, <2>2, <3>1, <3>2, Deciding
    <2>7. OnePerProposal(new, group)
      <3>1. base.calibration.made \in Nat
        BY <1>2 DEF Review
      <3> QED
        BY <2>10, <3>1, Projecting
    <2>4. /\ after \in SceneRevision /\ after.drawn = scene.drawn /\ after.issues = scene.issues
          /\ after.lines = scene.lines \cup new
      BY <1>2, <2>1, <2>7 DEF SceneRevision, OnePerProposal
    <2>5. ASSUME request[r].review = Len(reviews), request[r].scene = Len(scenes)
          PROVE  /\ Agree(review, after) /\ Sound(review)
                 /\ Fitting(review, scenes \o <<after>>)
      <3>1. Agree(base, scene) /\ Sound(base) /\ Fitting(base, scenes)
        BY <1>2, <2>5 DEF IInv
      <3>2. Draws(review, after)
        BY <2>3, <2>4, <3>1 DEF Agree, Draws
      <3>3. Lines(review, after)
        BY <1>2, <1>4, <2>2, <2>3, <2>4, <2>7, <3>1, Accepting DEF Agree
      <3>4. Fitting(review, scenes \o <<after>>)
        BY <1>2, <1>3, <2>0, <2>3, <2>4, <2>5, <3>1, FittingNext
      <3> QED
        BY <2>3, <3>1, <3>2, <3>3, <3>4 DEF Agree
    <2>6. Thawed(base, scene, after)
      BY <2>4 DEF Thawed
    <2> QED
      BY <1>1, <2>0, <2>1, <2>3, <2>4, <2>5, <2>6, BothCommit
  <1>6. ASSUME AppendReview(r, [Decisions(r, group, "reject") EXCEPT !.scene = request[r].scene])
        PROVE  IInv' /\ Keeps(r)
    <2>0. PICK decided, at, act, review :
             /\ decided = [p \in Proposals |-> IF p \in group THEN "reject" ELSE base.decided[p]]
             /\ at = request[r].scene /\ act = request[r].act
             /\ review = [Decisions(r, group, "reject") EXCEPT !.scene = at]
      OBVIOUS
    <2>1. /\ review = [base EXCEPT !.decided = decided, !.scene = at]
          /\ AppendReview(r, review)
      BY <1>1, <1>6, <2>0 DEF Decisions
    <2>4. Become(base, group, "reject", decided)
      BY <1>2, <2>0, Becoming
    <2>2. /\ review \in Review /\ Carried(base, review, act)
          /\ review.decided = decided
          /\ review.readings = base.readings /\ review.scene = at
          /\ review.calibration = base.calibration /\ review.snapshot = base.snapshot
          /\ Sound(base) => Sound(review)
      <3>1. at \in Nat
        BY <1>3, <2>0
      <3>2. Settled(base, decided, at, review)
        BY <2>1 DEF Settled
      <3> QED
        BY <1>2, <1>4, <2>4, <3>1, <3>2, Deciding
    <2>3. ASSUME request[r].review = Len(reviews)
          PROVE  /\ Agree(review, LatestScene) /\ Sound(review) /\ Fitting(review, scenes)
      <3>1. Agree(base, LatestScene) /\ Sound(base) /\ Fitting(base, scenes)
        BY <1>2, <2>3 DEF IInv
      <3>2. Draws(review, LatestScene)
        BY <2>2, <3>1 DEF Agree, Draws
      <3>3. LatestScene \in SceneRevision
        BY <1>3, EmptyChain, NoSceneIsOne DEF LatestScene, Current
      <3>4. Lines(review, LatestScene)
        BY <1>4, <2>2, <2>4, <3>1, <3>3 DEF Agree, Lines, SceneRevision, Become
      <3>5. Fitting(review, scenes)
        BY <1>3, <2>0, <2>2, <3>1 DEF Fitting
      <3> QED
        BY <2>2, <3>1, <3>2, <3>4, <3>5 DEF Agree
    <2> QED
      BY <1>1, <2>0, <2>1, <2>2, <2>3, ReviewCommits
  <1> QED
    BY <1>1, <1>5, <1>6 DEF DecideGroup

LEMMA ProposeKeeps ==
    ASSUME IInv, NEW r \in Request, DecideProposal(r) \/ DecideProposalBatch(r)
    PROVE  IInv' /\ Keeps(r)
  <1>1. request[r].pc = "ready"
    BY DEF DecideProposal, DecideProposalBatch, Ready
  <1>2. PICK group \in SUBSET Proposals : DecideGroup(r, group)
    BY DEF DecideProposal, DecideProposalBatch
  <1> QED
    BY <1>1, <1>2, GroupKeeps

-----------------------------------------------------------------------------
(* Annotations and traces: the review moves to the scene it comes with.      *)

\* A review that differs from the one before it by its scene, and maybe by its corrections.
Moved(old, new, at) ==
    /\ new.readings = old.readings /\ new.decided = old.decided
    /\ new.calibration = old.calibration /\ new.snapshot = old.snapshot
    /\ new.chains = old.chains /\ new.witnesses = old.witnesses
    /\ new.observations = old.observations /\ new.elements = old.elements
    /\ new.scene = at

\* It commits with any scene that agrees with the review before it.
LEMMA MovedCommits ==
    ASSUME IInv, NEW r \in Request, request[r].pc = "ready",
           NEW review \in Review, Moved(BaseReview(r), review, NextScene(r)),
           NEW scene \in SceneRevision, Extend(r, <<review>>, <<scene>>),
           Dated(BaseReview(r)) /\ Agree(BaseReview(r), BaseScene(r)) =>
              Agree(BaseReview(r), scene),
           Thawed(BaseReview(r), BaseScene(r), scene)
    PROVE  IInv' /\ Keeps(r)
  <1>1. PICK base : base = BaseReview(r)
    OBVIOUS
  <1>2. /\ base \in Review
        /\ request[r].review = Len(reviews) => base = Current(reviews)
        /\ request[r].scene = Len(scenes) => BaseScene(r) = LatestScene
    BY <1>1, AtCommit
  <1>3. scenes \in Seq(SceneRevision)
    BY DEF IInv, TypeOK
  <1>4. Carried(base, review, request[r].act)
    BY <1>1, <1>2 DEF Moved, Carried, Review
  <1>5. ASSUME request[r].review = Len(reviews), request[r].scene = Len(scenes)
        PROVE  /\ Agree(review, scene) /\ Sound(review)
               /\ Fitting(review, scenes \o <<scene>>)
    <2>1. Agree(base, BaseScene(r)) /\ Sound(base) /\ Fitting(base, scenes)
      BY <1>2, <1>5 DEF IInv
    <2>2. Agree(review, scene)
      BY <1>1, <2>1 DEF Agree, Draws, Lines, Moved, Sound
    <2>3. Sound(review)
      BY <1>1, <2>1 DEF Sound, Dated, Moved
    <2>4. /\ review.calibration = base.calibration /\ review.snapshot = base.snapshot
          /\ review.scene = Len(scenes) + 1
      BY <1>1, <1>5 DEF Moved, NextScene
    <2>5. Fitting(review, scenes \o <<scene>>)
      BY <1>2, <1>3, <2>1, <2>4, FittingNext
    <2> QED
      BY <2>2, <2>3, <2>5
  <1> QED
    BY <1>1, <1>4, <1>5, BothCommit

\* One more drawing, of a reading decided and not drawn yet.
LEMMA DrawnOnceMore ==
    ASSUME NEW base \in Review, Dated(base), NEW x \in Readings,
           base.readings[x].outcome \in Confirmed,
           NEW new, new.reading = x, new.at = base.readings[x].at,
           NEW scene \in SceneRevision, Draws(base, scene),
           \A d \in scene.drawn : d.reading # x,
           NEW after, after.issues = scene.issues, after.drawn = scene.drawn \cup {new}
    PROVE  Draws(base, after)
  <1>1. base.readings[x].at # 0
    BY DEF Dated, Outcomes
  <1>4. ASSUME NEW d \in after.drawn
        PROVE  /\ d.at # 0
               /\ \/ d.at = base.readings[d.reading].at
                  \/ "READING_DECISION_SUPERSEDED" \in after.issues
    <2>1. CASE d = new
      BY <1>1, <2>1
    <2>2. CASE d \in scene.drawn
      BY <2>2 DEF Draws
    <2> QED
      BY <1>4, <2>1, <2>2
  <1>5. ASSUME NEW d \in after.drawn, NEW e \in after.drawn, d.reading = e.reading
        PROVE  d = e
    BY <1>5 DEF Draws
  <1> QED
    BY <1>4, <1>5 DEF Draws

\* A line one of whose marks changes is of the same proposal.
LEMMA Relined ==
    ASSUME NEW base, NEW scene \in SceneRevision, Lines(base, scene),
           NEW line \in scene.lines, NEW new, new.proposal = line.proposal,
           NEW after, after.lines = (scene.lines \ {line}) \cup {new}
    PROVE  Lines(base, after)
  <1>1. ASSUME NEW l \in after.lines
        PROVE  /\ base.decided[l.proposal] = "accept"
               /\ \A m \in after.lines : m.proposal = l.proposal => m = l
    <2>1. CASE l = new
      BY <2>1 DEF Lines
    <2>2. CASE l \in scene.lines \ {line}
      BY <2>2 DEF Lines
    <2> QED
      BY <1>1, <2>1, <2>2
  <1> QED
    BY <1>1 DEF Lines

\* The annotation of a reading on a scene that has the drawings and issues of the one read.
LEMMA AnnotatedKeeps ==
    ASSUME IInv, NEW r \in Request, request[r].pc = "ready",
           NEW x \in Readings, Annotable(r, x),
           NEW scene \in SceneRevision, Annotated(r, x, scene),
           scene.drawn = BaseScene(r).drawn, scene.issues = BaseScene(r).issues,
           Lines(BaseReview(r), BaseScene(r)) => Lines(BaseReview(r), scene)
    PROVE  IInv' /\ Keeps(r)
  <1>1. PICK base, at, new, review, after :
           /\ base = BaseReview(r) /\ at = NextScene(r)
           /\ new = [reading |-> x, at |-> base.readings[x].at, made |-> at]
           /\ review = [base EXCEPT !.scene = at]
           /\ after = [scene EXCEPT !.drawn = @ \cup {new}]
           /\ Extend(r, <<review>>, <<after>>)
    BY DEF Annotated, Drawing
  <1>2. base \in Review /\ at \in Nat
    BY <1>1, AtCommit
  <1>3. review \in Review /\ Moved(base, review, at)
    BY <1>1, <1>2 DEF Review, Moved
  <1>4. new \in [reading : Readings, at : Nat, made : Nat]
    BY <1>1, <1>2 DEF Review
  <1>5. /\ after \in SceneRevision
        /\ after.drawn = scene.drawn \cup {new}
        /\ after.lines = scene.lines /\ after.issues = scene.issues
    BY <1>1, <1>4 DEF SceneRevision
  <1>6. ASSUME Dated(base), Agree(base, BaseScene(r))
        PROVE  Agree(base, after)
    <2>1. Draws(base, scene) /\ Lines(base, scene)
      BY <1>1, <1>6 DEF Agree, Draws
    <2>2. \A d \in scene.drawn : d.reading # x
      BY DEF Annotable, Undrawn
    <2>3. base.readings[x].outcome \in Confirmed
      BY <1>1 DEF Annotable
    <2>6. new.reading = x /\ new.at = base.readings[x].at
      BY <1>1
    <2>4. Draws(base, after)
      BY <1>2, <1>5, <2>6, <1>6, <2>1, <2>2, <2>3, DrawnOnceMore
    <2>5. Lines(base, after)
      BY <1>5, <2>1 DEF Lines
    <2> QED
      BY <2>4, <2>5 DEF Agree
  <1>7. Thawed(base, BaseScene(r), after)
    BY <1>5 DEF Thawed
  <1> QED
    BY <1>1, <1>3, <1>5, <1>6, <1>7, MovedCommits

LEMMA DimensionKeeps ==
    ASSUME IInv, NEW r \in Request, AnnotateDimension(r)
    PROVE  IInv' /\ Keeps(r)
  <1>1. request[r].pc = "ready"
    BY DEF AnnotateDimension, Ready
  <1>2. PICK base, scene : base = BaseReview(r) /\ scene = BaseScene(r)
    OBVIOUS
  <1>3. base \in Review /\ scene \in SceneRevision
    BY <1>1, <1>2, AtCommit
  <1>4. PICK x \in Readings :
           /\ Annotable(r, x)
           /\ \/ Annotated(r, x, [scene EXCEPT
                    !.frame.shape = @ \cup {<<x, base.readings[x].outcome>>}])
              \/ \E l \in scene.lines :
                    Annotated(r, x, [scene EXCEPT
                       !.lines = (@ \ {l}) \cup {[l EXCEPT !.accepted = FALSE]}])
              \/ Annotated(r, x, scene)
    BY <1>2 DEF AnnotateDimension
  <1>5. base.readings[x].outcome \in Confirmed
    BY <1>2, <1>4 DEF Annotable
  <1>6. CASE Annotated(r, x, [scene EXCEPT
                !.frame.shape = @ \cup {<<x, base.readings[x].outcome>>}])
    <2>1. PICK frame, after :
             /\ frame = [scene.frame EXCEPT !.shape = @ \cup {<<x, base.readings[x].outcome>>}]
             /\ after = [scene EXCEPT !.frame = frame]
             /\ Annotated(r, x, after)
      BY <1>6
    <2>2. frame \in Frame
      BY <1>3, <1>5, <2>1 DEF SceneRevision, Frame
    <2>3. /\ after \in SceneRevision /\ after.drawn = scene.drawn /\ after.lines = scene.lines
          /\ after.issues = scene.issues
      BY <1>3, <2>1, <2>2 DEF SceneRevision
    <2>4. Lines(base, scene) => Lines(base, after)
      BY <2>3 DEF Lines
    <2> QED
      BY <1>1, <1>2, <1>4, <2>1, <2>3, <2>4, AnnotatedKeeps
  <1>7. CASE \E l \in scene.lines :
                Annotated(r, x, [scene EXCEPT
                   !.lines = (@ \ {l}) \cup {[l EXCEPT !.accepted = FALSE]}])
    <2>0. PICK l \in scene.lines :
            \E new, after :
               /\ new = [l EXCEPT !.accepted = FALSE]
               /\ after = [scene EXCEPT !.lines = (@ \ {l}) \cup {new}]
               /\ Annotated(r, x, after)
      BY <1>7
    <2>1. PICK new, after :
             /\ new = [l EXCEPT !.accepted = FALSE]
             /\ after = [scene EXCEPT !.lines = (@ \ {l}) \cup {new}]
             /\ Annotated(r, x, after)
      BY <2>0
    <2>2. /\ new \in [proposal : Proposals, under : Nat, accepted : BOOLEAN]
          /\ new.proposal = l.proposal
      BY <1>3, <2>1 DEF SceneRevision
    <2>3. /\ after \in SceneRevision /\ after.drawn = scene.drawn
          /\ after.lines = (scene.lines \ {l}) \cup {new}
          /\ after.issues = scene.issues
      BY <1>3, <2>1, <2>2 DEF SceneRevision
    <2>4. Lines(base, scene) => Lines(base, after)
      BY <1>3, <2>2, <2>3, Relined
    <2> QED
      BY <1>1, <1>2, <1>4, <2>1, <2>3, <2>4, AnnotatedKeeps
  <1>8. CASE Annotated(r, x, scene)
    BY <1>1, <1>2, <1>3, <1>4, <1>8, AnnotatedKeeps
  <1> QED
    BY <1>4, <1>6, <1>7, <1>8

LEMMA NoteKeeps ==
    ASSUME IInv, NEW r \in Request, AnnotateNote(r)
    PROVE  IInv' /\ Keeps(r)
  <1>1. request[r].pc = "ready"
    BY DEF AnnotateNote, Ready
  <1>2. PICK scene : scene = BaseScene(r) /\ scene \in SceneRevision
    BY <1>1, AtCommit
  <1>3. PICK x \in Readings : Annotable(r, x) /\ Annotated(r, x, scene)
    BY <1>2 DEF AnnotateNote
  <1> QED
    BY <1>1, <1>2, <1>3, AnnotatedKeeps

LEMMA TraceKeeps ==
    ASSUME IInv, NEW r \in Request, LandTrace(r)
    PROVE  IInv' /\ Keeps(r)
  <1>1. request[r].pc = "ready"
    BY DEF LandTrace, Ready
  <1>2. PICK base, at : base = BaseReview(r) /\ at = NextScene(r)
    OBVIOUS
  <1>3. base \in Review /\ at \in Nat
    BY <1>1, <1>2, AtCommit
  <1>4. PICK applied \in SUBSET {x \in Readings : base.readings[x].outcome \in Confirmed},
             value \in Measured :
           Extend(r, <<WithoutCorrections([base EXCEPT !.scene = at])>>,
                  <<Traced(r, applied, value)>>)
    BY <1>2 DEF LandTrace
  <1>5. PICK whole, review, after :
           /\ whole = [base EXCEPT !.scene = at] /\ review = WithoutCorrections(whole)
           /\ after = Traced(r, applied, value)
    OBVIOUS
  <1>6. whole \in Review /\ Moved(base, whole, at)
    BY <1>3, <1>5 DEF Review, Moved
  <1>7. review = [whole EXCEPT !.corrections = {}]
    BY <1>5 DEF WithoutCorrections
  <1>8. review \in Review /\ Moved(base, review, at)
    BY <1>6, <1>7 DEF Review, Moved
  <1>9. \A x \in applied : /\ x \in Readings /\ base.readings[x].outcome \in Confirmed
                           /\ base.readings[x].at \in Nat
    BY <1>3, <1>4 DEF Review
  <1>10. PICK drawn :
            drawn = {[reading |-> x, at |-> base.readings[x].at, made |-> at] : x \in applied}
    OBVIOUS
  <1>11. after = [frame |-> [maker |-> "trace", shape |-> {<<"trace", value>>}],
                  drawn |-> drawn, lines |-> {}, issues |-> {}]
    BY <1>2, <1>5, <1>10 DEF Traced, Drawing
  <1>12. \A d \in drawn : \E x \in applied :
            d = [reading |-> x, at |-> base.readings[x].at, made |-> at]
    BY <1>10
  <1>13. drawn \subseteq [reading : Readings, at : Nat, made : Nat]
    BY <1>3, <1>9, <1>12
  <1>14. [maker |-> "trace", shape |-> {<<"trace", value>>}] \in Frame
    BY DEF Frame, Confirmed, Measured
  <1>15. /\ after \in SceneRevision
         /\ after.drawn = drawn /\ after.lines = {} /\ after.issues = {}
    BY <1>11, <1>13, <1>14 DEF SceneRevision
  <1>16. ASSUME Dated(base)
         PROVE  Agree(base, after)
    <2>1. \A d \in drawn : d.at # 0 /\ d.at = base.readings[d.reading].at
      BY <1>9, <1>12, <1>16 DEF Dated, Outcomes
    <2>2. ASSUME NEW d \in drawn, NEW e \in drawn, d.reading = e.reading
          PROVE  d = e
      BY <1>12, <2>2
    <2> QED
      BY <1>15, <2>1, <2>2 DEF Agree, Draws, Lines
  <1>17. Thawed(base, BaseScene(r), after)
    BY <1>15 DEF Thawed, Preserved
  <1> QED
    BY <1>1, <1>2, <1>4, <1>5, <1>8, <1>15, <1>16, <1>17, MovedCommits

-----------------------------------------------------------------------------
(* Readings decided and rectified, and the rectangle solved anew.            *)

\* A review with one reading decided.
LEMMA OneDecided ==
    ASSUME IInv, NEW r \in Request, request[r].pc = "ready",
           NEW x \in Readings, NEW outcome \in Outcomes
    PROVE  /\ Decided(r, x, outcome) \in Review
           /\ Decided(r, x, outcome).readings[x] = [at |-> NextReview(r), outcome |-> outcome]
           /\ \A y \in Readings :
                 y # x => Decided(r, x, outcome).readings[y] = BaseReview(r).readings[y]
           /\ Decided(r, x, outcome).decided = BaseReview(r).decided
           /\ Decided(r, x, outcome).calibration = BaseReview(r).calibration
           /\ Decided(r, x, outcome).snapshot = BaseReview(r).snapshot
           /\ Decided(r, x, outcome).scene = BaseReview(r).scene
           /\ Sound(BaseReview(r)) => Sound(Decided(r, x, outcome))
           /\ \A act : Carried(BaseReview(r), Decided(r, x, outcome), act)
  <1>1. PICK base, one, readings, review :
           /\ base = BaseReview(r)
           /\ one = [at |-> NextReview(r), outcome |-> outcome]
           /\ readings = [base.readings EXCEPT ![x] = one]
           /\ review = [base EXCEPT !.readings = readings]
    OBVIOUS
  <1>2. /\ base \in Review /\ NextReview(r) \in Nat \ {0}
        /\ base.readings \in [Readings -> [at : Nat, outcome : Outcomes \cup {"none"}]]
    BY <1>1, AtCommit DEF Review
  <1>3. Decided(r, x, outcome) = review
    BY <1>1 DEF Decided
  <1>4. /\ readings \in [Readings -> [at : Nat, outcome : Outcomes \cup {"none"}]]
        /\ readings[x] = one
        /\ \A y \in Readings : y # x => readings[y] = base.readings[y]
    BY <1>1, <1>2
  <1>5. /\ review \in Review /\ review.readings = readings
        /\ review.decided = base.decided /\ review.calibration = base.calibration
        /\ review.snapshot = base.snapshot /\ review.scene = base.scene
        /\ review.chains = base.chains /\ review.witnesses = base.witnesses
        /\ review.observations = base.observations /\ review.elements = base.elements
    BY <1>1, <1>2, <1>4 DEF Review
  <1>6. \A act : Carried(base, review, act)
    BY <1>2, <1>5 DEF Carried, Review
  <1>7. ASSUME Sound(base) PROVE Sound(review)
    <2>1. ASSUME NEW y \in Readings, review.readings[y].outcome \in Outcomes
          PROVE  review.readings[y].at # 0
      <3>1. CASE y = x
        BY <1>1, <1>2, <1>4, <1>5, <3>1
      <3>2. CASE y # x
        BY <1>4, <1>5, <1>7, <2>1, <3>2 DEF Sound, Dated
      <3> QED
        BY <3>1, <3>2
    <2> QED
      BY <1>5, <1>7, <2>1 DEF Sound, Dated
  <1> QED
    BY <1>1, <1>3, <1>4, <1>5, <1>6, <1>7

\* A calibration solved again stands on the frame and the snapshot it is solved on.
LEMMA Revalidating ==
    ASSUME NEW calibration \in [made : Nat, scene : Nat, frame : Frame, snapshot : Nat],
           NEW frame, NEW snapshot, NEW version \in Nat,
           NEW kept, kept = Revalidated(calibration, frame, snapshot, version)
    PROVE  /\ kept \in [made : Nat, scene : Nat, frame : Frame, snapshot : Nat]
           /\ kept # Uncalibrated =>
                 /\ calibration # Uncalibrated
                 /\ kept.frame = frame /\ kept.snapshot = snapshot /\ kept.scene = version
  <1>1. Uncalibrated \in [made : Nat, scene : Nat, frame : Frame, snapshot : Nat]
    BY NoSceneIsOne DEF Uncalibrated
  <1> QED
    BY <1>1 DEF Revalidated

\* The review solved anew.
Solves(review, kept, at, solved) ==
    solved = [review EXCEPT !.scene = at, !.calibration = kept]

LEMMA SolvedIsSound ==
    ASSUME NEW review \in Review, NEW kept \in [made : Nat, scene : Nat, frame : Frame, snapshot : Nat],
           NEW at \in Nat, NEW solved, Solves(review, kept, at, solved)
    PROVE  /\ solved \in Review /\ solved.scene = at /\ solved.calibration = kept
           /\ solved.readings = review.readings /\ solved.decided = review.decided
           /\ solved.snapshot = review.snapshot
           /\ Sound(review) => Sound(solved)
           /\ \A old, act : Carried(old, review, act) => Carried(old, solved, act)
  <1>1. /\ solved \in Review /\ solved.scene = at /\ solved.calibration = kept
        /\ solved.readings = review.readings /\ solved.decided = review.decided
        /\ solved.snapshot = review.snapshot
        /\ solved.chains = review.chains /\ solved.witnesses = review.witnesses
        /\ solved.observations = review.observations /\ solved.elements = review.elements
    BY DEF Review, Solves
  <1>2. \A old, act : Carried(old, review, act) => Carried(old, solved, act)
    BY <1>1 DEF Carried
  <1>3. Sound(review) => Sound(solved)
    BY <1>1 DEF Sound, Dated
  <1> QED
    BY <1>1, <1>2, <1>3

LEMMA SolvedCommits ==
    ASSUME IInv, NEW r \in Request, request[r].pc = "ready",
           NEW review \in Review, Solvable(review),
           review.decided = BaseReview(r).decided,
           review.calibration = BaseReview(r).calibration,
           Sound(BaseReview(r)) => Sound(review),
           \A act : Carried(BaseReview(r), review, act),
           Extend(r, <<SolvedReview(r, review)>>, <<SolvedScene(r, review)>>)
    PROVE  IInv' /\ Keeps(r)
  <1>1. PICK base, before, at, frame, kept, lines, drawn, solved, scene :
           /\ base = BaseReview(r) /\ before = BaseScene(r) /\ at = NextScene(r)
           /\ frame = SolverFrame(review)
           /\ kept = Revalidated(review.calibration, frame, review.snapshot, at)
           /\ lines = Preserved(before)
           /\ drawn = {Drawing(review, x, at) : x \in rectangle}
           /\ solved = [review EXCEPT !.scene = at, !.calibration = kept]
           /\ scene = [frame |-> frame, drawn |-> drawn, lines |-> lines,
                       issues |-> Frozen(review.calibration, lines, kept)]
    OBVIOUS
  <1>2. Extend(r, <<solved>>, <<scene>>)
    BY <1>1 DEF SolvedReview, SolvedScene
  <1>3. /\ base \in Review /\ before \in SceneRevision /\ at \in Nat
        /\ request[r].review = Len(reviews) => base = Current(reviews)
        /\ request[r].scene = Len(scenes) => before = LatestScene
    BY <1>1, AtCommit
  <1>4. scenes \in Seq(SceneRevision) /\ Len(scenes) \in Nat /\ rectangle \subseteq Readings
    <2>1. scenes \in Seq(SceneRevision) /\ rectangle \subseteq Readings
      BY DEF IInv, TypeOK
    <2> QED
      BY <2>1, EmptyChain
  <1>5. \A x \in rectangle : /\ x \in Readings /\ review.readings[x].at \in Nat
                             /\ review.readings[x].outcome \in Measured
    BY <1>4 DEF Solvable, Review
  <1>6. frame \in Frame
    <2>1. PICK shape : shape = {<<x, review.readings[x].outcome>> : x \in rectangle}
      OBVIOUS
    <2>2. shape \subseteq (Readings \cup {"trace"}) \X Confirmed
      BY <1>5, <2>1 DEF Confirmed
    <2>3. frame = [maker |-> "solver", shape |-> shape]
      BY <1>1, <2>1 DEF SolverFrame
    <2> QED
      BY <2>2, <2>3 DEF Frame
  <1>7. /\ kept \in [made : Nat, scene : Nat, frame : Frame, snapshot : Nat]
        /\ kept # Uncalibrated =>
              /\ review.calibration # Uncalibrated
              /\ kept.frame = frame /\ kept.snapshot = review.snapshot /\ kept.scene = at
    <2>1. review.calibration \in [made : Nat, scene : Nat, frame : Frame, snapshot : Nat]
      BY DEF Review
    <2> QED
      BY <1>1, <1>3, <2>1, Revalidating
  <1>8. /\ solved \in Review /\ solved.scene = at /\ solved.calibration = kept
        /\ solved.readings = review.readings /\ solved.decided = review.decided
        /\ solved.snapshot = review.snapshot
        /\ Sound(review) => Sound(solved)
        /\ \A old, act : Carried(old, review, act) => Carried(old, solved, act)
    <2>1. Solves(review, kept, at, solved)
      BY <1>1 DEF Solves
    <2> QED
      BY <1>3, <1>7, <2>1, SolvedIsSound
  <1>9. \A d \in drawn : \E x \in rectangle :
           d = [reading |-> x, at |-> review.readings[x].at, made |-> at]
    BY <1>1 DEF Drawing
  <1>10. drawn \subseteq [reading : Readings, at : Nat, made : Nat]
    BY <1>3, <1>5, <1>9
  <1>11. lines \subseteq before.lines /\ lines = {l \in lines : l.accepted}
    BY <1>1 DEF Preserved
  <1>12. PICK issues : issues = Frozen(review.calibration, lines, kept)
    OBVIOUS
  <1>13. /\ issues \subseteq {"CALIBRATION_SUPERSEDED", "READING_DECISION_SUPERSEDED"}
         /\ lines # {} /\ "CALIBRATION_SUPERSEDED" \notin issues => kept # Uncalibrated
    BY <1>12 DEF Frozen
  <1>14. /\ scene \in SceneRevision /\ scene.frame = frame
         /\ scene.drawn = drawn /\ scene.lines = lines /\ scene.issues = issues
    BY <1>1, <1>3, <1>6, <1>10, <1>11, <1>12, <1>13 DEF SceneRevision
  <1>15. Thawed(base, before, scene)
    <2>1. Preserved(scene) = lines
      BY <1>11, <1>14 DEF Preserved
    <2> QED
      BY <1>1, <1>7, <1>13, <1>14, <2>1 DEF Thawed
  <1>16. Carried(base, solved, request[r].act)
    BY <1>1, <1>8
  <1>17. ASSUME request[r].review = Len(reviews), request[r].scene = Len(scenes)
         PROVE  /\ Agree(solved, scene) /\ Sound(solved)
                /\ Fitting(solved, scenes \o <<scene>>)
    <2>1. Agree(base, before) /\ Sound(base)
      BY <1>3, <1>17 DEF IInv
    <2>2. Sound(review) /\ Sound(solved)
      BY <1>1, <1>8, <2>1
    <2>3. Draws(solved, scene)
      <3>1. \A d \in drawn : d.at # 0 /\ d.at = review.readings[d.reading].at
        BY <1>5, <1>9, <2>2 DEF Sound, Dated, Outcomes, Confirmed
      <3>2. ASSUME NEW d \in drawn, NEW e \in drawn, d.reading = e.reading
            PROVE  d = e
        BY <1>9, <3>2
      <3> QED
        BY <1>8, <1>14, <3>1, <3>2 DEF Draws
    <2>4. Lines(solved, scene)
      <3>1. solved.decided = base.decided
        BY <1>1, <1>8
      <3> QED
        BY <1>11, <1>14, <2>1, <3>1 DEF Agree, Lines
    <2>5. PICK longer : longer = scenes \o <<scene>>
      OBVIOUS
    <2>6. /\ Len(longer) = Len(scenes) + 1 /\ longer[Len(scenes) + 1] = scene
      BY <1>4, <1>14, <2>5, OneMore
    <2>8. at = Len(scenes) + 1
      BY <1>1, <1>17 DEF NextScene
    <2>7. Fitting(solved, longer)
      BY <1>4, <1>7, <1>8, <1>14, <2>6, <2>8 DEF Fitting
    <2> QED
      BY <2>2, <2>3, <2>4, <2>5, <2>7 DEF Agree
  <1> QED
    BY <1>1, <1>2, <1>8, <1>14, <1>15, <1>16, <1>17, BothCommit

LEMMA DecideKeeps ==
    ASSUME IInv, NEW r \in Request, SubmitReviewDecisions(r)
    PROVE  IInv' /\ Keeps(r)
  <1>1. request[r].pc = "ready"
    BY DEF SubmitReviewDecisions, Ready
  <1>0. PICK x \in Readings, outcome \in Outcomes :
          \E base, review :
             /\ base = BaseReview(r) /\ review = Decided(r, x, outcome)
             /\ base.readings[x].at = 0
             /\ IF Solvable(review)
                THEN Extend(r, <<SolvedReview(r, review)>>, <<SolvedScene(r, review)>>)
                ELSE AppendReview(r, [review EXCEPT !.scene = 0])
    BY DEF SubmitReviewDecisions
  <1>2. PICK base, review :
           /\ base = BaseReview(r) /\ review = Decided(r, x, outcome)
           /\ base.readings[x].at = 0
           /\ IF Solvable(review)
              THEN Extend(r, <<SolvedReview(r, review)>>, <<SolvedScene(r, review)>>)
              ELSE AppendReview(r, [review EXCEPT !.scene = 0])
    BY <1>0
  <1>3. /\ base \in Review
        /\ request[r].review = Len(reviews) => base = Current(reviews)
    BY <1>1, <1>2, AtCommit
  <1>4. /\ review \in Review
        /\ \A y \in Readings : y # x => review.readings[y] = base.readings[y]
        /\ review.decided = base.decided
        /\ review.calibration = base.calibration /\ review.snapshot = base.snapshot
        /\ Sound(base) => Sound(review)
        /\ \A act : Carried(base, review, act)
    BY <1>1, <1>2, OneDecided
  <1>5. CASE Solvable(review)
    BY <1>1, <1>2, <1>4, <1>5, SolvedCommits
  <1>6. CASE ~Solvable(review)
    <2>1. PICK unsolved : unsolved = [review EXCEPT !.scene = 0]
      OBVIOUS
    <2>2. AppendReview(r, unsolved)
      BY <1>2, <1>6, <2>1
    <2>3. unsolved \in Review /\ Moved(review, unsolved, 0)
      BY <1>4, <2>1 DEF Review, Moved
    <2>4. Carried(base, unsolved, request[r].act)
      BY <1>4, <2>3 DEF Carried, Moved
    <2>5. ASSUME request[r].review = Len(reviews)
          PROVE  /\ Agree(unsolved, LatestScene) /\ Sound(unsolved) /\ Fitting(unsolved, scenes)
      <3>1. /\ Agree(base, LatestScene) /\ Sound(base) /\ Fitting(base, scenes)
            /\ scenes \in Seq(SceneRevision)
        BY <1>3, <2>5 DEF IInv, TypeOK
      <3>2. LatestScene \in SceneRevision /\ Len(scenes) \in Nat
        BY <3>1, EmptyChain, NoSceneIsOne DEF LatestScene, Current
      <3>3. \A d \in LatestScene.drawn :
               /\ d.reading \in Readings /\ d.at # 0
               /\ \/ d.at = base.readings[d.reading].at
                  \/ "READING_DECISION_SUPERSEDED" \in LatestScene.issues
        BY <3>1, <3>2 DEF Agree, Draws, SceneRevision
      <3>4. ASSUME NEW d \in LatestScene.drawn
            PROVE  \/ d.at = review.readings[d.reading].at
                   \/ "READING_DECISION_SUPERSEDED" \in LatestScene.issues
        <4>1. CASE d.reading = x
          BY <1>2, <3>3, <4>1
        <4>2. CASE d.reading # x
          BY <1>4, <3>3, <4>2
        <4> QED
          BY <4>1, <4>2
      <3>5. Draws(unsolved, LatestScene)
        BY <2>3, <3>1, <3>3, <3>4 DEF Agree, Draws, Moved
      <3>6. Lines(unsolved, LatestScene)
        BY <1>4, <2>3, <3>1 DEF Agree, Lines, Moved
      <3>7. Sound(unsolved)
        BY <1>4, <2>3, <3>1 DEF Sound, Dated, Moved
      <3>8. Fitting(unsolved, scenes)
        BY <1>4, <2>3, <3>1, <3>2 DEF Fitting, Moved
      <3> QED
        BY <3>5, <3>6, <3>7, <3>8 DEF Agree
    <2> QED
      BY <1>1, <1>2, <2>2, <2>3, <2>4, <2>5, ReviewCommits
  <1> QED
    BY <1>5, <1>6

LEMMA RectifyKeeps ==
    ASSUME IInv, NEW r \in Request, RectifyReviewDecisions(r)
    PROVE  IInv' /\ Keeps(r)
  <1>1. request[r].pc = "ready" /\ request[r].act = "rectify"
    BY DEF RectifyReviewDecisions, Ready
  <1>0. PICK x \in Readings, outcome \in Outcomes :
          \E base, review, held :
             /\ base = BaseReview(r) /\ review = Decided(r, x, outcome)
             /\ held = Superseded(r, base.readings[x].at)
             /\ IF Solvable(review)
                THEN Extend(r, <<SolvedReview(r, review)>>, <<SolvedScene(r, review)>>)
                ELSE Extend(r, <<IF held = <<>> THEN review
                                 ELSE [review EXCEPT !.scene = NextScene(r)]>>, held)
    BY DEF RectifyReviewDecisions
  <1>2. PICK base, review, held :
           /\ base = BaseReview(r) /\ review = Decided(r, x, outcome)
           /\ held = Superseded(r, base.readings[x].at)
           /\ IF Solvable(review)
              THEN Extend(r, <<SolvedReview(r, review)>>, <<SolvedScene(r, review)>>)
              ELSE Extend(r, <<IF held = <<>> THEN review
                               ELSE [review EXCEPT !.scene = NextScene(r)]>>, held)
    BY <1>0
  <1>3. PICK before, at : before = BaseScene(r) /\ at = NextScene(r)
    OBVIOUS
  <1>4. /\ base \in Review /\ before \in SceneRevision /\ at \in Nat
        /\ request[r].review = Len(reviews) => base = Current(reviews)
        /\ request[r].scene = Len(scenes) => before = LatestScene
    BY <1>1, <1>2, <1>3, AtCommit
  <1>5. /\ review \in Review
        /\ \A y \in Readings : y # x => review.readings[y] = base.readings[y]
        /\ review.decided = base.decided /\ review.scene = base.scene
        /\ review.calibration = base.calibration /\ review.snapshot = base.snapshot
        /\ Sound(base) => Sound(review)
        /\ \A act : Carried(base, review, act)
    BY <1>1, <1>2, OneDecided
  <1>6. CASE Solvable(review)
    BY <1>1, <1>2, <1>5, <1>6, SolvedCommits
  <1>7. CASE ~Solvable(review) /\ ~\E d \in before.drawn : d.at = base.readings[x].at
    <2>1. held = <<>>
      BY <1>2, <1>3, <1>7 DEF Superseded, Holding
    <2>2. AppendReview(r, review)
      BY <1>2, <1>7, <2>1 DEF AppendReview
    <2>3. ASSUME request[r].review = Len(reviews)
          PROVE  /\ Agree(review, LatestScene) /\ Sound(review) /\ Fitting(review, scenes)
      <3>1. /\ Agree(base, LatestScene) /\ Sound(base) /\ Fitting(base, scenes)
        BY <1>4, <2>3 DEF IInv
      <3>2. before = LatestScene
        BY <1>1, <1>3, <2>3 DEF IInv, Beheld, LooksAtScene
      <3>3. \A d \in before.drawn :
               /\ d.reading \in Readings /\ d.at # 0 /\ d.at # base.readings[x].at
               /\ \/ d.at = base.readings[d.reading].at
                  \/ "READING_DECISION_SUPERSEDED" \in before.issues
        BY <1>4, <1>7, <3>1, <3>2 DEF Agree, Draws, SceneRevision
      <3>4. ASSUME NEW d \in before.drawn
            PROVE  \/ d.at = review.readings[d.reading].at
                   \/ "READING_DECISION_SUPERSEDED" \in before.issues
        <4>1. CASE d.reading = x
          BY <3>3, <4>1
        <4>2. CASE d.reading # x
          BY <1>5, <3>3, <4>2
        <4> QED
          BY <4>1, <4>2
      <3>5. Draws(review, LatestScene)
        BY <3>1, <3>2, <3>3, <3>4 DEF Agree, Draws
      <3>6. Lines(review, LatestScene)
        BY <1>5, <3>1 DEF Agree, Lines
      <3>7. Fitting(review, scenes)
        BY <1>5, <3>1 DEF Fitting
      <3> QED
        BY <1>5, <3>1, <3>5, <3>6, <3>7 DEF Agree
    <2> QED
      BY <1>1, <1>2, <1>5, <2>2, <2>3, ReviewCommits
  <1>8. CASE ~Solvable(review) /\ \E d \in before.drawn : d.at = base.readings[x].at
    <2>1. PICK after :
             after = [before EXCEPT !.issues = @ \cup {"READING_DECISION_SUPERSEDED"}]
      OBVIOUS
    <2>2. held = <<after>>
      BY <1>2, <1>3, <1>8, <2>1 DEF Superseded, Holding
    <2>3. PICK unsolved : unsolved = [review EXCEPT !.scene = at]
      OBVIOUS
    <2>4. Extend(r, <<unsolved>>, <<after>>)
      BY <1>2, <1>3, <1>8, <2>2, <2>3
    <2>5. unsolved \in Review /\ Moved(review, unsolved, at)
      BY <1>4, <1>5, <2>3 DEF Review, Moved
    <2>6. Carried(base, unsolved, request[r].act)
      BY <1>5, <2>5 DEF Carried, Moved
    <2>7. /\ after \in SceneRevision
          /\ after.drawn = before.drawn /\ after.lines = before.lines
          /\ after.issues = before.issues \cup {"READING_DECISION_SUPERSEDED"}
      BY <1>4, <2>1 DEF SceneRevision
    <2>8. Thawed(base, before, after)
      BY <2>7 DEF Thawed
    <2>9. ASSUME request[r].review = Len(reviews), request[r].scene = Len(scenes)
          PROVE  /\ Agree(unsolved, after) /\ Sound(unsolved)
                 /\ Fitting(unsolved, scenes \o <<after>>)
      <3>1. /\ Agree(base, before) /\ Sound(base) /\ Fitting(base, scenes)
            /\ scenes \in Seq(SceneRevision)
        BY <1>4, <2>9 DEF IInv, TypeOK
      <3>2. Draws(unsolved, after)
        BY <2>7, <3>1 DEF Agree, Draws
      <3>3. Lines(unsolved, after)
        BY <1>5, <2>5, <2>7, <3>1 DEF Agree, Lines, Moved
      <3>4. Sound(unsolved)
        BY <1>5, <2>5, <3>1 DEF Sound, Dated, Moved
      <3>5. /\ unsolved.calibration = base.calibration /\ unsolved.snapshot = base.snapshot
            /\ unsolved.scene = Len(scenes) + 1
        BY <1>3, <1>5, <2>5, <2>9 DEF Moved, NextScene
      <3>6. Fitting(unsolved, scenes \o <<after>>)
        BY <1>4, <2>7, <3>1, <3>5, FittingNext
      <3> QED
        BY <3>2, <3>3, <3>4, <3>6 DEF Agree
    <2> QED
      BY <1>1, <1>2, <1>3, <2>4, <2>5, <2>6, <2>7, <2>8, <2>9, BothCommit
  <1> QED
    BY <1>6, <1>7, <1>8

-----------------------------------------------------------------------------
(* The snapshot refreshed.                                                   *)

\* What the column of the calibration holds.
Calibration == [made : Nat, scene : Nat, frame : Frame, snapshot : Nat]

\* What a refresh leaves of a review.
LEMMA Refreshing ==
    ASSUME NEW base \in Review, NEW snapshot \in Nat, NEW at \in Nat,
           NEW kept \in Calibration, NEW review, review = Refreshed(base, snapshot, kept, at)
    PROVE  /\ review \in Review /\ \A act : Carried(base, review, act)
           /\ review.readings = base.readings /\ review.decided = base.decided
           /\ review.calibration = kept /\ review.snapshot = snapshot /\ review.scene = at
           /\ Sound(base) => Sound(review)
  <1>1. PICK whole :
           whole = [base EXCEPT !.snapshot = snapshot, !.calibration = kept, !.scene = at]
    OBVIOUS
  <1>2. review = [whole EXCEPT !.corrections = {}]
    BY <1>1 DEF Refreshed, WithoutCorrections
  <1>3. /\ whole \in Review
        /\ whole.readings = base.readings /\ whole.decided = base.decided
        /\ whole.calibration = kept /\ whole.snapshot = snapshot /\ whole.scene = at
        /\ whole.chains = base.chains /\ whole.witnesses = base.witnesses
        /\ whole.observations = base.observations /\ whole.elements = base.elements
    BY <1>1 DEF Review, Calibration
  <1>4. /\ review \in Review
        /\ review.readings = base.readings /\ review.decided = base.decided
        /\ review.calibration = kept /\ review.snapshot = snapshot /\ review.scene = at
        /\ review.chains = base.chains /\ review.witnesses = base.witnesses
        /\ review.observations = base.observations /\ review.elements = base.elements
    BY <1>2, <1>3 DEF Review
  <1>5. \A act : Carried(base, review, act)
    BY <1>4 DEF Carried, Review
  <1>6. Sound(base) => Sound(review)
    BY <1>4 DEF Sound, Dated
  <1> QED
    BY <1>4, <1>5, <1>6

LEMMA RefreshKeeps ==
    ASSUME IInv, NEW r \in Request, RefreshProposals(r)
    PROVE  IInv' /\ Keeps(r)
  <1>1. request[r].pc = "ready"
    BY DEF RefreshProposals, Ready
  <1>2. PICK base, before, at, next :
           /\ base = BaseReview(r) /\ before = BaseScene(r) /\ at = request[r].scene
           /\ next = NextScene(r)
    OBVIOUS
  <1>3. /\ base \in Review /\ before \in SceneRevision /\ next \in Nat
        /\ NextReview(r) \in Nat
        /\ at \in 0..Len(scenes) /\ (at # 0 => before = scenes[at])
        /\ request[r].review = Len(reviews) => base = Current(reviews)
        /\ at = Len(scenes) => before = LatestScene
    BY <1>1, <1>2, AtCommit
  <1>4. scenes \in Seq(SceneRevision) /\ Len(scenes) \in Nat /\ at \in Nat
    <2>1. scenes \in Seq(SceneRevision)
      BY DEF IInv, TypeOK
    <2>2. Len(scenes) \in Nat
      BY <2>1, EmptyChain
    <2> QED
      BY <1>3, <2>1, <2>2
  <1>0. PICK snapshot \in {base.snapshot, NextReview(r)} :
          \E kept, held, review :
             /\ kept = IF at = 0 THEN Uncalibrated
                       ELSE Revalidated(base.calibration, before.frame, snapshot, at)
             /\ held <=> /\ at # 0 /\ base.calibration # Uncalibrated /\ kept = Uncalibrated
                         /\ Preserved(before) # {}
             /\ review = Refreshed(base, snapshot, kept, IF held THEN next ELSE at)
             /\ Extend(r, <<review>>,
                       IF held
                       THEN <<[before EXCEPT !.issues = @ \cup {"CALIBRATION_SUPERSEDED"}]>>
                       ELSE <<>>)
    BY <1>2 DEF RefreshProposals
  <1>5. PICK kept, held, review :
           /\ kept = IF at = 0 THEN Uncalibrated
                     ELSE Revalidated(base.calibration, before.frame, snapshot, at)
           /\ held <=> /\ at # 0 /\ base.calibration # Uncalibrated /\ kept = Uncalibrated
                       /\ Preserved(before) # {}
           /\ review = Refreshed(base, snapshot, kept, IF held THEN next ELSE at)
           /\ Extend(r, <<review>>,
                     IF held
                     THEN <<[before EXCEPT !.issues = @ \cup {"CALIBRATION_SUPERSEDED"}]>>
                     ELSE <<>>)
    BY <1>0
  <1>6. /\ snapshot \in Nat
        /\ base.calibration \in [made : Nat, scene : Nat, frame : Frame, snapshot : Nat]
        /\ before.frame \in Frame
    BY <1>3 DEF Review, SceneRevision
  <1>7. /\ kept \in [made : Nat, scene : Nat, frame : Frame, snapshot : Nat]
        /\ kept # Uncalibrated =>
              /\ at # 0 /\ kept.frame = before.frame
              /\ kept.snapshot = snapshot /\ kept.scene = at
    <2>1. CASE at = 0
      BY <1>5, <2>1, NoSceneIsOne DEF Uncalibrated
    <2>2. CASE at # 0
      <3>1. kept = Revalidated(base.calibration, before.frame, snapshot, at)
        BY <1>5, <2>2
      <3> QED
        BY <1>4, <1>6, <2>2, <3>1, Revalidating
    <2> QED
      BY <2>1, <2>2
  <1>8. ASSUME ~held
        PROVE  IInv' /\ Keeps(r)
    <2>1. review = Refreshed(base, snapshot, kept, at) /\ AppendReview(r, review)
      BY <1>5, <1>8 DEF AppendReview
    <2>2. /\ review \in Review /\ \A act : Carried(base, review, act)
          /\ review.readings = base.readings /\ review.decided = base.decided
          /\ review.calibration = kept /\ review.snapshot = snapshot /\ review.scene = at
          /\ Sound(base) => Sound(review)
      <3>1. /\ base \in Review /\ at \in Nat /\ snapshot \in Nat
            /\ kept \in Calibration /\ review = Refreshed(base, snapshot, kept, at)
        BY <1>3, <1>4, <1>6, <1>7, <2>1 DEF Calibration
      <3> QED
        BY <3>1, Refreshing
    <2>3. ASSUME request[r].review = Len(reviews)
          PROVE  /\ Agree(review, LatestScene) /\ Sound(review) /\ Fitting(review, scenes)
      <3>1. Agree(base, LatestScene) /\ Sound(base)
        BY <1>3, <2>3 DEF IInv
      <3>2. Agree(review, LatestScene)
        BY <2>2, <3>1 DEF Agree, Draws, Lines
      <3>3. Fitting(review, scenes)
        BY <1>3, <1>4, <1>7, <2>2 DEF Fitting
      <3> QED
        BY <2>2, <3>1, <3>2, <3>3
    <2> QED
      BY <1>1, <1>2, <2>1, <2>2, <2>3, ReviewCommits
  <1>9. ASSUME held
        PROVE  IInv' /\ Keeps(r)
    <2>1. PICK after : after = [before EXCEPT !.issues = @ \cup {"CALIBRATION_SUPERSEDED"}]
      OBVIOUS
    <2>2. /\ review = Refreshed(base, snapshot, kept, next)
          /\ Extend(r, <<review>>, <<after>>) /\ kept = Uncalibrated
      BY <1>5, <1>9, <2>1
    <2>3. /\ review \in Review /\ \A act : Carried(base, review, act)
          /\ review.readings = base.readings /\ review.decided = base.decided
          /\ review.calibration = kept /\ review.snapshot = snapshot /\ review.scene = next
          /\ Sound(base) => Sound(review)
      <3>1. /\ base \in Review /\ next \in Nat /\ snapshot \in Nat
            /\ kept \in Calibration /\ review = Refreshed(base, snapshot, kept, next)
        BY <1>3, <1>6, <1>7, <2>2 DEF Calibration
      <3> QED
        BY <3>1, Refreshing
    <2>4. /\ after \in SceneRevision
          /\ after.drawn = before.drawn /\ after.lines = before.lines
          /\ after.issues = before.issues \cup {"CALIBRATION_SUPERSEDED"}
      BY <1>3, <2>1 DEF SceneRevision
    <2>5. Thawed(base, before, after)
      BY <2>4 DEF Thawed
    <2>6. ASSUME request[r].review = Len(reviews), request[r].scene = Len(scenes)
          PROVE  /\ Agree(review, after) /\ Sound(review)
                 /\ Fitting(review, scenes \o <<after>>)
      <3>1. Agree(base, before) /\ Sound(base)
        BY <1>2, <1>3, <2>6 DEF IInv
      <3>2. Agree(review, after)
        BY <2>3, <2>4, <3>1 DEF Agree, Draws, Lines
      <3>3. PICK longer : longer = scenes \o <<after>>
        OBVIOUS
      <3>4. Len(longer) = Len(scenes) + 1
        BY <1>4, <2>4, <3>3, OneMore
      <3>5. next = Len(scenes) + 1
        BY <1>2, <2>6 DEF NextScene
      <3>6. Fitting(review, longer)
        BY <1>4, <2>2, <2>3, <3>4, <3>5 DEF Fitting
      <3> QED
        BY <2>3, <3>1, <3>2, <3>3, <3>6
    <2> QED
      BY <1>1, <1>2, <2>2, <2>3, <2>4, <2>5, <2>6, BothCommit
  <1> QED
    BY <1>8, <1>9

-----------------------------------------------------------------------------
(* The invariant holds.                                                      *)

LEMMA AtFirst ==
    ASSUME ConstantsAssumption, Init
    PROVE  IInv
  <1>1. PICK s \in Scenario :
           /\ rectangle = s.rectangle /\ left = s.acts
           /\ reviews = <<FirstReview>> /\ scenes = <<>>
           /\ request = [r \in Request |-> Waiting]
    BY DEF Init
  <1>2. rectangle \subseteq Readings /\ left \in [Act -> Nat]
    BY <1>1 DEF ConstantsAssumption
  <1>3. FirstReview \in Review
    <2>1. /\ [x \in Readings |-> Undecided] \in
                [Readings -> [at : Nat, outcome : Outcomes \cup {"none"}]]
          /\ [p \in Proposals |-> "open"] \in [Proposals -> {"open", "accept", "reject"}]
      BY DEF Undecided
    <2>2. Uncalibrated \in [made : Nat, scene : Nat, frame : Frame, snapshot : Nat]
      BY NoSceneIsOne DEF Uncalibrated
    <2>3. /\ <<>> \in Seq([at : Nat, status : {"ACTIVE", "SUPERSEDED", "DISMISSED"}])
          /\ <<>> \in Seq([at : Nat, label : Labels \cup {""}, group : SUBSET Proposals,
                           active : BOOLEAN])
      BY EmptySeq
    <2> QED
      BY <2>1, <2>2, <2>3 DEF FirstReview, Review
  <1>4. /\ reviews \in Seq(Review) /\ Len(reviews) = 1 /\ Current(reviews) = FirstReview
        /\ scenes \in Seq(SceneRevision) /\ Len(scenes) = 0 /\ LatestScene = NoScene
    BY <1>1, <1>3 DEF Current, LatestScene
  <1>5. Waiting \in [pc : {"idle", "look", "ready"}, act : Act \cup {"none"}, review : Nat,
                     scene : Nat]
    BY DEF Waiting
  <1>6. \A r \in Request : request[r].pc = "idle"
    BY <1>1 DEF Waiting
  <1>7. TypeOK
    BY <1>1, <1>2, <1>4, <1>5 DEF TypeOK
  <1>8. Bases /\ Beheld
    BY <1>4, <1>6 DEF Bases, Beheld
  <1>9. Agree(FirstReview, NoScene)
    BY DEF Agree, Draws, Lines, NoScene
  <1>10. Sound(FirstReview)
    <2>1. \A x \in Readings : FirstReview.readings[x].outcome = "none"
      BY DEF FirstReview, Undecided
    <2>2. Dated(FirstReview)
      BY <2>1 DEF Dated, Outcomes, Confirmed, Measured
    <2>3. FirstReview.observations = <<>> /\ FirstReview.elements = <<>>
      BY DEF FirstReview
    <2> QED
      BY <2>2, <2>3, NoneApart DEF Sound
  <1>11. Fitting(FirstReview, scenes)
    BY <1>4 DEF Fitting, FirstReview
  <1> QED
    BY <1>4, <1>7, <1>8, <1>9, <1>10, <1>11 DEF IInv

LEMMA CommitKeeps ==
    ASSUME IInv, NEW r \in Request, Commit(r)
    PROVE  IInv' /\ Keeps(r)
  BY SceneCommits, DecideKeeps, RectifyKeeps, ChainKeeps, WitnessKeeps, ObserveKeeps,
     DeclareKeeps, RevokeKeeps, RelabelKeeps, CalibrateKeeps, ProposeKeeps, CorrectKeeps,
     DimensionKeeps, NoteKeeps, TraceKeeps, RefreshKeeps
  DEF Commit

LEMMA StepKeeps ==
    ASSUME IInv, Next
    PROVE  IInv' /\ \E r \in Request : Keeps(r)
  <1>1. PICK r \in Request :
           \/ LookAtScene(r) \/ Refuse(r) \/ Commit(r)
           \/ \E act \in Act : Begin(r, act)
    BY DEF Next
  <1> QED
    BY <1>1, LookKeeps, RefuseKeeps, CommitKeeps, BeginKeeps

LEMMA StutterKeeps ==
    ASSUME IInv, UNCHANGED vars
    PROVE  IInv'
  BY DEF vars, IInv, TypeOK, Bases, Beheld, BaseScene, LatestScene, Current

\* The invariant is inductive.
THEOREM Invariance == Spec => []IInv
  <1>1. Init => IInv
    BY ConstantsAssumption, AtFirst
  <1>2. IInv /\ [Next]_vars => IInv'
    BY StepKeeps, StutterKeeps
  <1> QED
    BY <1>1, <1>2, PTL DEF Spec

-----------------------------------------------------------------------------
(* What the runs check, for every instance.                                  *)

\* Documents the code can read: typed, with one observation of the photo in force, elements
\* apart, and no reading drawn twice, however the seventeen acts cross.
THEOREM DocumentsAreWellFormed == Spec => []WellFormed
  <1>1. ASSUME IInv PROVE WellFormed
    <2>1. Agree(Current(reviews), LatestScene) /\ Sound(Current(reviews)) /\ TypeOK
      BY <1>1 DEF IInv
    <2>2. OneActiveObservation
      BY <2>1 DEF Sound, OneActive, OneActiveObservation
    <2>3. ElementsApart
      BY <2>1 DEF Sound, Apart, ElementsApart, ActiveElements
    <2>4. DrawnOnce
      BY <2>1 DEF Agree, Draws, DrawnOnce
    <2> QED
      BY <2>1, <2>2, <2>3, <2>4 DEF WellFormed
  <1> QED
    BY Invariance, <1>1, PTL

\* What the head scene draws is drawn from the decision in force, or the scene is held back
\* (_resolve_scene_after_review_change, rectify_review_decisions, _annotation_target).
THEOREM DrawingsFollowDecisions == Spec => []DrawnFromForce
  <1>1. ASSUME IInv PROVE DrawnFromForce
    BY <1>1 DEF IInv, Agree, Draws, DrawnFromForce
  <1> QED
    BY Invariance, <1>1, PTL

\* The head scene has one line of a proposal at most, and the head review its acceptance
\* (decide_proposal, decide_proposal_batch).
THEOREM LinesStandOnDecisions == Spec => []LinesAreDecided
  <1>1. ASSUME IInv PROVE LinesAreDecided
    BY <1>1 DEF IInv, Agree, Lines, LinesAreDecided
  <1> QED
    BY Invariance, <1>1, PTL

\* The calibration in force was solved on the snapshot in force and on the geometry of the
\* scene it names (revalidate_calibration, create_proposal_calibration, refresh_proposals).
THEOREM CalibrationStands == Spec => []CalibrationFitsItsScene
  <1>1. ASSUME IInv PROVE CalibrationFitsItsScene
    BY <1>1 DEF IInv, Fitting, CalibrationFitsItsScene
  <1> QED
    BY Invariance, <1>1, PTL

\* Lines held back are let go by nothing but a calibration
\* (_resolve_scene_after_review_change).
THEOREM LinesStayFrozen == Spec => FrozenUntilRecalibrated
  <1>1. ASSUME IInv, [Next]_vars
        PROVE  [/\ "CALIBRATION_SUPERSEDED" \in LatestScene.issues \ LatestScene'.issues
                /\ Preserved(LatestScene') # {}
                => Current(reviews).calibration # Uncalibrated]_vars
    BY <1>1, StepKeeps DEF Keeps, Thawed
  <1> QED
    BY Invariance, <1>1, PTL DEF Spec, FrozenUntilRecalibrated

\* A commit leaves its writer idle.
LEMMA CommitEnds ==
    ASSUME NEW r \in Request, Commit(r)
    PROVE  request[r].pc = "ready" /\ request' = [request EXCEPT ![r] = Waiting]
  <1>1. CASE CreateRevision(r) \/ SubmitReviewDecisions(r) \/ RectifyReviewDecisions(r)
    BY <1>1 DEF CreateRevision, SubmitReviewDecisions, RectifyReviewDecisions, Ready, Extend,
       AppendReview, Seen
  <1>2. CASE DeclareReviewChain(r) \/ MutateReviewWitnesses(r)
             \/ MutateReviewFieldObservations(r)
    BY <1>2 DEF DeclareReviewChain, MutateReviewWitnesses, MutateReviewFieldObservations, Ready,
       Extend, AppendReview, Seen
  <1>3. CASE DeclareReviewElement(r) \/ RevokeReviewElement(r) \/ RelabelReviewElement(r)
    BY <1>3 DEF DeclareReviewElement, RevokeReviewElement, RelabelReviewElement, Ready, Extend,
       AppendReview, Seen
  <1>4. CASE CreateProposalCalibration(r) \/ DecideProposal(r) \/ DecideProposalBatch(r)
             \/ CorrectProposalShape(r)
    BY <1>4 DEF CreateProposalCalibration, DecideProposal, DecideProposalBatch, DecideGroup,
       CorrectProposalShape, Ready, Extend, AppendReview, Seen
  <1>5. CASE AnnotateDimension(r) \/ AnnotateNote(r)
    BY <1>5 DEF AnnotateDimension, AnnotateNote, Annotated, Ready, Extend, Seen
  <1>6. CASE LandTrace(r) \/ RefreshProposals(r)
    BY <1>6 DEF LandTrace, RefreshProposals, Ready, Extend, Seen
  <1> QED
    BY <1>1, <1>2, <1>3, <1>4, <1>5, <1>6 DEF Commit

\* Chains, witnesses, observations and decisions on proposals travel to every revision;
\* only a retraction takes one away (_carried_review_context).
THEOREM RecordsAreCarried == Spec => RecordsTravel
  <1> DEFINE Retracts(act) == \E r \in Request : Ready(r, act) /\ request'[r] # request[r]
  <1>1. ASSUME IInv, [Next]_vars, vars' # vars
        PROVE  /\ \/ Current(reviews).chains \subseteq Current(reviews').chains
                  \/ Retracts("chain")
               /\ \/ Current(reviews).witnesses \subseteq Current(reviews').witnesses
                  \/ Retracts("witness")
               /\ \A i \in DOMAIN Current(reviews).observations :
                     Current(reviews').observations[i].at = Current(reviews).observations[i].at
               /\ \A p \in Proposals :
                     Current(reviews).decided[p] \in {"open", Current(reviews').decided[p]}
    <2>1. CASE reviews' = reviews
      <3>1. Carried(Current(reviews), Current(reviews'), "none")
        BY <2>1, Reflexive
      <3> QED
        BY <3>1 DEF Carried
    <2>2. CASE reviews' # reviews
      <3>1. PICK r \in Request : Commit(r)
        BY <1>1, <2>2 DEF Next, LookAtScene, Refuse, Begin, vars
      <3>2. /\ request[r].pc = "ready" /\ request'[r].pc = "idle"
            /\ Carried(Current(reviews), Current(reviews'), request[r].act)
        BY <1>1, <3>1, CommitEnds, CommitKeeps, Done DEF Keeps
      <3>3. /\ request[r].act = "chain" => Retracts("chain")
            /\ request[r].act = "witness" => Retracts("witness")
        BY <3>2 DEF Ready
      <3> QED
        BY <3>2, <3>3 DEF Carried
    <2> QED
      BY <2>1, <2>2
  <1>2. ASSUME IInv, [Next]_vars
        PROVE  [LET old == Current(reviews)
                    new == Current(reviews')
                    Commits(act) == \E r \in Request : Ready(r, act) /\ request'[r] # request[r]
                IN  /\ old.chains \subseteq new.chains \/ Commits("chain")
                    /\ old.witnesses \subseteq new.witnesses \/ Commits("witness")
                    /\ \A i \in DOMAIN old.observations :
                          new.observations[i].at = old.observations[i].at
                    /\ \A p \in Proposals : old.decided[p] \in {"open", new.decided[p]}]_vars
    BY <1>1, <1>2
  <1> QED
    BY Invariance, <1>2, PTL DEF Spec, RecordsTravel
===============================================================================
