---------------------------- MODULE PagePartsProofs ----------------------------
(***************************************************************************)
(* Proofs about parts of the application's pages, for any capabilities,    *)
(* any number of profiles, samples, records, candidates, games, hosts and  *)
(* calls: the negotiation and the quality of StreamQuality, PeerExchange,  *)
(* PageHandoff, BrowserEmulation, Library, HostPages and DiagnosticLog,    *)
(* and what their sum MCPageParts states of them.                          *)
(***************************************************************************)
EXTENDS MCPageParts, FiniteSetTheorems, SequenceTheorems, WellFoundedInduction, TLAPS

-----------------------------------------------------------------------------
(***************************************************************************)
(* The negotiation.  The host has taken the first of the player's choices  *)
(* that it has; of a list with that one item the player takes the same, so *)
(* that the second negotiation repeats the first.                          *)
(***************************************************************************)
Field == ListField \cup LimitField \cup SwitchField \cup OptionField

AgreementInv ==
  /\ player \in Capabilities /\ server \in Capabilities /\ Valid(server)
  /\ phase \in {"idle", "preparing", "negotiating", "connected", "refused"}
  /\ phase \in {"negotiating", "connected", "refused"} => Valid(player)
  /\ answer \in {NoAnswer, [accepted |-> FALSE, capabilities |-> <<"refused">>],
                 [accepted |-> TRUE, capabilities |-> Negotiate(player, server)]}
  /\ answer.accepted => Compatible(player, server) /\ Valid(player)
  /\ answer.accepted \/ answer = NoAnswer \/ ~Compatible(player, server)
  /\ phase = "connected" => /\ answer.accepted
                            /\ negotiated = Negotiate(player, answer.capabilities)
                            /\ notices = Notices(player, negotiated)
  /\ phase = "refused" => answer # NoAnswer /\ ~(answer.accepted /\ Compatible(player, answer.capabilities))

\* A set of numbers has a least one.
LEMMA LeastNumber ==
  ASSUME NEW S \in SUBSET Nat, S # {} PROVE \E i \in S : \A j \in S : i <= j
<1>1. PICK i \in S : \A j \in S : ~(<<j, i>> \in OpToRel(<, Nat))
  BY WFMin, NatLessThanWellFounded, Zenon
<1>2. \A j \in S : ~(j < i)
  BY <1>1 DEF OpToRel
<1> QED BY <1>2

\* What is kept first is kept, and nothing before it is.
LEMMA FirstIsKept ==
  ASSUME NEW preferred, NEW n \in Nat, DOMAIN preferred = 1..n, NEW other,
         Intersect(preferred, other) # {}
  PROVE  \E k \in DOMAIN preferred :
           /\ First(preferred, other) = preferred[k] /\ preferred[k] \in Range(other)
           /\ \A i \in DOMAIN preferred : preferred[i] \in Range(other) => k <= i
<1> DEFINE places == Intersect(preferred, other)
<1>1. places \subseteq Nat /\ places # {}
  BY DEF Intersect
<1>2. \E k \in places : \A i \in places : k <= i
  BY <1>1, LeastNumber
<1> DEFINE k == CHOOSE i \in places : \A j \in places : i <= j
<1>3. k \in places /\ \A j \in places : k <= j
  <2> HIDE DEF places
  <2> QED BY <1>2
<1>4. First(preferred, other) = preferred[k]
  BY DEF First
<1> HIDE DEF k
<1> QED BY <1>3, <1>4 DEF Intersect

\* Lists are sequences of names.
LEMMA ListIs ==
  ASSUME NEW S, NEW s \in Lists(S)
  PROVE  \E n \in Nat : n >= 1 /\ s \in [1..n -> S] /\ DOMAIN s = 1..n
BY DEF Lists

LEMMA AgreementBegins == NegotiationInit => AgreementInv
BY DEF NegotiationInit, AgreementInv, Valid, NoAnswer

\* The steps of the two ends.
LEMMA AgreementGoesOn == AgreementInv /\ [NegotiationNext]_negotiationVars => AgreementInv'
<1> SUFFICES ASSUME AgreementInv, [NegotiationNext]_negotiationVars PROVE AgreementInv'
  OBVIOUS
<1>1. CASE UNCHANGED negotiationVars
  BY <1>1 DEF negotiationVars, AgreementInv
<1>2. CASE Offer
  BY <1>2 DEF Offer, AgreementInv
<1>3. CASE Answer
  BY <1>3 DEF Answer, AgreementInv, NoAnswer
<1>4. CASE ReceiveAnswer
  BY <1>4 DEF ReceiveAnswer, AgreementInv, NoAnswer
<1> QED BY <1>1, <1>2, <1>3, <1>4 DEF NegotiationNext

\* What is negotiated of a list is the first of the player's names that the host has; negotiated
\* again with the result, it stays so.
LEMMA ListSettles ==
  ASSUME NEW S, NEW mine \in Lists(S), NEW theirs \in Lists(S), Intersect(mine, theirs) # {}
  PROVE  LET first == First(mine, theirs)
         IN  /\ first \in Range(mine) /\ first \in Range(theirs)
             /\ \A i \in DOMAIN mine : mine[i] \in Range(theirs) =>
                  \E j \in 1..i : first = mine[j]
             /\ Intersect(mine, <<first>>) # {} /\ First(mine, <<first>>) = first
<1>1. PICK n \in Nat : DOMAIN mine = 1..n
  BY ListIs
<1>2. PICK k \in DOMAIN mine :
        /\ First(mine, theirs) = mine[k] /\ mine[k] \in Range(theirs)
        /\ \A i \in DOMAIN mine : mine[i] \in Range(theirs) => k <= i
  BY <1>1, FirstIsKept
<1> DEFINE first == First(mine, theirs)
<1>3. Range(<<first>>) = {first}
  BY DEF Range
<1>4. k \in Intersect(mine, <<first>>)
  BY <1>2, <1>3 DEF Intersect
<1>5. First(mine, <<first>>) = first
  <2>1. PICK l \in DOMAIN mine : First(mine, <<first>>) = mine[l] /\ mine[l] \in Range(<<first>>)
    BY <1>1, <1>4, FirstIsKept
  <2> QED BY <1>3, <2>1
<1>6. first \in Range(mine)
  BY <1>2 DEF Range
<1>7. \A i \in DOMAIN mine : mine[i] \in Range(theirs) => \E j \in 1..i : first = mine[j]
  BY <1>1, <1>2
<1> QED BY <1>2, <1>4, <1>5, <1>6, <1>7

\* The fields of a record of capabilities, by kind.
LEMMA FieldsAre ==
  ASSUME NEW c \in Capabilities
  PROVE  /\ DOMAIN c = Field
         /\ \A f \in ListField : \E S : c[f] \in Lists(S)
         /\ \A f \in LimitField : c[f] \in Int
         /\ \A f \in SwitchField : c[f] \in BOOLEAN
<1>1. /\ c.transports \in Lists(Transport) /\ c.codecs \in Lists(Codec) /\ c.sounds \in Lists(Sound)
      /\ c.size \in Int /\ c.slots \in Int /\ c.hdr \in BOOLEAN /\ c.rumble \in BOOLEAN
      /\ DOMAIN c = {"transports", "codecs", "sounds", "size", "slots", "hdr", "rumble", "backend", "mode"}
  BY DEF Capabilities
<1>2. \A f \in ListField : \E S : c[f] \in Lists(S)
  BY <1>1, Zenon DEF ListField
<1>3. DOMAIN c = Field
  BY <1>1 DEF Field, ListField, LimitField, SwitchField, OptionField
<1> QED BY <1>1, <1>2, <1>3 DEF LimitField, SwitchField

\* Two lists of one field are lists of the same names.
LEMMA SameNames ==
  ASSUME NEW c \in Capabilities, NEW d \in Capabilities, NEW f \in ListField
  PROVE  \E S : c[f] \in Lists(S) /\ d[f] \in Lists(S)
<1>1. /\ c.transports \in Lists(Transport) /\ c.codecs \in Lists(Codec) /\ c.sounds \in Lists(Sound)
      /\ d.transports \in Lists(Transport) /\ d.codecs \in Lists(Codec) /\ d.sounds \in Lists(Sound)
  BY DEF Capabilities
<1> QED BY <1>1, Zenon DEF ListField

\* What is agreed of a field, by its kind.
LEMMA AgreedIs ==
  ASSUME NEW f, NEW mine, NEW theirs
  PROVE  /\ f \in ListField => Agreed(f, mine, theirs) = <<First(mine, theirs)>>
         /\ f \in LimitField => Agreed(f, mine, theirs) = Least(mine, theirs)
         /\ f \in SwitchField => Agreed(f, mine, theirs) = (mine /\ theirs)
         /\ f \in OptionField => Agreed(f, mine, theirs) = IF mine = theirs THEN mine ELSE Automatic
<1>1. CASE f \in ListField
  BY <1>1 DEF Agreed, ListField, LimitField, SwitchField, OptionField
<1>2. CASE f \in LimitField
  BY <1>2 DEF Agreed, ListField, LimitField, SwitchField, OptionField
<1>3. CASE f \in SwitchField
  BY <1>3 DEF Agreed, ListField, LimitField, SwitchField, OptionField
<1>4. CASE f \in OptionField
  BY <1>4 DEF Agreed, ListField, LimitField, SwitchField, OptionField
<1> QED BY <1>1, <1>2, <1>3, <1>4

\* What the player makes of an answer that accepts is the answer.
LEMMA AnswerIsResult ==
  ASSUME NEW mine \in Capabilities, NEW theirs \in Capabilities, Compatible(mine, theirs)
  PROVE  /\ Compatible(mine, Negotiate(mine, theirs))
         /\ Negotiate(mine, Negotiate(mine, theirs)) = Negotiate(mine, theirs)
<1> DEFINE result == Negotiate(mine, theirs)
<1>1. DOMAIN mine = Field /\ \A f \in Field : result[f] = Agreed(f, mine[f], theirs[f])
  BY FieldsAre DEF Negotiate
<1>2. ASSUME NEW f \in ListField
      PROVE  Intersect(mine[f], result[f]) # {} /\ Agreed(f, mine[f], result[f]) = result[f]
  <2>1. PICK S : mine[f] \in Lists(S) /\ theirs[f] \in Lists(S)
    BY SameNames
  <2>2. Intersect(mine[f], theirs[f]) # {}
    BY DEF Compatible
  <2>3. result[f] = <<First(mine[f], theirs[f])>>
    BY <1>1, AgreedIs DEF Field
  <2>4. /\ Intersect(mine[f], <<First(mine[f], theirs[f])>>) # {}
        /\ First(mine[f], <<First(mine[f], theirs[f])>>) = First(mine[f], theirs[f])
    BY <2>1, <2>2, ListSettles
  <2>5. Agreed(f, mine[f], result[f]) = <<First(mine[f], result[f])>>
    BY AgreedIs
  <2> HIDE DEF result
  <2> QED BY <2>3, <2>4, <2>5
<1>3. ASSUME NEW f \in Field PROVE Agreed(f, mine[f], result[f]) = result[f]
  <2>1. result[f] = Agreed(f, mine[f], theirs[f])
    BY <1>1
  <2> HIDE DEF result
  <2>2. CASE f \in ListField
    BY <1>2, <2>2
  <2>3. CASE f \in LimitField
    <3>1. mine[f] \in Int /\ theirs[f] \in Int
      BY <2>3, FieldsAre
    <3>2. result[f] = Least(mine[f], theirs[f])
          /\ Agreed(f, mine[f], result[f]) = Least(mine[f], result[f])
      BY <2>1, <2>3, AgreedIs
    <3> QED BY <3>1, <3>2 DEF Least
  <2>4. CASE f \in SwitchField
    <3>2. result[f] = (mine[f] /\ theirs[f])
          /\ Agreed(f, mine[f], result[f]) = (mine[f] /\ result[f])
      BY <2>1, <2>4, AgreedIs
    <3> QED BY <3>2
  <2>5. CASE f \in OptionField
    <3>2. result[f] = (IF mine[f] = theirs[f] THEN mine[f] ELSE Automatic)
          /\ Agreed(f, mine[f], result[f]) = IF mine[f] = result[f] THEN mine[f] ELSE Automatic
      BY <2>1, <2>5, AgreedIs
    <3> QED BY <3>2
  <2> QED BY <2>2, <2>3, <2>4, <2>5 DEF Field
<1>4. Compatible(mine, result)
  <2>1. Valid(mine) /\ Valid(theirs)
    BY DEF Compatible
  <2>2. result.backend = IF mine.backend = theirs.backend THEN mine.backend ELSE Automatic
    BY <1>1, AgreedIs DEF Field, OptionField
  <2>3. Valid(result)
    BY <2>1, <2>2, NegotiationAssumption DEF Valid
  <2> HIDE DEF result
  <2> QED BY <1>2, <2>1, <2>3 DEF Compatible
<1>5. Negotiate(mine, result) = [f \in Field |-> result[f]]
  <2>1. Negotiate(mine, result) = [f \in Field |-> Agreed(f, mine[f], result[f])]
    BY <1>1 DEF Negotiate
  <2> HIDE DEF result
  <2> QED BY <1>3, <2>1
<1>6. result = [f \in Field |-> result[f]]
  BY <1>1 DEF Negotiate
<1> HIDE DEF result
<1>7. Negotiate(mine, result) = result
  BY <1>5, <1>6
<1> QED BY <1>4, <1>7 DEF result

\* The result of two compatible records is within both, and the notices are the differences in
\* the fields that the page looks at.
LEMMA ResultIsTold ==
  ASSUME NEW mine \in Capabilities, NEW theirs \in Capabilities, Compatible(mine, theirs)
  PROVE  LET result == Negotiate(mine, theirs)
         IN  /\ Within(result, mine) /\ Within(result, theirs)
             /\ \A f \in ListField : \A i \in DOMAIN mine[f] :
                  mine[f][i] \in Range(theirs[f]) => \E j \in 1..i : result[f] = <<mine[f][j]>>
             /\ Notices(mine, result) =
                  {f \in Told : IF f \in ListField THEN result[f][1] # mine[f][1] ELSE result[f] # mine[f]}
<1> DEFINE result == Negotiate(mine, theirs)
<1>1. DOMAIN mine = Field /\ \A f \in Field : result[f] = Agreed(f, mine[f], theirs[f])
  BY FieldsAre DEF Negotiate
<1> HIDE DEF result
<1>2. ASSUME NEW f \in ListField
      PROVE  /\ Range(result[f]) \subseteq Range(mine[f]) /\ Range(result[f]) \subseteq Range(theirs[f])
             /\ \A i \in DOMAIN mine[f] :
                  mine[f][i] \in Range(theirs[f]) => \E j \in 1..i : result[f] = <<mine[f][j]>>
  <2>1. PICK S : mine[f] \in Lists(S) /\ theirs[f] \in Lists(S)
    BY SameNames
  <2>2. Intersect(mine[f], theirs[f]) # {}
    BY DEF Compatible
  <2> DEFINE first == First(mine[f], theirs[f])
  <2>3. result[f] = <<first>>
    BY <1>1, AgreedIs DEF Field
  <2>4. /\ first \in Range(mine[f]) /\ first \in Range(theirs[f])
        /\ \A i \in DOMAIN mine[f] : mine[f][i] \in Range(theirs[f]) => \E j \in 1..i : first = mine[f][j]
    BY <2>1, <2>2, ListSettles
  <2> HIDE DEF first
  <2>5. Range(<<first>>) = {first}
    BY DEF Range
  <2> QED BY <2>3, <2>4, <2>5
<1>3. ASSUME NEW f \in LimitField
      PROVE  result[f] \in Int /\ mine[f] \in Int /\ result[f] <= mine[f] /\ result[f] <= theirs[f]
  <2>1. mine[f] \in Int /\ theirs[f] \in Int
    BY FieldsAre
  <2>2. result[f] = Least(mine[f], theirs[f])
    BY <1>1, AgreedIs DEF Field
  <2> QED BY <2>1, <2>2 DEF Least
<1>4. ASSUME NEW f \in SwitchField
      PROVE  result[f] = (mine[f] /\ theirs[f]) /\ mine[f] \in BOOLEAN /\ theirs[f] \in BOOLEAN
  BY <1>1, AgreedIs, FieldsAre DEF Field
<1>5. ASSUME NEW f \in OptionField
      PROVE  result[f] \in {mine[f], Automatic} /\ result[f] \in {theirs[f], Automatic}
  <2>1. result[f] = IF mine[f] = theirs[f] THEN mine[f] ELSE Automatic
    BY <1>1, AgreedIs DEF Field
  <2> QED BY <2>1
<1>6. Within(result, mine) /\ Within(result, theirs)
  BY <1>2, <1>3, <1>4, <1>5 DEF Within
<1>7. ASSUME NEW f \in Told
      PROVE  f \in Notices(mine, result) <=>
               IF f \in ListField THEN result[f][1] # mine[f][1] ELSE result[f] # mine[f]
  <2>1. f \in Field
    BY DEF Told, Field, ListField, LimitField, SwitchField, OptionField
  <2>2. CASE f \in ListField
    BY <2>2 DEF Notices, ListField, LimitField, SwitchField, OptionField
  <2>3. CASE f \in LimitField
    BY <1>3, <2>3 DEF Notices, ListField, LimitField, SwitchField, OptionField
  <2>4. CASE f \in SwitchField
    BY <1>4, <2>4 DEF Notices, ListField, LimitField, SwitchField, OptionField
  <2>5. CASE f \in OptionField
    BY <1>5, <2>5 DEF Notices, ListField, LimitField, SwitchField, OptionField
  <2> QED BY <2>1, <2>2, <2>3, <2>4, <2>5 DEF Field
<1>8. Notices(mine, result) \subseteq Told
  BY DEF Notices
<1>9. Notices(mine, result) =
        {f \in Told : IF f \in ListField THEN result[f][1] # mine[f][1] ELSE result[f] # mine[f]}
  BY <1>7, <1>8, Zenon
<1> QED BY <1>2, <1>6, <1>9 DEF result

LEMMA AgreementIsSame == AgreementInv => SameAgreement
<1> SUFFICES ASSUME AgreementInv PROVE SameAgreement
  OBVIOUS
<1> DEFINE result == Negotiate(player, server)
<1>1. player \in Capabilities /\ server \in Capabilities
  BY DEF AgreementInv
<1>2. ASSUME answer.accepted
      PROVE  answer.capabilities = result /\ Compatible(player, server)
             /\ Compatible(player, result) /\ Negotiate(player, result) = result
             /\ Within(result, player) /\ Within(result, server)
  <2>1. answer.capabilities = result /\ Compatible(player, server)
    BY <1>2 DEF AgreementInv, NoAnswer
  <2> QED BY <1>1, <2>1, AnswerIsResult, ResultIsTold
<1>3. ASSUME phase = "connected"
      PROVE  /\ negotiated = answer.capabilities
             /\ \A f \in ListField :
                  \A i \in DOMAIN player[f] : player[f][i] \in Shared(f) =>
                    \E j \in 1..i : negotiated[f] = <<player[f][j]>>
             /\ notices = {f \in Told : Differs(f)}
  <2>1. answer.accepted /\ negotiated = result /\ negotiated = answer.capabilities
        /\ notices = Notices(player, result)
    BY <1>2, <1>3 DEF AgreementInv
  <2>2. \A f, v : v \in Shared(f) => v \in Range(server[f])
    BY DEF Shared
  <2>3. /\ \A f \in ListField : \A i \in DOMAIN player[f] :
             player[f][i] \in Range(server[f]) => \E j \in 1..i : result[f] = <<player[f][j]>>
        /\ Notices(player, result) =
             {f \in Told : IF f \in ListField THEN result[f][1] # player[f][1] ELSE result[f] # player[f]}
    BY <1>1, <1>2, <2>1, ResultIsTold, ZenonT(60)
  <2> HIDE DEF result
  <2>4. {f \in Told : IF f \in ListField THEN result[f][1] # player[f][1] ELSE result[f] # player[f]}
          = {f \in Told : Differs(f)}
    BY <2>1 DEF Differs
  <2> QED BY <2>1, <2>2, <2>3, <2>4
<1>4. ASSUME phase = "refused"
      PROVE  ~answer.accepted /\ \E f \in ListField : Shared(f) = {}
  <2>1. ~answer.accepted
    BY <1>2, <1>4 DEF AgreementInv
  <2>2. ~Compatible(player, server) /\ Valid(player) /\ Valid(server)
    BY <1>4, <2>1 DEF AgreementInv
  <2>3. PICK f \in ListField : Intersect(player[f], server[f]) = {}
    BY <2>2 DEF Compatible
  <2>4. Shared(f) = {}
    BY <2>3 DEF Shared, Intersect, Range
  <2> QED BY <2>1, <2>4
<1> QED BY <1>2, <1>3, <1>4 DEF SameAgreement

\* Player and host go by the same capabilities, and of the fields that the page looks at it says
\* which the result gives less of, for any records of capabilities (session.mjs, host/session.mjs,
\* negotiation-notices.mjs).
THEOREM AgreementHolds == NegotiationSpec => []SameAgreement
<1> QED BY AgreementBegins, AgreementGoesOn, AgreementIsSame, PTL DEF NegotiationSpec

-----------------------------------------------------------------------------
(***************************************************************************)
(* The quality.  The count is that of the last samples that gave no reason *)
(* against a better profile; the last request under way, or else the host, *)
(* is what the profile asks for.                                           *)
(***************************************************************************)
QualityRequest == [bitrate : 1..Profiles, size : 1..Profiles]

QualityTypes ==
  /\ current \in 1..Profiles /\ fixed \in 1..Profiles /\ adaptive \in BOOLEAN \X BOOLEAN
  /\ goodSamples \in Nat /\ recent \in Seq(Health) /\ choices \in Nat
  /\ requests \in Seq(QualityRequest) /\ host \in QualityRequest \cup {Unasked}
  /\ route \in {"none", "signaling", "data"}

\* The samples that were counted are the last ones.
CountInv ==
  /\ adaptive = <<FALSE, FALSE>> => goodSamples = 0
  /\ goodSamples <= Len(recent)
  /\ \A i \in (Len(recent) - goodSamples + 1)..Len(recent) :
       recent[i] = "good" \/ (recent[i] = "poor" /\ current = Profiles)

\* What does not adapt is asked for as it was first, while the user has chosen nothing.
FixedInv ==
  choices = 0 => /\ host = Unasked \/ Fixes(host)
                 /\ \A i \in DOMAIN requests : Fixes(requests[i])

QualityInv == QualityTypes /\ CountInv /\ FixedInv /\ HostInStep

LEMMA QualityBegins == QualityInit => QualityInv
<1> SUFFICES ASSUME QualityInit PROVE QualityInv
  OBVIOUS
<1> USE QualityAssumption
<1>1. host = Unasked /\ requests = <<>> /\ astray # {} /\ Range(requests) = {}
  <2>1. Range(<<>>) = {}
    BY DEF Range
  <2> QED BY <2>1 DEF QualityInit
<1>2. QualityTypes
  BY <1>1 DEF QualityInit, QualityTypes
<1>3. CountInv
  BY DEF QualityInit, CountInv
<1>4. FixedInv
  BY <1>1 DEF QualityInit, FixedInv
<1>5. HostInStep
  BY <1>1 DEF HostInStep
<1> QED BY <1>2, <1>3, <1>4, <1>5 DEF QualityInv

\* What is asked for of the dimensions that do not adapt is seen in the sequence of requests.
LEMMA FixesAre ==
  FixedInv <=> (choices = 0 => \A r \in Range(requests) \cup ({host} \ {Unasked}) : Fixes(r))
BY DEF FixedInv, Range

LEMMA FixesStay ==
  (FixedInv <=> (choices = 0 => \A r \in Range(requests) \cup ({host} \ {Unasked}) : Fixes(r)))'
BY DEF FixedInv, Range, Fixes

LEMMA RequestIs ==
  ASSUME QualityTypes, NEW index \in 1..Profiles, NEW base \in 1..Profiles
  PROVE  Request(index, base) \in QualityRequest
         /\ Request(index, base).bitrate = (IF adaptive[1] THEN index ELSE base)
         /\ Request(index, base).size = (IF adaptive[2] THEN index ELSE base)
BY DEF Request, QualityRequest, QualityTypes

\* What a sample does to the profile and the count.
LEMMA SampleCounts ==
  ASSUME QualityTypes, CountInv, NEW health \in Health, Sample(health)
  PROVE  /\ current' \in 1..Profiles /\ goodSamples' \in Nat /\ recent' \in Seq(Health)
         /\ CountInv'
         /\ current' # current =>
              \/ /\ current' = current - 1 /\ goodSamples + 1 >= UpgradeAfter
              \/ current' = current + 1
<1> USE QualityAssumption
<1>1. /\ current' = Ingested(health)[1] /\ goodSamples' = Ingested(health)[2]
      /\ recent' = IF current' # current THEN <<>> ELSE Append(recent, health)
      /\ adaptive' = adaptive
  BY DEF Sample
<1>2. CASE adaptive = <<FALSE, FALSE>>
  <2>1. current' = current /\ goodSamples' = 0
    BY <1>1, <1>2 DEF Ingested, CountInv
  <2>2. recent' = Append(recent, health)
    BY <1>1, <2>1
  <2> QED BY <1>1, <2>1, <2>2 DEF CountInv, QualityTypes
<1>3. CASE adaptive # <<FALSE, FALSE>> /\ health = "poor" /\ current < Profiles
  <2>1. Ingested(health) = <<current + 1, 0>>
    BY <1>3 DEF Ingested
  <2>2. current' = current + 1 /\ goodSamples' = 0 /\ recent' = <<>>
    BY <1>1, <2>1 DEF QualityTypes
  <2> QED BY <1>3, <2>2 DEF CountInv, QualityTypes
<1>4. CASE adaptive # <<FALSE, FALSE>> /\ health = "fair"
  <2>1. current' = current /\ goodSamples' = 0 /\ recent' = Append(recent, health)
    BY <1>1, <1>4 DEF Ingested, QualityTypes
  <2> QED BY <2>1 DEF CountInv, QualityTypes
<1>5. CASE /\ adaptive # <<FALSE, FALSE>> /\ ~(health = "poor" /\ current < Profiles) /\ health # "fair"
           /\ goodSamples + 1 >= UpgradeAfter /\ current > 1
  <2>1. Ingested(health) = <<current - 1, 0>>
    BY <1>5 DEF Ingested
  <2>2. current' = current - 1 /\ goodSamples' = 0 /\ recent' = <<>>
    BY <1>1, <2>1 DEF QualityTypes
  <2> QED BY <1>5, <2>2 DEF CountInv, QualityTypes
<1>6. CASE /\ adaptive # <<FALSE, FALSE>> /\ ~(health = "poor" /\ current < Profiles) /\ health # "fair"
           /\ ~(goodSamples + 1 >= UpgradeAfter /\ current > 1)
  <2>1. current' = current /\ goodSamples' = goodSamples + 1 /\ recent' = Append(recent, health)
    BY <1>1, <1>6 DEF Ingested, QualityTypes
  <2>2. health = "good" \/ (health = "poor" /\ current = Profiles)
    BY <1>6 DEF Health, QualityTypes
  <2>3. /\ recent' \in Seq(Health) /\ Len(recent') = Len(recent) + 1
        /\ recent'[Len(recent) + 1] = health
        /\ \A i \in 1..Len(recent) : recent'[i] = recent[i]
    BY <2>1 DEF QualityTypes
  <2>4. CountInv'
    <3>1. ASSUME NEW i \in (Len(recent') - goodSamples' + 1)..Len(recent')
          PROVE  recent'[i] = "good" \/ (recent'[i] = "poor" /\ current' = Profiles)
      <4>1. CASE i = Len(recent) + 1
        BY <2>1, <2>2, <2>3, <4>1
      <4>2. CASE i # Len(recent) + 1
        <5>1. i \in (Len(recent) - goodSamples + 1)..Len(recent) /\ i \in 1..Len(recent)
          BY <2>1, <2>3, <4>2 DEF CountInv, QualityTypes
        <5> QED BY <2>1, <2>3, <5>1 DEF CountInv
      <4> QED BY <4>1, <4>2
    <3>2. adaptive' # <<FALSE, FALSE>> /\ goodSamples' <= Len(recent')
      <4>1. adaptive' # <<FALSE, FALSE>>
        BY <1>1, <1>6
      <4>2. goodSamples <= Len(recent) /\ Len(recent) \in Nat /\ goodSamples \in Nat
        BY DEF CountInv, QualityTypes
      <4>3. goodSamples' = goodSamples + 1 /\ Len(recent') = Len(recent) + 1
        BY <2>1, <2>3
      <4>4. goodSamples' <= Len(recent')
        BY <4>2, <4>3
      <4> QED BY <4>1, <4>4, Zenon
    <3> QED BY <3>1, <3>2 DEF CountInv
  <2> QED BY <2>1, <2>3, <2>4 DEF QualityTypes
<1> QED BY <1>2, <1>3, <1>4, <1>5, <1>6

\* A request that is sent, or the reason it is not.
LEMMA RequestKeeps ==
  ASSUME QualityTypes, NEW index \in 1..Profiles, NEW base \in 1..Profiles, SendRequest(index, base)
  PROVE  \/ astray' # {} /\ requests' = requests
         \/ requests' = Append(requests, Request(index, base)) /\ astray' = {}
BY DEF SendRequest, QualityTypes

\* The host and the requests after a step that adds none but the one for the new profile.
LEMMA StepKeepsHost ==
  ASSUME QualityInv, QualityTypes', UNCHANGED <<host, adaptive>>,
         choices' = 0 => choices = 0 /\ fixed' = fixed,
         \/ requests' = requests /\ (astray' # {} \/ (astray' = astray /\ current' = current /\ fixed' = fixed))
         \/ requests' = Append(requests, Request(current', fixed')) /\ astray' = {}
  PROVE  FixedInv' /\ HostInStep'
<1> DEFINE now == Request(current', fixed')
<1>1. /\ now \in QualityRequest
      /\ now.bitrate = (IF adaptive[1] THEN current' ELSE fixed')
      /\ now.size = (IF adaptive[2] THEN current' ELSE fixed')
      /\ Request(current, fixed)' = now
  BY RequestIs DEF QualityInv, QualityTypes, Request
<1> HIDE DEF now
<1>2. CASE requests' = requests /\ (astray' # {} \/ (astray' = astray /\ current' = current /\ fixed' = fixed))
  <2>1. FixedInv'
    BY <1>2 DEF QualityInv, FixedInv, Fixes
  <2>2. HostInStep'
    <3>1. current' = current /\ fixed' = fixed /\ adaptive' = adaptive => now = Request(current, fixed)
      BY DEF now, Request
    <3> QED BY <1>1, <1>2, <2>1, <3>1, FixesStay DEF QualityInv, HostInStep
  <2> QED BY <2>1, <2>2
<1>3. CASE requests' = Append(requests, now) /\ astray' = {}
  <2>1. /\ requests' # <<>> /\ Last(requests') = now
        /\ \A i \in DOMAIN requests' : requests'[i] = now \/ (i \in DOMAIN requests /\ requests'[i] = requests[i])
    <3>1. /\ requests \in Seq(QualityRequest) /\ requests' \in Seq(QualityRequest)
          /\ Len(requests') = Len(requests) + 1 /\ requests'[Len(requests) + 1] = now
          /\ \A i \in 1..Len(requests) : requests'[i] = requests[i]
      BY <1>1, <1>3 DEF QualityInv, QualityTypes
    <3> QED BY <3>1 DEF Last
  <2>2. FixedInv'
    BY <1>1, <2>1 DEF QualityInv, FixedInv, Fixes
  <2> QED BY <1>1, <1>3, <2>1, <2>2, FixesStay DEF HostInStep
<1> QED BY <1>2, <1>3 DEF now

LEMMA QualityGoesOn == QualityInv /\ [QualityNext]_qualityVars => QualityInv'
<1> SUFFICES ASSUME QualityInv, [QualityNext]_qualityVars PROVE QualityInv'
  OBVIOUS
<1> QualityTypes /\ CountInv /\ FixedInv /\ HostInStep
  BY DEF QualityInv
<1>1. CASE UNCHANGED qualityVars
  BY <1>1 DEF qualityVars, QualityInv, QualityTypes, CountInv, FixedInv, Fixes, HostInStep, Request
<1>2. ASSUME NEW health \in Health, LocalSample(health) PROVE QualityInv'
  <2>1. /\ current' \in 1..Profiles /\ goodSamples' \in Nat /\ recent' \in Seq(Health) /\ CountInv'
        /\ UNCHANGED <<fixed, adaptive, route, host, choices, requests>>
        /\ astray' # {} \/ (astray' = astray /\ current' = current)
    BY <1>2, SampleCounts DEF LocalSample, Sample
  <2>2. QualityTypes'
    BY <2>1 DEF QualityTypes
  <2> QED BY <2>1, <2>2, StepKeepsHost DEF QualityInv
<1>3. ASSUME NEW health \in Health, RemoteSample(health) PROVE QualityInv'
  <2>1. /\ current' \in 1..Profiles /\ goodSamples' \in Nat /\ recent' \in Seq(Health) /\ CountInv'
        /\ UNCHANGED <<fixed, adaptive, route, host, choices>>
    BY <1>3, SampleCounts DEF RemoteSample, Sample
  <2>2. \/ requests' = requests /\ (astray' # {} \/ (astray' = astray /\ current' = current))
        \/ requests' = Append(requests, Request(current', fixed)) /\ astray' = {}
    <3>1. CASE current' = current
      BY <1>3, <3>1 DEF RemoteSample
    <3>2. CASE current' # current
      <4>1. SendRequest(current', fixed)
        BY <1>3, <3>2 DEF RemoteSample
      <4> QED BY <4>1 DEF SendRequest, QualityTypes
    <3> QED BY <3>1, <3>2
  <2>3. QualityTypes'
    <3>1. Request(current', fixed) \in QualityRequest
      BY <2>1, RequestIs DEF QualityTypes
    <3>2. requests' \in Seq(QualityRequest)
      BY <2>2, <3>1, SMTT(60) DEF QualityTypes
    <3> QED BY <2>1, <3>2 DEF QualityTypes
  <2> QED BY <2>1, <2>2, <2>3, StepKeepsHost DEF QualityInv
<1>4. ASSUME NEW index \in 1..Profiles, Choose(index) PROVE QualityInv'
  <2>1. /\ current' = index /\ fixed' = index /\ goodSamples' = 0 /\ recent' = <<>>
        /\ choices' = choices + 1 /\ UNCHANGED <<adaptive, route, host>> /\ SendRequest(index, index)
    BY <1>4 DEF Choose
  <2>2. \/ requests' = requests /\ astray' # {}
        \/ requests' = Append(requests, Request(index, index)) /\ astray' = {}
    BY <2>1 DEF SendRequest, QualityTypes
  <2>3. Request(index, index) \in QualityRequest
    BY RequestIs
  <2>4. QualityTypes' /\ choices' # 0
    <3>1. requests' \in Seq(QualityRequest)
      BY <2>2, <2>3, SMTT(60) DEF QualityTypes
    <3> QED BY <2>1, <3>1 DEF QualityTypes
  <2>5. CountInv'
    BY <2>1 DEF CountInv
  <2> QED BY <2>1, <2>2, <2>4, <2>5, StepKeepsHost DEF QualityInv
<1>5. ASSUME NEW to \in {"none", "signaling", "data"}, RouteChanges(to) PROVE QualityInv'
  <2>1. /\ UNCHANGED <<current, fixed, goodSamples, adaptive, host, recent, choices>>
        /\ requests' \in {<<>>, requests}
        /\ \/ requests' = requests /\ astray' = astray
           \/ requests' = <<>> /\ astray' # {}
        /\ route' \in {"none", "signaling", "data"}
    BY <1>5 DEF RouteChanges
  <2>2. requests' \in Seq(QualityRequest)
    <3>1. requests \in Seq(QualityRequest) /\ requests' \in {<<>>, requests}
      BY <2>1 DEF QualityTypes
    <3>2. <<>> \in Seq(QualityRequest)
      OBVIOUS
    <3> QED BY <3>1, <3>2, Zenon
  <2>4. QualityTypes' /\ CountInv'
    BY <2>1, <2>2 DEF QualityTypes, CountInv
  <2>5. FixedInv'
    BY <2>1 DEF FixedInv, Fixes
  <2>3. FixedInv' /\ HostInStep'
    BY <2>1, <2>5, FixesStay DEF HostInStep, Request
  <2> QED BY <2>3, <2>4 DEF QualityInv
<1>6. CASE HostTakes
  <2>1. /\ requests # <<>> /\ requests' = Tail(requests) /\ host' = requests[1]
        /\ UNCHANGED <<current, fixed, goodSamples, adaptive, route, astray, recent, choices>>
    BY <1>6 DEF HostTakes, QualityTypes
  <2>2. /\ requests[1] \in QualityRequest /\ requests' \in Seq(QualityRequest)
        /\ \A i \in DOMAIN requests' : i + 1 \in DOMAIN requests /\ requests'[i] = requests[i + 1]
        /\ 1 \in DOMAIN requests
    BY <2>1 DEF QualityTypes
  <2>3. QualityTypes' /\ CountInv'
    BY <2>1, <2>2 DEF QualityTypes, CountInv
  <2>4. FixedInv'
    BY <2>1, <2>2 DEF FixedInv, Fixes
  <2>5. IF requests' = <<>> THEN host' = Last(requests) ELSE Last(requests') = Last(requests)
    <3>1. requests \in Seq(QualityRequest) /\ Len(requests) >= 1 /\ Len(requests') = Len(requests) - 1
      BY <2>1 DEF QualityTypes
    <3>2. CASE requests' = <<>>
      BY <2>1, <3>1, <3>2 DEF Last
    <3>3. CASE requests' # <<>>
      <4>1. Len(requests') \in DOMAIN requests'
        BY <2>2, <3>3
      <4> QED BY <2>2, <3>1, <3>3, <4>1 DEF Last
    <3> QED BY <3>2, <3>3
  <2>6. HostInStep'
    BY <2>1, <2>4, <2>5, FixesStay DEF HostInStep, Request
  <2> QED BY <2>3, <2>4, <2>6 DEF QualityInv
<1> QED BY <1>1, <1>2, <1>3, <1>4, <1>5, <1>6 DEF QualityNext

LEMMA QualityMoves ==
  QualityInv /\ [QualityNext]_qualityVars =>
    (current' # current /\ choices' = choices =>
       \/ /\ current' = current - 1
          /\ Len(recent) >= UpgradeAfter - 1
          /\ \A i \in (Len(recent) - UpgradeAfter + 2)..Len(recent) :
               recent[i] = "good" \/ (recent[i] = "poor" /\ current = Profiles)
       \/ current' = current + 1)
<1> SUFFICES ASSUME QualityInv, [QualityNext]_qualityVars, current' # current, choices' = choices
             PROVE  \/ /\ current' = current - 1
                       /\ Len(recent) >= UpgradeAfter - 1
                       /\ \A i \in (Len(recent) - UpgradeAfter + 2)..Len(recent) :
                            recent[i] = "good" \/ (recent[i] = "poor" /\ current = Profiles)
                    \/ current' = current + 1
  OBVIOUS
<1>1. QualityTypes /\ CountInv
  BY DEF QualityInv
<1>2. \E health \in Health : Sample(health)
  <2>1. ASSUME NEW index \in 1..Profiles, Choose(index) PROVE FALSE
    BY <1>1, <2>1 DEF Choose, QualityTypes
  <2> QED BY <2>1 DEF QualityNext, LocalSample, RemoteSample, RouteChanges, HostTakes, qualityVars
<1>3. (current' = current - 1 /\ goodSamples + 1 >= UpgradeAfter) \/ current' = current + 1
  BY <1>1, <1>2, SampleCounts
<1>4. ASSUME goodSamples + 1 >= UpgradeAfter
      PROVE  /\ Len(recent) >= UpgradeAfter - 1
             /\ \A i \in (Len(recent) - UpgradeAfter + 2)..Len(recent) :
                  recent[i] = "good" \/ (recent[i] = "poor" /\ current = Profiles)
  <2>1. /\ goodSamples \in Nat /\ Len(recent) \in Nat /\ UpgradeAfter \in Nat
        /\ goodSamples <= Len(recent)
    BY <1>1, QualityAssumption DEF QualityTypes, CountInv
  <2>2. \A i \in (Len(recent) - UpgradeAfter + 2)..Len(recent) :
          i \in (Len(recent) - goodSamples + 1)..Len(recent)
    BY <1>4, <2>1
  <2> QED BY <1>1, <1>4, <2>1, <2>2 DEF CountInv
<1> QED BY <1>3, <1>4

\* The profile does not swing: better by one step after so many samples on end without a reason
\* against it, worse by one step at a time, for any number of profiles and samples (quality.mjs).
THEOREM QualityStaysSteady == QualitySpec => QualityIsSteady
<1> QED BY QualityBegins, QualityGoesOn, QualityMoves, PTL DEF QualitySpec, QualityIsSteady

-----------------------------------------------------------------------------
(***************************************************************************)
(* What the pages leave for one another.  Numbers grow, so that what was   *)
(* made after a sign-out has a greater one than it.                        *)
(***************************************************************************)
Triple == [Part -> Nat]
Slots == [Slot -> Triple]

\* Nothing of a record is as old as the last sign-out; it is whole or empty; its ticket is for its
\* endpoint, or the two were brought together.
Newer(record) == \A p \in Part : record[p] = 0 \/ record[p] > signedOut
Full(record) == record = NoRecord \/ \A p \in Part : record[p] # 0
Goes(record) == record.ticket \in {0, record.endpoint} \/ <<record.ticket, record.endpoint>> \in apart
Spent == offered \cup {offer.launch}

HandoffTypes ==
  /\ made \in 0..MaxMade /\ signedOut \in 0..made
  /\ store \in Slots /\ memory \in Slots /\ query \in Triple /\ form \in Triple
  /\ 0 \notin ended /\ offer.launch \in 0..made /\ offered \subseteq 0..made
  /\ memory.launch.session <= made

\* What is kept: a launch that has not been offered, and no session that was ended.
KeptFits(kept, top) ==
  /\ kept.launch.session <= top
  /\ kept.launch.session = 0 \/ kept.launch.session \notin Spent
  /\ Newer(kept.pair)
  /\ \A s \in {"recovery", "auto"} : Newer(kept[s]) /\ Full(kept[s]) /\ Goes(kept[s])
  /\ kept.recovery.session \notin ended

\* What the player page has read is no older than the sign-out either, as that is on another page.
PageFits ==
  /\ Newer(memory.pair) /\ Newer(memory.recovery) /\ Newer(query) /\ Newer(form)
  /\ Full(memory.recovery) /\ Goes(memory.recovery) /\ Goes(form) /\ Goes(Resolved(query, memory))
  /\ stage = "loaded" => memory.recovery.session \notin ended
  /\ stage \in {"loaded", "form"} =>
       memory.launch.session = 0 \/ memory.launch.session \notin Spent

HandoffInv == HandoffTypes /\ KeptFits(store, made) /\ (page = "player" => PageFits)

LEMMA WholeIs == ASSUME NEW n \in Nat PROVE Whole(n) \in Triple /\ \A p \in Part : Whole(n)[p] = n
BY DEF Whole, Triple

LEMMA EmptyIs ==
  /\ NoRecord \in Triple /\ NoRecord.endpoint = 0 /\ NoRecord.session = 0 /\ NoRecord.ticket = 0
  /\ \A p \in Part : NoRecord[p] = 0
  /\ Newer(NoRecord) /\ Full(NoRecord) /\ Goes(NoRecord)
  /\ Nothing \in Slots /\ \A s \in Slot : Nothing[s] = NoRecord
<1>1. /\ NoRecord \in Triple /\ \A p \in Part : NoRecord[p] = 0
      /\ NoRecord.endpoint = 0 /\ NoRecord.session = 0 /\ NoRecord.ticket = 0
  BY DEF NoRecord, Whole, Triple, Part
<1>2. Nothing \in Slots /\ \A s \in Slot : Nothing[s] = NoRecord
  BY <1>1 DEF Nothing, Slots
<1> QED BY <1>1, <1>2 DEF Newer, Full, Goes

LEMMA SlotsAre ==
  /\ "pair" \in Slot /\ "launch" \in Slot /\ "recovery" \in Slot /\ "auto" \in Slot
  /\ "endpoint" \in Part /\ "session" \in Part /\ "ticket" \in Part
BY DEF Slot, Part

LEMMA HandoffBegins == HandoffInit => HandoffInv
<1> SUFFICES ASSUME HandoffInit PROVE HandoffInv
  OBVIOUS
<1>1. /\ store = Nothing /\ memory = Nothing /\ query = NoRecord /\ form = NoRecord
      /\ made = 0 /\ signedOut = 0 /\ ended = {} /\ offered = {} /\ page = "dashboard"
      /\ offer.launch = 0
  BY DEF HandoffInit, NoOffer
<1>2. \A s \in Slot : store[s] = NoRecord /\ memory[s] = NoRecord
  BY <1>1, EmptyIs
<1>3. /\ store.launch = NoRecord /\ store.pair = NoRecord /\ store.recovery = NoRecord
      /\ store.auto = NoRecord /\ memory.launch = NoRecord
  BY <1>2, SlotsAre
<1>4. HandoffTypes
  BY <1>1, <1>3, EmptyIs, HandoffAssumption DEF HandoffTypes
<1>5. KeptFits(store, made)
  BY <1>1, <1>3, EmptyIs DEF KeptFits
<1> QED BY <1>1, <1>4, <1>5 DEF HandoffInv

\* What there is for a page is a part of what is kept.
LEMMA WithoutIs ==
  ASSUME NEW kept \in Slots, NEW slots
  PROVE  /\ Without(kept, slots) \in Slots
         /\ \A s \in Slot : Without(kept, slots)[s] = IF s \in slots THEN NoRecord ELSE kept[s]
BY EmptyIs DEF Without, Slots

LEMMA ReadsIs ==
  ASSUME NEW kept \in Slots, NEW old, NEW to
  PROVE  Reads(to, kept, old) \in Slots /\ \A s \in Slot : Reads(to, kept, old)[s] \in {NoRecord, kept[s]}
<1>1. \A s \in Slot : Fresh(kept, old, s) \in {NoRecord, kept[s]} /\ Fresh(kept, old, s) \in Triple
  BY EmptyIs DEF Fresh, Slots
<1>2. CASE to = "player"
  BY <1>1, <1>2, EmptyIs DEF Reads, Slots
<1>3. CASE to = "dashboard"
  <2> DEFINE one == IF prefs.restore THEN Fresh(kept, old, "recovery") ELSE NoRecord
  <2>1. one \in {NoRecord, kept["recovery"]} /\ one \in Triple
    BY <1>1, EmptyIs, SlotsAre
  <2>2. Reads(to, kept, old) = [Nothing EXCEPT !.recovery = one]
    BY <1>3 DEF Reads
  <2> HIDE DEF one
  <2> QED BY <2>1, <2>2, EmptyIs, SlotsAre DEF Slots
<1>4. CASE to \notin {"player", "dashboard"}
  <2>1. Reads(to, kept, old) = Nothing
    BY <1>4 DEF Reads
  <2> QED BY <2>1, EmptyIs
<1> QED BY <1>2, <1>3, <1>4

\* The three that the player begins with.
LEMMA ResolvedIs ==
  ASSUME NEW address \in Triple, NEW read \in Slots
  PROVE  /\ Resumable(read) \in {NoRecord, read.recovery} /\ Resumable(read) \in Triple
         /\ read.pair # NoRecord => Resumable(read) = NoRecord
         /\ Resolved(address, read) \in Triple
         /\ Resolved(address, read).endpoint =
              FirstOf(address.endpoint, FirstOf(read.pair.endpoint,
                FirstOf(Resumable(read).endpoint, IF prefs.custom THEN Default ELSE 0)))
         /\ Resolved(address, read).session = FirstOf(address.session, Resumable(read).session)
         /\ Resolved(address, read).ticket = FirstOf(address.ticket, Resumable(read).ticket)
         /\ Filled(address, read) \in Triple
         /\ Filled(address, read).endpoint = Resolved(address, read).endpoint
         /\ Filled(address, read).session = FirstOf(Resolved(address, read).session, Default)
         /\ Filled(address, read).ticket = Resolved(address, read).ticket
<1>1. /\ Resumable(read) \in {NoRecord, read.recovery} /\ Resumable(read) \in Triple
      /\ read.pair # NoRecord => Resumable(read) = NoRecord
  BY EmptyIs, SlotsAre DEF Resumable, Slots
<1> DEFINE old == Resumable(read)
           endpoint == FirstOf(address.endpoint, FirstOf(read.pair.endpoint,
                         FirstOf(old.endpoint, IF prefs.custom THEN Default ELSE 0)))
           ident == FirstOf(address.session, old.session)
           ticket == FirstOf(address.ticket, old.ticket)
<1>2. Default \in Nat
  BY HandoffAssumption DEF Default
<1>3. /\ address.endpoint \in Nat /\ address.session \in Nat /\ address.ticket \in Nat
      /\ old.endpoint \in Nat /\ old.session \in Nat /\ old.ticket \in Nat
      /\ read.pair.endpoint \in Nat
  BY <1>1, SlotsAre DEF Triple, Slots
<1>4. endpoint \in Nat /\ ident \in Nat /\ ticket \in Nat
  BY <1>2, <1>3 DEF FirstOf
<1>5. Resolved(address, read) =
        [NoRecord EXCEPT !.endpoint = endpoint, !.session = ident, !.ticket = ticket]
  BY DEF Resolved
<1> HIDE DEF endpoint, ident, ticket
<1>6. /\ Resolved(address, read) \in Triple /\ Resolved(address, read).endpoint = endpoint
      /\ Resolved(address, read).session = ident /\ Resolved(address, read).ticket = ticket
  BY <1>4, <1>5, EmptyIs, SlotsAre DEF Triple, Part
<1>7. FirstOf(Resolved(address, read).session, Default) \in Nat
  BY <1>2, <1>4, <1>6 DEF FirstOf
<1>8. /\ Filled(address, read) \in Triple
      /\ Filled(address, read).endpoint = Resolved(address, read).endpoint
      /\ Filled(address, read).session = FirstOf(Resolved(address, read).session, Default)
      /\ Filled(address, read).ticket = Resolved(address, read).ticket
  BY <1>6, <1>7, SlotsAre DEF Filled, Triple
<1> QED BY <1>1, <1>6, <1>8 DEF endpoint, ident, ticket

\* They are no older than the sign-out, and go together or are brought together here.
LEMMA ResolvedFits ==
  ASSUME NEW address \in Triple, NEW read \in Slots, HandoffTypes,
         Newer(address), Newer(read.pair), Newer(read.recovery), Goes(read.recovery),
         Full(read.recovery)
  PROVE  /\ Newer(Resolved(address, read)) /\ Newer(Filled(address, read))
         /\ address.endpoint = address.ticket =>
              Goes(Resolved(address, read)) /\ Goes(Filled(address, read))
<1> DEFINE old == Resumable(read)
           resolved == Resolved(address, read)
           filled == Filled(address, read)
<1>1. signedOut \in Nat /\ Default \in Nat /\ Default > signedOut
  BY HandoffAssumption DEF HandoffTypes, Default
<1>2. /\ address.endpoint \in Nat /\ address.session \in Nat /\ address.ticket \in Nat
      /\ old.endpoint \in Nat /\ old.session \in Nat /\ old.ticket \in Nat
      /\ read.pair.endpoint \in Nat
  BY ResolvedIs, SlotsAre DEF Triple, Slots
<1>3. Newer(old) /\ Goes(old) /\ Full(old)
  BY ResolvedIs, EmptyIs
<1>4. /\ address.endpoint = 0 \/ address.endpoint > signedOut
      /\ address.session = 0 \/ address.session > signedOut
      /\ address.ticket = 0 \/ address.ticket > signedOut
      /\ old.endpoint = 0 \/ old.endpoint > signedOut
      /\ old.session = 0 \/ old.session > signedOut
      /\ old.ticket = 0 \/ old.ticket > signedOut
      /\ read.pair.endpoint = 0 \/ read.pair.endpoint > signedOut
  BY <1>3, SlotsAre DEF Newer
<1>5. /\ resolved.endpoint = FirstOf(address.endpoint, FirstOf(read.pair.endpoint,
                            FirstOf(old.endpoint, IF prefs.custom THEN Default ELSE 0)))
      /\ resolved.session = FirstOf(address.session, old.session)
      /\ resolved.ticket = FirstOf(address.ticket, old.ticket)
      /\ filled.endpoint = resolved.endpoint /\ filled.ticket = resolved.ticket
      /\ filled.session = FirstOf(resolved.session, Default)
  BY ResolvedIs
<1>6. read.pair # NoRecord => old = NoRecord
  BY ResolvedIs
<1>7. read.pair = NoRecord => read.pair.endpoint = 0
  BY EmptyIs
<1>8. NoRecord.endpoint = 0 /\ NoRecord.ticket = 0
  BY EmptyIs
<1>9. old.ticket \in {0, old.endpoint} \/ <<old.ticket, old.endpoint>> \in apart
  BY <1>3 DEF Goes
<1> HIDE DEF old, resolved, filled
<1>10. Newer(resolved) /\ Newer(filled)
  BY <1>1, <1>2, <1>4, <1>5 DEF Newer, Part, FirstOf
<1>11. ASSUME address.endpoint = address.ticket PROVE Goes(resolved) /\ Goes(filled)
  <2>1. CASE address.ticket # 0
    BY <1>5, <1>11, <2>1 DEF Goes, FirstOf
  <2>2. CASE address.ticket = 0 /\ old.ticket = 0
    BY <1>5, <2>2 DEF Goes, FirstOf
  <2>3. CASE address.ticket = 0 /\ old.ticket # 0
    <3>1. old # NoRecord /\ read.pair.endpoint = 0
      BY <1>6, <1>7, <1>8, <2>3
    <3>2. CASE old.endpoint # 0
      <4>1. resolved.endpoint = old.endpoint /\ resolved.ticket = old.ticket
        BY <1>5, <1>11, <2>3, <3>1, <3>2 DEF FirstOf
      <4> QED BY <1>5, <1>9, <4>1 DEF Goes
    <3>3. CASE old.endpoint = 0
      <4>1. old = NoRecord
        BY <1>3, <3>3, SlotsAre DEF Full
      <4> QED BY <3>1, <4>1
    <3> QED BY <3>2, <3>3
  <2> QED BY <2>1, <2>2, <2>3
<1> QED BY <1>10, <1>11 DEF resolved, filled

\* The pages that are loaded read a part of what is kept, and keep a part of it.
LEMMA LoadIs ==
  ASSUME HandoffInv, NEW to, NEW address \in Triple, NEW kept \in Slots, NEW old,
         Load(to, address, kept, old)
  PROVE  /\ page' = to /\ stage' = "loaded" /\ query' = address
         /\ UNCHANGED <<prefs, offer, offered, ended, signedOut>>
         /\ store' \in Slots /\ memory' \in Slots /\ form' \in Triple
         /\ \A s \in Slot : store'[s] \in {NoRecord, kept[s]} /\ memory'[s] \in {NoRecord, kept[s]}
         /\ to = "player" => form' = Filled(address, memory')
         /\ apart \subseteq apart'
         /\ address.endpoint # address.ticket => <<form'.ticket, form'.endpoint>> \in apart'
<1> DEFINE left == IF page = "player" /\ prefs.clear THEN Without(kept, Transient) ELSE kept
<1>1. left \in Slots /\ \A s \in Slot : left[s] \in {NoRecord, kept[s]}
  BY WithoutIs
<1>2. /\ page' = to /\ stage' = "loaded" /\ query' = address
      /\ UNCHANGED <<prefs, offer, offered, ended, signedOut>>
      /\ memory' = Reads(to, left, old) /\ store' = Without(left, Empties(to, old))
      /\ form' = IF to = "player" THEN Filled(address, memory') ELSE NoRecord
      /\ apart' = IF address.endpoint # address.ticket
                  THEN apart \cup {<<form'.ticket, form'.endpoint>>} ELSE apart
  BY DEF Load
<1> HIDE DEF left
<1>3. memory' \in Slots /\ \A s \in Slot : memory'[s] \in {NoRecord, left[s]}
  BY <1>1, <1>2, ReadsIs
<1>4. store' \in Slots /\ \A s \in Slot : store'[s] \in {NoRecord, left[s]}
  BY <1>1, <1>2, WithoutIs
<1>5. form' \in Triple
  BY <1>2, <1>3, ResolvedIs, EmptyIs
<1> QED BY <1>1, <1>2, <1>3, <1>4, <1>5

\* So loading a page keeps the invariant of what is kept.
LEMMA LoadKeeps ==
  ASSUME HandoffInv, NEW to, NEW address \in Triple, NEW kept \in Slots, NEW old,
         Load(to, address, kept, old), made' \in 0..MaxMade, made' >= made,
         KeptFits(kept, made'), to = "player" => Newer(address)
  PROVE  HandoffInv'
<1>1. /\ page' = to /\ stage' = "loaded" /\ query' = address
      /\ UNCHANGED <<prefs, offer, offered, ended, signedOut>>
      /\ store' \in Slots /\ memory' \in Slots /\ form' \in Triple
      /\ \A s \in Slot : store'[s] \in {NoRecord, kept[s]} /\ memory'[s] \in {NoRecord, kept[s]}
      /\ to = "player" => form' = Filled(address, memory')
      /\ apart \subseteq apart'
      /\ address.endpoint # address.ticket => <<form'.ticket, form'.endpoint>> \in apart'
  BY LoadIs
<1>2. /\ store'.launch \in {NoRecord, kept.launch} /\ memory'.launch \in {NoRecord, kept.launch}
      /\ store'.pair \in {NoRecord, kept.pair} /\ memory'.pair \in {NoRecord, kept.pair}
      /\ store'.recovery \in {NoRecord, kept.recovery}
      /\ memory'.recovery \in {NoRecord, kept.recovery}
      /\ store'.auto \in {NoRecord, kept.auto}
  BY <1>1, SlotsAre
<1>3. HandoffTypes /\ made \in Nat /\ made' \in Nat /\ 0 \notin ended
  BY DEF HandoffInv, HandoffTypes
<1>4. /\ kept.launch.session <= made'
      /\ kept.launch.session = 0 \/ kept.launch.session \notin Spent
      /\ Newer(kept.pair) /\ Newer(kept.recovery) /\ Newer(kept.auto)
      /\ Full(kept.recovery) /\ Full(kept.auto) /\ Goes(kept.recovery) /\ Goes(kept.auto)
      /\ kept.recovery.session \notin ended
  BY DEF KeptFits
<1>5. Spent' = Spent /\ \A r : Newer(r)' <=> Newer(r)
  BY <1>1 DEF Spent, Newer
<1>6. \A r \in Triple : Goes(r) => Goes(r)'
  BY <1>1 DEF Goes
<1>7. HandoffTypes'
  BY <1>1, <1>2, <1>3, <1>4, EmptyIs DEF HandoffTypes
<1>8. KeptFits(store, made)'
  <2>1. /\ Newer(store.pair)' /\ Newer(store.recovery)' /\ Newer(store.auto)'
        /\ Full(store.recovery)' /\ Full(store.auto)'
        /\ store'.recovery.session \notin ended'
        /\ store'.launch.session <= made'
        /\ store'.launch.session = 0 \/ store'.launch.session \notin Spent'
    BY <1>1, <1>2, <1>3, <1>4, <1>5, EmptyIs DEF Newer, Full
  <2>2. Goes(store.recovery)' /\ Goes(store.auto)'
    BY <1>1, <1>2, <1>4, EmptyIs DEF Goes
  <2> QED BY <2>1, <2>2 DEF KeptFits
<1>9. ASSUME to = "player" PROVE PageFits'
  <2>1. /\ Newer(memory'.pair) /\ Newer(memory'.recovery)
        /\ Full(memory'.recovery) /\ Goes(memory'.recovery)
        /\ memory'.recovery.session \notin ended'
        /\ memory'.launch.session = 0 \/ memory'.launch.session \notin Spent'
    BY <1>1, <1>2, <1>3, <1>4, <1>5, EmptyIs
  <2>2. Newer(address)
    BY <1>9
  <2>3. /\ Newer(Resolved(address, memory')) /\ Newer(Filled(address, memory'))
        /\ address.endpoint = address.ticket =>
             Goes(Resolved(address, memory')) /\ Goes(Filled(address, memory'))
    BY <1>1, <1>3, <2>1, <2>2, ResolvedFits
  <2>4. /\ Filled(address, memory').endpoint = Resolved(address, memory').endpoint
        /\ Filled(address, memory').ticket = Resolved(address, memory').ticket
    BY <1>1, ResolvedIs
  <2>5. form' = Filled(address, memory') /\ Resolved(query, memory)' = Resolved(address, memory')
    BY <1>1, <1>9 DEF Resolved, Resumable
  <2>6. Goes(form)' /\ Goes(Resolved(query, memory))'
    <3>1. CASE address.endpoint = address.ticket
      BY <1>1, <2>3, <2>5, <3>1 DEF Goes
    <3>2. CASE address.endpoint # address.ticket
      BY <1>1, <2>4, <2>5, <3>2 DEF Goes
    <3> QED BY <3>1, <3>2
  <2>7. /\ Newer(memory.pair)' /\ Newer(memory.recovery)' /\ Newer(query)' /\ Newer(form)'
        /\ Full(memory.recovery)' /\ Goes(memory.recovery)'
    BY <1>1, <2>1, <2>2, <2>3, <2>5 DEF Newer, Full, Goes
  <2> QED BY <2>1, <2>6, <2>7 DEF PageFits
<1> QED BY <1>1, <1>7, <1>8, <1>9 DEF HandoffInv

LEMMA KeptIs ==
  ASSUME HandoffInv
  PROVE  /\ HandoffTypes /\ KeptFits(store, made) /\ (page = "player" => PageFits)
         /\ made \in 0..MaxMade /\ made \in Nat /\ signedOut \in Nat /\ signedOut <= made
         /\ MaxMade \in Nat /\ store \in Slots /\ memory \in Slots /\ query \in Triple
         /\ form \in Triple /\ made + 1 \notin Spent /\ 0 \notin ended
BY HandoffAssumption DEF HandoffInv, HandoffTypes, Spent

LEMMA GoKeeps == ASSUME HandoffInv, NEW to, Go(to) PROVE HandoffInv'
<1>1. made' = made /\ made' \in 0..MaxMade /\ made' >= made /\ KeptFits(store, made')
  BY KeptIs DEF Go
<1>2. CASE Load(to, NoRecord, store, stale)
  BY <1>1, <1>2, KeptIs, EmptyIs, LoadKeeps
<1>3. CASE page = "player" /\ Load(to, query, store, stale)
  <2>1. Newer(query)
    BY <1>3, KeptIs DEF PageFits
  <2> QED BY <1>1, <1>3, <2>1, KeptIs, LoadKeeps
<1> QED BY <1>2, <1>3 DEF Go

LEMMA OpenLinkKeeps == ASSUME HandoffInv, NEW named, OpenLink(named) PROVE HandoffInv'
<1> DEFINE address == [p \in Part |-> IF p \in named THEN made + 1 ELSE 0]
<1>1. made' = made + 1 /\ made' \in 0..MaxMade /\ made' >= made
  BY KeptIs DEF OpenLink, Make
<1>2. address \in Triple /\ Newer(address)
  BY KeptIs DEF Triple, Newer
<1>3. KeptFits(store, made')
  <2>1. store.launch.session <= made'
    BY <1>1, KeptIs, SlotsAre DEF KeptFits, Slots, Triple
  <2> QED BY <2>1, KeptIs DEF KeptFits
<1>4. Load("player", address, store, stale)
  BY DEF OpenLink
<1> HIDE DEF address
<1> QED BY <1>1, <1>2, <1>3, <1>4, KeptIs, LoadKeeps

\* A page that leaves a new record.
LEMMA LeaveKeeps ==
  ASSUME HandoffInv, NEW to, NEW slot \in {"launch", "pair"}, Leave(to, slot), page # "player"
  PROVE  HandoffInv'
<1> DEFINE written == [store EXCEPT ![slot] = Whole(made + 1)]
<1>1. made' = made + 1 /\ made' \in 0..MaxMade /\ made' >= made
  BY KeptIs DEF Leave, Make
<1>2. Whole(made + 1) \in Triple /\ \A p \in Part : Whole(made + 1)[p] = made + 1
  BY KeptIs, WholeIs
<1>3. written \in Slots /\ \A s \in Slot : written[s] = IF s = slot THEN Whole(made + 1) ELSE store[s]
  BY <1>2, KeptIs DEF Slots
<1>4. \/ Load(to, NoRecord, written, stale \ {slot})
      \/ store' = written /\ UNCHANGED <<page, memory, query, form, stage, offer, offered, ended,
                                         signedOut, apart>>
  BY DEF Leave
<1> HIDE DEF written
<1>5. written.recovery = store.recovery /\ written.auto = store.auto
  BY <1>3, SlotsAre
<1>6. Newer(Whole(made + 1)) /\ Whole(made + 1).session = made + 1
  BY <1>2, KeptIs, SlotsAre DEF Newer
<1>7. /\ store.launch.session \in Nat /\ store.launch.session <= made
      /\ store.launch.session = 0 \/ store.launch.session \notin Spent
      /\ Newer(store.pair)
  BY KeptIs, SlotsAre DEF KeptFits, Slots, Triple
<1>8. written.pair \in {store.pair, Whole(made + 1)} /\ written.launch \in {store.launch, Whole(made + 1)}
  BY <1>3, SlotsAre
<1>9. KeptFits(written, made')
  <2>1. Newer(written.pair)
    BY <1>6, <1>7, <1>8
  <2>2. /\ written.launch.session <= made'
        /\ written.launch.session = 0 \/ written.launch.session \notin Spent
    BY <1>1, <1>6, <1>7, <1>8, KeptIs
  <2> QED BY <1>5, <2>1, <2>2, KeptIs DEF KeptFits
<1>10. CASE Load(to, NoRecord, written, stale \ {slot})
  BY <1>1, <1>3, <1>9, <1>10, EmptyIs, LoadKeeps
<1>11. CASE store' = written /\ UNCHANGED <<page, memory, query, form, stage, offer, offered, ended,
                                            signedOut, apart>>
  <2>1. HandoffTypes'
    BY <1>1, <1>3, <1>11, KeptIs, SlotsAre DEF HandoffTypes, Slots, Triple
  <2>2. KeptFits(store, made)'
    BY <1>9, <1>11 DEF KeptFits, Newer, Full, Goes, Spent
  <2> QED BY <1>11, <2>1, <2>2 DEF HandoffInv
<1> QED BY <1>4, <1>10, <1>11

\* Whoever a session is begun with, what is kept of it is newer than the sign-out, and goes
\* together.
LEMMA ConnectKeeps ==
  ASSUME HandoffInv, NEW how, NEW to \in Triple, NEW saves, Connect(how, to, saves),
         page = "player", stage \in {"loaded", "form"},
         made' \in 0..MaxMade, made' >= made, form' \in Triple, apart \subseteq apart',
         Newer(to), to.ticket # 0 => (\A p \in Part : to[p] # 0) /\ Goes(to)',
         Newer(form'), Goes(form)'
  PROVE  HandoffInv'
<1> DEFINE new == IF to.ticket # 0 /\ saves THEN Remembers ELSE {}
           keptNow == [s \in Slot |-> IF s \in new THEN to ELSE store[s]]
           done == IF memory.launch # NoRecord THEN {"launch"} ELSE {}
           id == IF to.ticket # 0 THEN to.session ELSE FirstOf(query.session, memory.recovery.session)
<1>1. /\ ended' = ended \ {id} /\ UNCHANGED <<page, prefs, memory, query, signedOut>>
      /\ \/ stage' = "form" /\ store' = keptNow /\ UNCHANGED <<offer, offered>>
         \/ /\ stage' = "playing" /\ store' = Without(keptNow, done)
            /\ offer'.launch = memory.launch.session
            /\ offered' = offered \cup ({offer.launch} \ {0})
  BY DEF Connect
<1>2. \A s \in new : s \in {"recovery", "auto"} /\ to.ticket # 0
  BY DEF Remembers
<1>3. keptNow \in Slots
  BY KeptIs DEF Slots
<1>4. \A s \in Slot : keptNow[s] = store[s] \/ (s \in {"recovery", "auto"} /\ to.ticket # 0 /\ keptNow[s] = to)
  BY <1>2
<1>5. to.ticket # 0 => id = to.session
  OBVIOUS
<1>6. memory.launch # NoRecord => "launch" \in done
  OBVIOUS
<1> HIDE DEF keptNow, new, done, id
<1>7. Without(keptNow, done) \in Slots /\ \A s \in Slot : Without(keptNow, done)[s] \in {NoRecord, keptNow[s]}
  BY <1>3, WithoutIs
<1>8. /\ store' \in Slots /\ \A s \in Slot : store'[s] \in {NoRecord, keptNow[s]}
      /\ stage' = "playing" /\ memory.launch # NoRecord => store'.launch = NoRecord
  BY <1>1, <1>3, <1>6, <1>7, WithoutIs, SlotsAre
<1>9. \A s \in Slot : \/ store'[s] \in {NoRecord, store[s]}
                      \/ s \in {"recovery", "auto"} /\ to.ticket # 0 /\ store'[s] = to
  BY <1>4, <1>8
<1>10. /\ store'.pair \in {NoRecord, store.pair} /\ store'.launch \in {NoRecord, store.launch}
       /\ store'.recovery \in {NoRecord, store.recovery} \/ (to.ticket # 0 /\ store'.recovery = to)
       /\ store'.auto \in {NoRecord, store.auto} \/ (to.ticket # 0 /\ store'.auto = to)
  BY <1>9, SlotsAre
<1>11. /\ memory.launch.session \in Nat /\ store.launch.session \in Nat
       /\ store.launch.session <= made /\ memory.launch.session <= made
       /\ offer.launch \in 0..made /\ offered \subseteq 0..made
  BY KeptIs, SlotsAre DEF HandoffTypes, KeptFits, Slots, Triple
<1>12. offer'.launch \in {offer.launch, memory.launch.session} /\ offered' \subseteq offered \cup {offer.launch}
  BY <1>1
<1>13. made \in Nat /\ made' \in Nat /\ signedOut \in Nat /\ signedOut <= made
  BY KeptIs
<1>14. HandoffTypes'
  <2>1. store'.launch.session <= made' /\ memory'.launch.session <= made'
    BY <1>1, <1>10, <1>11, <1>13, EmptyIs
  <2>2. offer'.launch \in 0..made' /\ offered' \subseteq 0..made'
    BY <1>11, <1>12, <1>13
  <2>3. signedOut' \in 0..made' /\ 0 \notin ended'
    BY <1>1, <1>13, KeptIs
  <2> QED BY <1>1, <1>8, <2>1, <2>2, <2>3, KeptIs DEF HandoffTypes
<1>15. /\ store'.launch.session = 0 \/ store'.launch.session \notin Spent'
       /\ stage' = "form" => memory.launch.session = 0 \/ memory.launch.session \notin Spent'
  <2>1. /\ store.launch.session = 0 \/ store.launch.session \notin Spent
        /\ memory.launch.session = 0 \/ memory.launch.session \notin Spent
    BY KeptIs DEF KeptFits, PageFits
  <2>2. store'.launch.session \in {0, store.launch.session}
    BY <1>10, EmptyIs
  <2>3. CASE stage' = "form" /\ UNCHANGED <<offer, offered>>
    BY <2>1, <2>2, <2>3 DEF Spent
  <2>4. CASE /\ stage' = "playing" /\ offer'.launch = memory.launch.session
             /\ offered' = offered \cup ({offer.launch} \ {0})
    <3>1. Spent' \subseteq Spent \cup {memory.launch.session}
      BY <2>4 DEF Spent
    <3>2. memory.launch = NoRecord => memory.launch.session = 0
      BY EmptyIs
    <3>3. memory.launch # NoRecord => store'.launch.session = 0
      BY <1>8, <2>4, EmptyIs
    <3> QED BY <2>1, <2>2, <2>4, <3>1, <3>2, <3>3
  <2> QED BY <1>1, <2>3, <2>4
<1>16. \A r : Newer(r)' <=> Newer(r)
  BY <1>1 DEF Newer
<1>17. /\ Goes(store.recovery)' /\ Goes(store.auto)'
  <2>1. Goes(store.recovery) /\ Goes(store.auto)
    BY KeptIs DEF KeptFits
  <2>2. NoRecord.ticket = 0
    BY EmptyIs
  <2> QED BY <1>10, <2>1, <2>2 DEF Goes
<1>18. KeptFits(store, made)'
  <2>1. /\ Newer(store.pair) /\ Newer(store.recovery) /\ Newer(store.auto)
        /\ Full(store.recovery) /\ Full(store.auto) /\ store.recovery.session \notin ended
    BY KeptIs DEF KeptFits
  <2>2. to.ticket # 0 => Full(to)
    BY DEF Full
  <2>3. Newer(store'.pair) /\ Newer(store'.recovery) /\ Newer(store'.auto)
    BY <1>10, <2>1, EmptyIs
  <2>4. Full(store'.recovery) /\ Full(store'.auto)
    BY <1>10, <2>1, <2>2, EmptyIs
  <2>5. store'.recovery.session \notin ended'
    BY <1>1, <1>5, <1>10, <2>1, KeptIs, EmptyIs
  <2>6. store'.launch.session <= made'
    BY <1>10, <1>11, <1>13, EmptyIs
  <2>7. /\ Newer(store.pair)' /\ Newer(store.recovery)' /\ Newer(store.auto)'
        /\ Full(store.recovery)' /\ Full(store.auto)'
    BY <1>1, <2>3, <2>4 DEF Newer, Full
  <2> QED BY <1>15, <1>17, <2>5, <2>6, <2>7 DEF KeptFits
<1>19. PageFits'
  <2>1. /\ Newer(memory.pair) /\ Newer(memory.recovery) /\ Newer(query)
        /\ Full(memory.recovery) /\ Goes(memory.recovery) /\ Goes(Resolved(query, memory))
    BY KeptIs DEF PageFits
  <2>2. /\ Newer(memory.pair)' /\ Newer(memory.recovery)' /\ Newer(query)' /\ Newer(form)'
        /\ Full(memory.recovery)' /\ Goes(memory.recovery)'
    BY <1>1, <2>1 DEF Newer, Full, Goes
  <2>3. Resolved(query, memory)' = Resolved(query, memory)
    BY <1>1 DEF Resolved, Resumable
  <2>4. Goes(Resolved(query, memory))'
    BY <2>1, <2>3 DEF Goes
  <2>5. stage' # "loaded" /\ (stage' \in {"loaded", "form"} => stage' = "form")
    BY <1>1
  <2> QED BY <1>1, <1>15, <2>2, <2>4, <2>5 DEF PageFits
<1> QED BY <1>14, <1>18, <1>19 DEF HandoffInv

\* How start() begins a session, if it does.
Begins(how, to) ==
  \/ /\ how = "recovery" /\ query = NoRecord /\ to = Resolved(query, memory)
     /\ \A p \in Part : to[p] # 0
  \/ /\ how = "link" /\ to = Resolved(query, memory) /\ \A p \in Part : to[p] # 0
  \/ /\ how = "pair" /\ query = NoRecord /\ memory.pair # NoRecord
     /\ to = [NoRecord EXCEPT !.endpoint = Resolved(query, memory).endpoint]
  \/ /\ how = "link" /\ to = [NoRecord EXCEPT !.endpoint = Resolved(query, memory).endpoint]
  \/ how = "auto" /\ memory.pair = NoRecord /\ to = store.auto /\ store.auto # NoRecord

LEMMA StartIs ==
  ASSUME NEW saves, Start(saves)
  PROVE  /\ page = "player" /\ stage = "loaded" /\ UNCHANGED <<form, apart, made>>
         /\ \/ \E how \in {"recovery", "link", "pair", "auto"} : \E to :
                 Begins(how, to) /\ Connect(how, to, saves)
            \/ stage' = "form" /\ UNCHANGED <<page, prefs, store, memory, query, offer, offered, ended,
                                              signedOut>>
<1> DEFINE to == Resolved(query, memory)
           one == [NoRecord EXCEPT !.endpoint = to.endpoint]
           auto == IF prefs.autoLogin THEN Fresh(store, stale, "auto") ELSE NoRecord
<1>1. page = "player" /\ stage = "loaded" /\ UNCHANGED <<form, apart, made>>
  BY DEF Start
<1>2. \/ (\A p \in Part : to[p] # 0) /\ Connect(IF query = NoRecord THEN "recovery" ELSE "link", to, saves)
      \/ /\ memory.pair # NoRecord
         /\ Connect(IF query = NoRecord THEN "pair" ELSE "link", one, saves)
      \/ memory.pair = NoRecord /\ auto # NoRecord /\ Connect("auto", auto, saves)
      \/ stage' = "form" /\ UNCHANGED <<page, prefs, store, memory, query, offer, offered, ended,
                                        signedOut>>
  BY DEF Start
<1>3. auto # NoRecord => auto = store.auto
  BY DEF Fresh
<1>4. \/ \E how \in {"recovery", "link", "pair", "auto"} : \E new :
           Begins(how, new) /\ Connect(how, new, saves)
      \/ stage' = "form" /\ UNCHANGED <<page, prefs, store, memory, query, offer, offered, ended,
                                        signedOut>>
  <2>1. CASE (\A p \in Part : to[p] # 0) /\ Connect(IF query = NoRecord THEN "recovery" ELSE "link", to, saves)
    <3>1. Begins(IF query = NoRecord THEN "recovery" ELSE "link", to)
      BY <2>1 DEF Begins
    <3> HIDE DEF to
    <3> QED BY <2>1, <3>1
  <2>2. CASE memory.pair # NoRecord /\ Connect(IF query = NoRecord THEN "pair" ELSE "link", one, saves)
    <3>1. Begins(IF query = NoRecord THEN "pair" ELSE "link", one)
      BY <2>2 DEF Begins
    <3> HIDE DEF one
    <3> QED BY <2>2, <3>1
  <2>3. CASE memory.pair = NoRecord /\ auto # NoRecord /\ Connect("auto", auto, saves)
    <3>1. Begins("auto", auto)
      BY <1>3, <2>3 DEF Begins
    <3> HIDE DEF auto
    <3> QED BY <2>3, <3>1
  <2> QED BY <1>2, <2>1, <2>2, <2>3
<1> QED BY <1>1, <1>4

\* What it begins with fits.
LEMMA BeginsFits ==
  ASSUME HandoffInv, page = "player", NEW how, NEW to, Begins(how, to)
  PROVE  /\ to \in Triple /\ Newer(to) /\ Goes(to)
         /\ to.ticket # 0 => \A p \in Part : to[p] # 0
<1> DEFINE resolved == Resolved(query, memory)
<1>1. resolved \in Triple /\ Newer(resolved) /\ Goes(resolved)
  <2>1. /\ Newer(query) /\ Newer(memory.pair) /\ Newer(memory.recovery) /\ Goes(resolved)
        /\ Full(memory.recovery) /\ Goes(memory.recovery)
    BY KeptIs DEF PageFits
  <2> QED BY <2>1, KeptIs, ResolvedIs, ResolvedFits
<1> DEFINE one == [NoRecord EXCEPT !.endpoint = resolved.endpoint]
<1> HIDE DEF resolved
<1>2. one \in Triple /\ Newer(one) /\ one.ticket = 0 /\ Goes(one)
  <2>1. resolved.endpoint \in Nat /\ (resolved.endpoint = 0 \/ resolved.endpoint > signedOut)
    BY <1>1, SlotsAre DEF Triple, Newer
  <2>2. /\ one \in Triple /\ one.ticket = 0
        /\ \A p \in Part : one[p] \in {0, resolved.endpoint}
    BY <2>1, EmptyIs, SlotsAre DEF Triple
  <2> HIDE DEF one
  <2> QED BY <2>1, <2>2 DEF Newer, Goes
<1>3. /\ store.auto \in Triple /\ Newer(store.auto) /\ Goes(store.auto)
      /\ store.auto # NoRecord => \A p \in Part : store.auto[p] # 0
  BY KeptIs, SlotsAre DEF KeptFits, Full, Slots
<1> HIDE DEF one
<1> QED BY <1>1, <1>2, <1>3 DEF Begins, resolved, one

LEMMA StartKeeps == ASSUME HandoffInv, NEW saves, Start(saves) PROVE HandoffInv'
<1>1. page = "player" /\ stage = "loaded" /\ UNCHANGED <<form, apart, made>>
  BY StartIs
<1>2. made' \in 0..MaxMade /\ made' >= made /\ form' \in Triple /\ apart \subseteq apart'
  BY <1>1, KeptIs
<1>3. Newer(form') /\ Goes(form)'
  BY <1>1, KeptIs DEF PageFits, Goes
<1>4. ASSUME NEW how, NEW to, Begins(how, to), Connect(how, to, saves)
      PROVE  HandoffInv'
  <2>1. to \in Triple /\ Newer(to) /\ Goes(to) /\ (to.ticket # 0 => \A p \in Part : to[p] # 0)
    BY <1>1, <1>4, BeginsFits
  <2>2. Goes(to)'
    BY <1>1, <2>1, <1>4 DEF Goes, Begins
  <2> QED BY <1>1, <1>2, <1>3, <1>4, <2>1, <2>2, ConnectKeeps
<1>5. CASE stage' = "form" /\ UNCHANGED <<page, prefs, store, memory, query, offer, offered, ended,
                                          signedOut>>
  <2>1. HandoffTypes'
    BY <1>1, <1>5, KeptIs DEF HandoffTypes
  <2>2. KeptFits(store, made)'
    BY <1>1, <1>5, KeptIs DEF KeptFits, Newer, Full, Goes, Spent
  <2>3. PageFits'
    BY <1>1, <1>5, KeptIs DEF PageFits, Newer, Full, Goes, Spent, Resolved, Resumable
  <2> QED BY <2>1, <2>2, <2>3 DEF HandoffInv
<1> QED BY <1>4, <1>5, StartIs

LEMMA SubmitKeeps ==
  ASSUME HandoffInv, NEW typed \in SUBSET Part, NEW saves, Submit(typed, saves) PROVE HandoffInv'
<1>1. /\ page = "player" /\ stage = "form" /\ Connect("form", form', saves)
      /\ IF typed = {} THEN UNCHANGED made ELSE Make
      /\ form' = [p \in Part |-> IF p \in typed THEN made + 1 ELSE form[p]]
      /\ \A p \in Part : form'[p] # 0
      /\ apart' = IF ("endpoint" \in typed) # ("ticket" \in typed)
                  THEN apart \cup {<<form'.ticket, form'.endpoint>>} ELSE apart
  BY DEF Submit
<1>2. made' \in 0..MaxMade /\ made' >= made
  BY <1>1, KeptIs DEF Make
<1>3. form' \in Triple
  BY <1>1, KeptIs DEF Triple
<1>4. Newer(form')
  <2>1. Newer(form)
    BY <1>1, KeptIs DEF PageFits
  <2> QED BY <1>1, <2>1, KeptIs DEF Newer
<1>5. Goes(form)'
  <2>1. Goes(form)
    BY <1>1, KeptIs DEF PageFits
  <2>2. /\ form'.ticket = IF "ticket" \in typed THEN made + 1 ELSE form.ticket
        /\ form'.endpoint = IF "endpoint" \in typed THEN made + 1 ELSE form.endpoint
    BY <1>1, SlotsAre
  <2>3. CASE ("endpoint" \in typed) # ("ticket" \in typed)
    BY <1>1, <2>3 DEF Goes
  <2>4. CASE "endpoint" \in typed /\ "ticket" \in typed
    BY <2>2, <2>4 DEF Goes
  <2>5. CASE "endpoint" \notin typed /\ "ticket" \notin typed
    BY <1>1, <2>1, <2>2, <2>5 DEF Goes
  <2> QED BY <2>3, <2>4, <2>5
<1>6. apart \subseteq apart'
  BY <1>1
<1>7. PICK to \in Triple : to = form'
  BY <1>3
<1>8. /\ Connect("form", to, saves) /\ Newer(to) /\ Newer(form')
      /\ to.ticket # 0 => (\A p \in Part : to[p] # 0) /\ Goes(to)'
  BY <1>1, <1>4, <1>5, <1>7 DEF Goes
<1> QED BY <1>1, <1>2, <1>3, <1>5, <1>6, <1>8, ConnectKeeps

\* Removing some of what is kept.
LEMMA LessKeeps ==
  ASSUME HandoffInv, NEW slots, store' = Without(store, slots),
         UNCHANGED <<page, prefs, memory, query, form, offer, offered, apart, made>>
  PROVE  /\ store' \in Slots
         /\ store'.launch \in {NoRecord, store.launch} /\ store'.pair \in {NoRecord, store.pair}
         /\ store'.recovery \in {NoRecord, store.recovery} /\ store'.auto \in {NoRecord, store.auto}
         /\ "recovery" \in slots => store'.recovery = NoRecord
         /\ "auto" \in slots => store'.auto = NoRecord
         /\ "pair" \in slots => store'.pair = NoRecord
BY KeptIs, WithoutIs, SlotsAre

LEMMA EndKeeps == ASSUME HandoffInv, End PROVE HandoffInv'
<1> DEFINE slots == IF prefs.clear THEN Transient ELSE {"recovery"}
<1>1. /\ stage' = IF stage = "playing" THEN "ended" ELSE stage
      /\ store' = Without(store, slots) /\ "recovery" \in slots /\ page = "player"
      /\ UNCHANGED <<page, prefs, memory, query, form, offer, offered, signedOut, apart, made>>
      /\ ended' = IF stage = "playing" THEN ended \cup ({offer.session} \ {0}) ELSE ended
  BY DEF End, Leaves, Transient
<1> HIDE DEF slots
<1>2. /\ store' \in Slots
      /\ store'.launch \in {NoRecord, store.launch} /\ store'.pair \in {NoRecord, store.pair}
      /\ store'.auto \in {NoRecord, store.auto} /\ store'.recovery = NoRecord
  BY <1>1, LessKeeps
<1>3. HandoffTypes'
  BY <1>1, <1>2, KeptIs DEF HandoffTypes
<1>4. KeptFits(store, made)'
  <2>1. /\ store'.launch.session <= made
        /\ store'.launch.session = 0 \/ store'.launch.session \notin Spent
        /\ Newer(store'.pair) /\ Newer(store'.auto) /\ Full(store'.auto) /\ Goes(store'.auto)
        /\ Newer(store'.recovery) /\ Full(store'.recovery) /\ Goes(store'.recovery)
        /\ store'.recovery.session = 0 /\ 0 \notin ended'
    BY <1>1, <1>2, KeptIs, EmptyIs DEF KeptFits
  <2> QED BY <1>1, <2>1 DEF KeptFits, Newer, Full, Goes, Spent
<1>5. PageFits'
  BY <1>1, KeptIs DEF PageFits, Newer, Full, Goes, Spent, Resolved, Resumable
<1> QED BY <1>3, <1>4, <1>5 DEF HandoffInv

\* What a sign-out leaves in this tab was made for no provider.
LEMMA SignOutKeeps == ASSUME HandoffInv, NEW here \in BOOLEAN, SignOut(here) PROVE HandoffInv'
<1> DEFINE slots == IF here THEN Provider \cup {"auto"} ELSE {"auto"}
<1>1. /\ store' = Without(store, slots) /\ (here => page = "settings")
      /\ UNCHANGED <<page, prefs, memory, query, form, stage, offer, offered, ended, apart, made>>
      /\ signedOut' = IF here THEN made ELSE signedOut
      /\ "auto" \in slots /\ (here => "pair" \in slots /\ "recovery" \in slots)
  BY DEF SignOut, Provider
<1> HIDE DEF slots
<1>2. /\ store' \in Slots
      /\ store'.launch \in {NoRecord, store.launch} /\ store'.pair \in {NoRecord, store.pair}
      /\ store'.recovery \in {NoRecord, store.recovery} /\ store'.auto = NoRecord
      /\ here => store'.pair = NoRecord /\ store'.recovery = NoRecord
  BY <1>1, LessKeeps
<1>3. HandoffTypes'
  BY <1>1, <1>2, KeptIs DEF HandoffTypes
<1>4. /\ \A p \in Part : NoRecord[p] = 0
      /\ Newer(store.pair) /\ Newer(store.recovery)
  BY KeptIs, EmptyIs DEF KeptFits
<1>5. Newer(store.pair)' /\ Newer(store.recovery)' /\ Newer(store.auto)'
  <2>1. Newer(NoRecord)'
    BY <1>4 DEF Newer
  <2>2. CASE here
    BY <1>2, <2>1, <2>2 DEF Newer
  <2>3. CASE ~here
    BY <1>1, <1>2, <1>4, <2>1, <2>3 DEF Newer
  <2> QED BY <2>2, <2>3
<1>6. KeptFits(store, made)'
  <2>1. /\ store'.launch.session <= made
        /\ store'.launch.session = 0 \/ store'.launch.session \notin Spent
        /\ Full(store'.auto) /\ Goes(store'.auto) /\ Full(store'.recovery) /\ Goes(store'.recovery)
        /\ store'.recovery.session \notin ended
    BY <1>1, <1>2, KeptIs, EmptyIs DEF KeptFits
  <2> QED BY <1>1, <1>5, <2>1 DEF KeptFits, Full, Goes, Spent
<1>7. page' = "player" => PageFits'
  <2>1. page' = "player" => ~here /\ page = "player"
    BY <1>1
  <2> QED BY <1>1, <2>1, KeptIs DEF PageFits, Newer, Full, Goes, Spent, Resolved, Resumable
<1> QED BY <1>3, <1>6, <1>7 DEF HandoffInv

LEMMA HandoffGoesOn == HandoffInv /\ [HandoffNext]_handoffVars => HandoffInv'
<1> SUFFICES ASSUME HandoffInv, [HandoffNext]_handoffVars PROVE HandoffInv'
  OBVIOUS
<1>1. CASE UNCHANGED <<page, prefs, store, memory, query, form, stage, offer, offered, ended, signedOut,
                       apart, made>>
  BY <1>1 DEF HandoffInv, HandoffTypes, KeptFits, PageFits, Newer, Full, Goes, Spent, Resolved, Resumable
<1>2. PrepareLaunch => HandoffInv'
  BY LeaveKeeps DEF PrepareLaunch
<1>3. PairHost => HandoffInv'
  BY LeaveKeeps DEF PairHost
<1> QED BY <1>1, <1>2, <1>3, GoKeeps, OpenLinkKeeps, StartKeeps, SubmitKeeps, EndKeeps, SignOutKeeps
       DEF HandoffNext, handoffVars, TimePasses

\* What a session that begins is begun with.
LEMMA HandoffBegun ==
  HandoffInv /\ [HandoffNext]_handoffVars =>
    (stage' = "playing" /\ stage # "playing" =>
       /\ offer'.ticket \in {0, offer'.endpoint} \/ <<offer'.ticket, offer'.endpoint>> \in apart'
       /\ offer'.how \notin {"link", "form"} =>
            /\ offer'.code \in {0, offer'.endpoint}
            /\ \A p \in Part : offer'[p] = 0 \/ offer'[p] > signedOut
       /\ offer'.how \in {"recovery", "pair"} => offer'.session \notin ended
       /\ offer'.launch # 0 => offer'.launch \notin offered \cup {offer.launch})
<1> SUFFICES ASSUME HandoffInv, [HandoffNext]_handoffVars, stage' = "playing", stage # "playing"
    PROVE  /\ offer'.ticket \in {0, offer'.endpoint} \/ <<offer'.ticket, offer'.endpoint>> \in apart'
           /\ offer'.how \notin {"link", "form"} =>
                /\ offer'.code \in {0, offer'.endpoint}
                /\ \A p \in Part : offer'[p] = 0 \/ offer'[p] > signedOut
           /\ offer'.how \in {"recovery", "pair"} => offer'.session \notin ended
           /\ offer'.launch # 0 => offer'.launch \notin offered \cup {offer.launch}
  OBVIOUS
<1>1. ASSUME NEW how, NEW to, NEW saves, Connect(how, to, saves)
      PROVE  /\ offer'.how = how /\ offer'.endpoint = to.endpoint /\ offer'.ticket = to.ticket
             /\ offer'.session = (IF to.ticket # 0 THEN to.session
                                  ELSE FirstOf(query.session, memory.recovery.session))
             /\ offer'.code = memory.pair.endpoint /\ offer'.launch = memory.launch.session
  BY <1>1 DEF Connect
<1>2. ASSUME page = "player", stage \in {"loaded", "form"}
      PROVE  memory.launch.session # 0 => memory.launch.session \notin offered \cup {offer.launch}
  BY <1>2, KeptIs DEF PageFits, Spent
<1>3. ASSUME NEW saves, Start(saves)
      PROVE  /\ offer'.ticket \in {0, offer'.endpoint} \/ <<offer'.ticket, offer'.endpoint>> \in apart'
             /\ offer'.how \notin {"link", "form"} =>
                  /\ offer'.code \in {0, offer'.endpoint}
                  /\ \A p \in Part : offer'[p] = 0 \/ offer'[p] > signedOut
             /\ offer'.how \in {"recovery", "pair"} => offer'.session \notin ended
             /\ offer'.launch # 0 => offer'.launch \notin offered \cup {offer.launch}
  <2>1. page = "player" /\ stage = "loaded" /\ apart' = apart
    BY <1>3, StartIs
  <2>20. PICK how \in {"recovery", "link", "pair", "auto"} :
           \E to : Begins(how, to) /\ Connect(how, to, saves)
    BY <1>3, StartIs
  <2>2. PICK to : Begins(how, to) /\ Connect(how, to, saves)
    BY <2>20
  <2>3. /\ offer'.how = how /\ offer'.endpoint = to.endpoint /\ offer'.ticket = to.ticket
        /\ offer'.session = (IF to.ticket # 0 THEN to.session
                             ELSE FirstOf(query.session, memory.recovery.session))
        /\ offer'.code = memory.pair.endpoint /\ offer'.launch = memory.launch.session
    BY <1>1, <2>2
  <2>4. /\ to \in Triple /\ Newer(to) /\ Goes(to)
    BY <2>1, <2>2, BeginsFits
  <2>5. offer'.ticket \in {0, offer'.endpoint} \/ <<offer'.ticket, offer'.endpoint>> \in apart'
    BY <2>1, <2>3, <2>4 DEF Goes
  <2>6. /\ Newer(memory.recovery) /\ memory.recovery.session \notin ended /\ 0 \notin ended
        /\ memory.recovery.session = 0 \/ memory.recovery.session > signedOut
    BY <2>1, KeptIs, SlotsAre DEF PageFits, Newer
  <2>7. query = NoRecord => /\ query.session = 0
                            /\ Resolved(query, memory).ticket = Resumable(memory).ticket
                            /\ Resolved(query, memory).session = Resumable(memory).session
    <3>1. /\ Resolved(query, memory).session = FirstOf(query.session, Resumable(memory).session)
          /\ Resolved(query, memory).ticket = FirstOf(query.ticket, Resumable(memory).ticket)
      BY KeptIs, ResolvedIs
    <3> QED BY <3>1, EmptyIs DEF FirstOf
  <2>8. /\ Resumable(memory) \in {NoRecord, memory.recovery}
        /\ memory.pair # NoRecord => Resumable(memory) = NoRecord
    BY KeptIs, ResolvedIs
  <2>9. memory.pair = NoRecord => memory.pair.endpoint = 0
    BY EmptyIs
  <2>10. query = NoRecord => FirstOf(query.session, memory.recovery.session) = memory.recovery.session
    BY <2>7 DEF FirstOf
  <2>11. to.endpoint = 0 \/ to.endpoint > signedOut
    BY <2>4, SlotsAre DEF Newer
  <2>12. to.session = 0 \/ to.session > signedOut
    BY <2>4, SlotsAre DEF Newer
  <2>13. to.ticket = 0 \/ to.ticket > signedOut
    BY <2>4, SlotsAre DEF Newer
  <2>14. CASE how = "recovery"
    <3>1. /\ query = NoRecord /\ to = Resolved(query, memory) /\ to.ticket # 0
      BY <2>2, <2>14, SlotsAre DEF Begins
    <3>2. Resumable(memory) = memory.recovery /\ memory.pair = NoRecord
      BY <2>7, <2>8, <3>1, EmptyIs
    <3>3. offer'.session = to.session /\ to.session = memory.recovery.session /\ offer'.code = 0
      BY <2>3, <2>7, <2>9, <3>1, <3>2
    <3> QED BY <1>2, <2>1, <2>3, <2>5, <2>6, <2>11, <2>12, <2>13, <3>3 DEF Part
  <2>15. CASE how = "pair"
    <3>1. /\ query = NoRecord /\ memory.pair # NoRecord
          /\ to = [NoRecord EXCEPT !.endpoint = Resolved(query, memory).endpoint]
      BY <2>2, <2>15 DEF Begins
    <3>2. to.ticket = 0 /\ to.endpoint = Resolved(query, memory).endpoint
      BY <3>1, EmptyIs, SlotsAre DEF Triple
    <3>3. offer'.session = memory.recovery.session
      BY <2>3, <2>10, <3>1, <3>2
    <3>4. memory.pair.endpoint \in {0, to.endpoint}
      <4>1. Resolved(query, memory).endpoint =
              FirstOf(query.endpoint, FirstOf(memory.pair.endpoint,
                FirstOf(Resumable(memory).endpoint, IF prefs.custom THEN Default ELSE 0)))
        BY KeptIs, ResolvedIs
      <4> QED BY <3>1, <3>2, <4>1, EmptyIs DEF FirstOf
    <3> QED BY <1>2, <2>1, <2>3, <2>5, <2>6, <2>11, <2>13, <3>3, <3>4 DEF Part
  <2>16. CASE how = "auto"
    <3>1. memory.pair = NoRecord /\ to = store.auto /\ store.auto # NoRecord
      BY <2>2, <2>16 DEF Begins
    <3>2. to.ticket # 0
      BY <3>1, KeptIs, SlotsAre DEF KeptFits, Full
    <3>3. offer'.session = to.session /\ offer'.code = 0
      BY <2>3, <2>9, <3>1, <3>2
    <3> QED BY <1>2, <2>1, <2>3, <2>5, <2>11, <2>12, <2>13, <2>16, <3>3 DEF Part
  <2>17. CASE how = "link"
    BY <1>2, <2>1, <2>3, <2>5, <2>17
  <2> QED BY <2>14, <2>15, <2>16, <2>17
<1>4. ASSUME NEW typed \in SUBSET Part, NEW saves, Submit(typed, saves)
      PROVE  /\ offer'.how = "form"
             /\ offer'.ticket \in {0, offer'.endpoint} \/ <<offer'.ticket, offer'.endpoint>> \in apart'
             /\ offer'.launch # 0 => offer'.launch \notin offered \cup {offer.launch}
  <2>1. page = "player" /\ stage = "form" /\ Connect("form", form', saves)
    BY <1>4 DEF Submit
  <2>2. /\ offer'.how = "form" /\ offer'.endpoint = form'.endpoint /\ offer'.ticket = form'.ticket
        /\ offer'.launch = memory.launch.session
    BY <1>1, <2>1
  <2>3. HandoffInv' /\ page' = "player"
    BY <1>4, <2>1, SubmitKeeps DEF Connect
  <2>4. Goes(form)'
    BY <2>3 DEF HandoffInv, PageFits
  <2> QED BY <1>2, <2>1, <2>2, <2>4 DEF Goes
<1>5. \E saves : Start(saves) \/ \E typed \in SUBSET Part : Submit(typed, saves)
  <2>1. CASE \E saves \in BOOLEAN : Start(saves) \/ \E typed \in SUBSET Part : Submit(typed, saves)
    BY <2>1
  <2>2. CASE UNCHANGED handoffVars
    BY <2>2 DEF handoffVars
  <2>3. ASSUME NEW to, Go(to) PROVE FALSE
    BY <2>3 DEF Go, Load
  <2>4. ASSUME NEW named, OpenLink(named) PROVE FALSE
    BY <2>4 DEF OpenLink, Load
  <2>5. ~PrepareLaunch /\ ~PairHost
    BY DEF PrepareLaunch, PairHost, Leave, Load
  <2>6. ~End
    BY DEF End
  <2>7. ASSUME NEW here, SignOut(here) PROVE FALSE
    BY <2>7 DEF SignOut
  <2>8. ASSUME NEW past, TimePasses(past) PROVE FALSE
    BY <2>8 DEF TimePasses
  <2> QED BY <2>1, <2>2, <2>3, <2>4, <2>5, <2>6, <2>7, <2>8 DEF HandoffNext
<1> QED BY <1>3, <1>4, <1>5

\* Whatever the user does with the pages and however many records there are, a ticket goes to no
\* endpoint but its own unless an address or the user put the two together, what is taken up
\* without them is not forgotten and not ended, and a launch is offered once (player.mjs,
\* recovery-handoff.mjs, auto-login.mjs, host.mjs, handoff.mjs).
THEOREM HandoffStaysScoped == HandoffSpec => HandoffIsScoped
<1> QED BY HandoffBegins, HandoffGoesOn, HandoffBegun, PTL DEF HandoffSpec, HandoffIsScoped

-----------------------------------------------------------------------------
(***************************************************************************)
(* The candidates.  Each of the host's is in one place: on its way, in the *)
(* queue, or given to the peer; the invariant counts them there.           *)
(***************************************************************************)
Candidates(wire) == {wire[i].number : i \in {j \in DOMAIN wire : wire[j].type = "candidate"}}
Apart(wire) ==
  \A i, j \in DOMAIN wire :
    wire[i].type = "candidate" /\ wire[j].type = "candidate" /\ wire[i].number = wire[j].number => i = j

FromTheHost == [type : {"candidate", "answer", "refusal"}, number : Nat]
FromThePlayer == [type : {"candidate", "offer", "close"}, number : Nat]

ExchangeTypes ==
  /\ toPlayer \in Seq(FromTheHost) /\ toHost \in Seq(FromThePlayer)
  /\ pending \in Seq(Nat) /\ given \in Seq(Nat) /\ ready \in BOOLEAN
  /\ hostFound \in 0..MaxCandidates /\ found \in 0..MaxCandidates

\* The peer is given candidates once its remote description is set.
ReadyInv ==
  /\ ready => playerPeer \in {"described", "closed"}
  /\ given # <<>> => ready

\* No candidate of the host is in two places.
OnceInv ==
  /\ Apart(toPlayer) /\ IsInjective(pending) /\ IsInjective(given)
  /\ Candidates(toPlayer) \cap ToSet(pending) = {}
  /\ Candidates(toPlayer) \cap ToSet(given) = {}
  /\ ToSet(pending) \cap ToSet(given) = {}
  /\ Candidates(toPlayer) \cup ToSet(pending) \cup ToSet(given) \subseteq 1..hostFound

\* None of either side is nowhere.
CameInv ==
  /\ playerPeer # "closed" =>
       \A n \in 1..hostFound : \/ n \in Candidates(toPlayer) \cup ToSet(pending) \cup ToSet(given)
                              \/ FromHost(n) \in excused
  /\ \A n \in 1..found : n \in taken \/ n \in Candidates(toHost) \/ FromPlayer(n) \in excused

ExchangeInv == ExchangeTypes /\ ReadyInv /\ OnceInv /\ CameInv

\* A message that is removed from a wire.
LEMMA RemoveAtIs ==
  ASSUME NEW S, NEW w \in Seq(S), NEW i \in DOMAIN w
  PROVE  /\ RemoveAt(w, i) \in Seq(S) /\ Len(RemoveAt(w, i)) = Len(w) - 1
         /\ \A k \in 1..(Len(w) - 1) : k < i => RemoveAt(w, i)[k] = w[k]
         /\ \A k \in 1..(Len(w) - 1) : k >= i => RemoveAt(w, i)[k] = w[k + 1]
<1> DEFINE u == SubSeq(w, 1, i - 1)
           v == SubSeq(w, i + 1, Len(w))
<1>1. u \in Seq(S) /\ Len(u) = i - 1 /\ \A k \in 1..Len(u) : u[k] = w[k]
  OBVIOUS
<1>2. v \in Seq(S) /\ Len(v) = Len(w) - i /\ \A k \in 1..Len(v) : v[k] = w[i + k]
  OBVIOUS
<1>3. RemoveAt(w, i) = u \o v
  BY DEF RemoveAt
<1>4. i \in 1..Len(w) /\ Len(w) \in Nat
  OBVIOUS
<1> HIDE DEF u, v
<1>5. u \o v \in Seq(S) /\ Len(u \o v) = Len(w) - 1
  BY <1>1, <1>2, <1>4
<1>6. ASSUME NEW k \in 1..(Len(w) - 1), k < i PROVE (u \o v)[k] = w[k]
  BY <1>1, <1>2, <1>4, <1>6
<1>7. ASSUME NEW k \in 1..(Len(w) - 1), k >= i PROVE (u \o v)[k] = w[k + 1]
  <2>1. k - Len(u) \in 1..Len(v) /\ (u \o v)[k] = v[k - Len(u)]
    BY <1>1, <1>2, <1>4, <1>7, SMTT(60)
  <2>2. i + (k - Len(u)) = k + 1
    BY <1>1, <1>4
  <2> QED BY <1>2, <2>1, <2>2
<1> QED BY <1>3, <1>5, <1>6, <1>7

LEMMA WireRemoves ==
  ASSUME NEW S, NEW w \in Seq(S), NEW i \in DOMAIN w
  PROVE  /\ RemoveAt(w, i) \in Seq(S)
         /\ Candidates(RemoveAt(w, i)) \subseteq Candidates(w)
         /\ Candidates(w) \subseteq Candidates(RemoveAt(w, i)) \cup {w[i].number}
         /\ w[i].type # "candidate" => Candidates(w) \subseteq Candidates(RemoveAt(w, i))
         /\ Apart(w) => /\ Apart(RemoveAt(w, i))
                        /\ w[i].type = "candidate" => w[i].number \notin Candidates(RemoveAt(w, i))
<1> DEFINE r == RemoveAt(w, i)
           old(k) == IF k < i THEN k ELSE k + 1
<1>1. /\ r \in Seq(S) /\ Len(r) = Len(w) - 1
      /\ \A k \in 1..(Len(w) - 1) : k < i => r[k] = w[k]
      /\ \A k \in 1..(Len(w) - 1) : k >= i => r[k] = w[k + 1]
  BY RemoveAtIs
<1> HIDE DEF r
<1>2. /\ DOMAIN r = 1..(Len(w) - 1) /\ DOMAIN w = 1..Len(w) /\ Len(w) \in Nat /\ i \in 1..Len(w)
  BY <1>1
<1>3. /\ \A k \in DOMAIN r : old(k) \in DOMAIN w /\ old(k) # i /\ r[k] = w[old(k)]
      /\ \A k, l \in DOMAIN r : old(k) = old(l) => k = l
  <2>1. ASSUME NEW k \in DOMAIN r PROVE old(k) \in DOMAIN w /\ old(k) # i /\ r[k] = w[old(k)]
    <3>1. ASSUME k < i PROVE old(k) = k /\ k \in DOMAIN w /\ k # i /\ r[k] = w[k]
      <4>1. old(k) = k
        BY <3>1
      <4>2. k \in 1..(Len(w) - 1) /\ Len(w) \in Nat
        BY <1>2
      <4>3. r[k] = w[k]
        <5>1. \A m \in 1..(Len(w) - 1) : m < i => r[m] = w[m]
          BY ONLY <1>1
        <5> QED BY <3>1, <4>2, <5>1
      <4>4. k \in 1..Len(w) /\ k # i
        BY <1>2, <3>1, <4>2
      <4> QED BY <1>2, <4>1, <4>3, <4>4
    <3>2. ASSUME k >= i PROVE old(k) = k + 1 /\ k + 1 \in DOMAIN w /\ k + 1 # i /\ r[k] = w[k + 1]
      BY <1>1, <1>2, <3>2
    <3>3. k < i \/ k >= i
      BY <1>2
    <3> HIDE DEF old
    <3> QED BY <3>1, <3>2, <3>3
  <2>2. ASSUME NEW k \in DOMAIN r, NEW l \in DOMAIN r, old(k) = old(l) PROVE k = l
    BY <1>2, <2>2
  <2> QED BY <2>1, <2>2
<1>4. ASSUME NEW j \in DOMAIN w, j # i PROVE \E k \in DOMAIN r : old(k) = j
  <2>1. CASE j < i
    BY <1>2, <2>1
  <2>2. CASE j > i
    <3>1. j - 1 \in DOMAIN r /\ old(j - 1) = j
      BY <1>2, <2>2
    <3> QED BY <3>1
  <2> QED BY <1>2, <1>4, <2>1, <2>2
<1> HIDE DEF old
<1>5. Candidates(r) \subseteq Candidates(w)
  BY <1>3 DEF Candidates
<1>6. ASSUME NEW n \in Candidates(w)
      PROVE  n \in Candidates(r) \/ (n = w[i].number /\ w[i].type = "candidate")
  <2>1. PICK j \in DOMAIN w : w[j].type = "candidate" /\ n = w[j].number
    BY <1>6 DEF Candidates
  <2>2. CASE j # i
    <3>1. PICK k \in DOMAIN r : old(k) = j
      BY <1>4, <2>2
    <3>2. r[k] = w[j]
      BY <1>3, <3>1
    <3> QED BY <2>1, <3>2 DEF Candidates
  <2> QED BY <2>1, <2>2
<1>7. Apart(w) => Apart(r)
  BY <1>3 DEF Apart
<1>8. ASSUME Apart(w), w[i].type = "candidate" PROVE w[i].number \notin Candidates(r)
  BY <1>3, <1>8 DEF Apart, Candidates
<1> QED BY <1>1, <1>5, <1>6, <1>7, <1>8 DEF r

LEMMA WireAppends ==
  ASSUME NEW S, NEW w \in Seq(S), NEW m \in S
  PROVE  /\ Append(w, m) \in Seq(S)
         /\ m.type = "candidate" =>
              /\ Candidates(Append(w, m)) = Candidates(w) \cup {m.number}
              /\ Apart(w) /\ m.number \notin Candidates(w) => Apart(Append(w, m))
         /\ m.type # "candidate" =>
              /\ Candidates(Append(w, m)) = Candidates(w)
              /\ Apart(w) => Apart(Append(w, m))
<1> DEFINE a == Append(w, m)
           l == Len(w) + 1
<1>1. /\ a \in Seq(S) /\ DOMAIN a = DOMAIN w \cup {l} /\ l \notin DOMAIN w /\ a[l] = m
      /\ \A i \in DOMAIN w : a[i] = w[i]
  OBVIOUS
<1> HIDE DEF a, l
<1>2. CASE m.type = "candidate"
  <2>1. Candidates(a) = Candidates(w) \cup {m.number}
    BY <1>1, <1>2 DEF Candidates
  <2>2. ASSUME Apart(w), m.number \notin Candidates(w) PROVE Apart(a)
    BY <1>1, <1>2, <2>2 DEF Candidates, Apart
  <2> QED BY <1>1, <1>2, <2>1, <2>2 DEF a
<1>3. CASE m.type # "candidate"
  <2>1. Candidates(a) = Candidates(w)
    BY <1>1, <1>3 DEF Candidates
  <2>2. Apart(w) => Apart(a)
    BY <1>1, <1>3 DEF Apart
  <2> QED BY <1>1, <1>3, <2>1, <2>2 DEF a
<1> QED BY <1>2, <1>3

\* One more in a queue, or the first one less.
LEMMA QueueAppends ==
  ASSUME NEW q \in Seq(Nat), NEW n \in Nat, IsInjective(q), n \notin ToSet(q)
  PROVE  Append(q, n) \in Seq(Nat) /\ IsInjective(Append(q, n))
         /\ ToSet(Append(q, n)) = ToSet(q) \cup {n} /\ Append(q, n) # <<>>
<1> DEFINE a == Append(q, n)
           l == Len(q) + 1
<1>1. /\ a \in Seq(Nat) /\ DOMAIN a = DOMAIN q \cup {l} /\ l \notin DOMAIN q /\ a[l] = n
      /\ \A i \in DOMAIN q : a[i] = q[i]
  OBVIOUS
<1>2. a # <<>>
  <2>1. Len(a) = Len(q) + 1 /\ Len(q) \in Nat
    OBVIOUS
  <2> QED BY <2>1
<1> HIDE DEF a, l
<1>3. ToSet(a) = ToSet(q) \cup {n}
  BY <1>1 DEF ToSet
<1>4. IsInjective(a)
  BY <1>1 DEF IsInjective, ToSet
<1> QED BY <1>1, <1>2, <1>3, <1>4 DEF a

LEMMA QueueShifts ==
  ASSUME NEW q \in Seq(Nat), q # <<>>, IsInjective(q)
  PROVE  /\ Head(q) \in Nat /\ Tail(q) \in Seq(Nat) /\ IsInjective(Tail(q))
         /\ ToSet(q) = ToSet(Tail(q)) \cup {Head(q)} /\ Head(q) \notin ToSet(Tail(q))
<1> DEFINE t == Tail(q)
<1>1. /\ t \in Seq(Nat) /\ Len(t) = Len(q) - 1 /\ Head(q) = q[1] /\ Len(q) \in Nat /\ Len(q) >= 1
      /\ \A i \in 1..(Len(q) - 1) : t[i] = q[i + 1]
  OBVIOUS
<1> HIDE DEF t
<1>2. /\ \A i \in DOMAIN t : i + 1 \in DOMAIN q /\ t[i] = q[i + 1] /\ i \in Nat /\ i # 0
      /\ \A i \in DOMAIN q : i # 1 => i - 1 \in DOMAIN t /\ t[i - 1] = q[i]
      /\ 1 \in DOMAIN q /\ Head(q) = q[1]
  <2>1. DOMAIN t = 1..(Len(q) - 1) /\ DOMAIN q = 1..Len(q) /\ Len(q) \in Nat /\ Len(q) >= 1
    BY <1>1
  <2>2. \A i \in DOMAIN t : i + 1 \in DOMAIN q /\ i \in Nat /\ i # 0
    BY <2>1
  <2>3. \A i \in DOMAIN t : t[i] = q[i + 1]
    BY <1>1, <2>1
  <2>4. ASSUME NEW i \in DOMAIN q, i # 1 PROVE i - 1 \in DOMAIN t /\ t[i - 1] = q[i]
    <3>1. i - 1 \in 1..(Len(q) - 1) /\ (i - 1) + 1 = i
      BY <2>1, <2>4
    <3> QED BY <1>1, <2>1, <3>1
  <2> QED BY <1>1, <2>1, <2>2, <2>3, <2>4
<1>3. IsInjective(t) /\ Head(q) \notin ToSet(t)
  <2>1. ASSUME NEW i \in DOMAIN t, NEW j \in DOMAIN t, t[i] = t[j] PROVE i = j
    <3>1. i + 1 = j + 1
      BY <1>2, <2>1 DEF IsInjective
    <3> QED BY <1>2, <3>1
  <2>2. ASSUME NEW i \in DOMAIN t PROVE t[i] # Head(q)
    <3>1. i + 1 # 1
      BY <1>2
    <3> QED BY <1>2, <3>1 DEF IsInjective
  <2> QED BY <2>1, <2>2 DEF IsInjective, ToSet
<1>4. ASSUME NEW n \in ToSet(q) PROVE n \in ToSet(t) \/ n = Head(q)
  <2>1. PICK i \in DOMAIN q : n = q[i]
    BY <1>4 DEF ToSet
  <2>2. CASE i # 1
    <3>1. i - 1 \in DOMAIN t /\ t[i - 1] = n
      BY <1>2, <2>1, <2>2
    <3> QED BY <3>1 DEF ToSet
  <2> QED BY <1>2, <2>1, <2>2
<1>5. ToSet(t) \subseteq ToSet(q) /\ Head(q) \in ToSet(q)
  BY <1>2 DEF ToSet
<1>6. Head(q) \in Nat
  BY <1>2
<1> QED BY <1>1, <1>3, <1>4, <1>5, <1>6 DEF t

LEMMA ExchangeBegins == ExchangeInit => ExchangeInv
<1> SUFFICES ASSUME ExchangeInit PROVE ExchangeInv
  OBVIOUS
<1>1. /\ toPlayer = <<>> /\ toHost = <<>> /\ pending = <<>> /\ given = <<>> /\ ready = FALSE
      /\ hostFound = 0 /\ found = 0
  BY DEF ExchangeInit
<1>2. ExchangeTypes
  <2>1. <<>> \in Seq(FromTheHost) /\ <<>> \in Seq(FromThePlayer) /\ <<>> \in Seq(Nat)
    OBVIOUS
  <2>2. 0 \in 0..MaxCandidates
    BY ExchangeAssumption
  <2> QED BY <1>1, <2>1, <2>2 DEF ExchangeTypes
<1>3. ReadyInv
  BY <1>1 DEF ReadyInv
<1>4. OnceInv
  <2>1. /\ Candidates(<<>>) = {} /\ Apart(<<>>) /\ IsInjective(<<>>) /\ ToSet(<<>>) = {}
    BY DEF Candidates, Apart, IsInjective, ToSet
  <2> QED BY <1>1, <2>1 DEF OnceInv
<1>5. CameInv
  BY <1>1 DEF CameInv
<1> QED BY <1>2, <1>3, <1>4, <1>5 DEF ExchangeInv

\* What is sent is on the wire, or excused.
LEMMA SentKeeps ==
  ASSUME ExchangeTypes, NEW m \in FromThePlayer, Sent(m)
  PROVE  /\ toHost' \in Seq(FromThePlayer) /\ Candidates(toHost) \subseteq Candidates(toHost')
         /\ excused \subseteq excused'
         /\ m.type = "candidate" =>
              m.number \in Candidates(toHost') \/ FromPlayer(m.number) \in excused'
<1>1. CASE toHost' = Append(toHost, m) /\ UNCHANGED excused
  <2>1. toHost \in Seq(FromThePlayer)
    BY DEF ExchangeTypes
  <2>2. /\ Append(toHost, m) \in Seq(FromThePlayer)
        /\ m.type = "candidate" => Candidates(Append(toHost, m)) = Candidates(toHost) \cup {m.number}
        /\ m.type # "candidate" => Candidates(Append(toHost, m)) = Candidates(toHost)
    BY <2>1, WireAppends
  <2> QED BY <1>1, <2>2
<1>2. CASE UNCHANGED toHost /\ excused' = excused \cup {FromPlayer(m.number)}
  BY <1>2 DEF ExchangeTypes
<1> QED BY <1>1, <1>2 DEF Sent

\* Steps that leave the host's candidates where they are.
LEMMA HostsStay ==
  ASSUME ExchangeInv, UNCHANGED <<toPlayer, pending, given, ready, hostFound>>,
         excused \subseteq excused', found' \in 0..MaxCandidates, toHost' \in Seq(FromThePlayer),
         playerPeer' # "closed" => playerPeer # "closed",
         ready => playerPeer' \in {"described", "closed"},
         \A n \in 1..found' : n \in taken' \/ n \in Candidates(toHost') \/ FromPlayer(n) \in excused'
  PROVE  ExchangeInv'
<1>1. ExchangeTypes'
  BY DEF ExchangeInv, ExchangeTypes
<1>2. ReadyInv' /\ OnceInv'
  BY DEF ExchangeInv, ReadyInv, OnceInv
<1>3. CameInv'
  BY DEF ExchangeInv, CameInv
<1> QED BY <1>1, <1>2, <1>3 DEF ExchangeInv

\* The player's candidates after a step that takes none away.
LEMMA PlayersStay ==
  ASSUME ExchangeInv, found' = found, taken \subseteq taken', excused \subseteq excused',
         Candidates(toHost) \subseteq Candidates(toHost') \cup taken' \cup {n \in Nat : FromPlayer(n) \in excused'}
  PROVE  \A n \in 1..found' : n \in taken' \/ n \in Candidates(toHost') \/ FromPlayer(n) \in excused'
BY DEF ExchangeInv, CameInv

LEMMA LinkKeeps ==
  ASSUME ExchangeInv, StartExchange \/ (\E opens \in BOOLEAN : LinkSettles(opens)) \/ LinkEnds
  PROVE  ExchangeInv'
<1>1. CASE StartExchange
  <2>1. /\ UNCHANGED <<toPlayer, pending, given, ready, hostFound, excused, found, toHost, taken>>
        /\ playerPeer = "idle"
    BY <1>1 DEF StartExchange, peerHostVars
  <2> QED BY <2>1, HostsStay, PlayersStay DEF ExchangeInv, ExchangeTypes, ReadyInv
<1>2. ASSUME NEW opens \in BOOLEAN, LinkSettles(opens) PROVE ExchangeInv'
  <2>1. /\ UNCHANGED <<toPlayer, pending, given, ready, hostFound, excused, found, toHost, taken>>
        /\ playerPeer' = playerPeer \/ playerPeer = "connecting"
    BY <1>2 DEF LinkSettles, peerHostVars
  <2> QED BY <2>1, HostsStay, PlayersStay DEF ExchangeInv, ExchangeTypes, ReadyInv
<1>3. CASE LinkEnds
  <2>1. /\ toHost' = <<>> /\ toPlayer' = <<>>
        /\ UNCHANGED <<playerPeer, pending, given, ready, hostFound, found, taken>>
        /\ \A n \in 1..MaxCandidates : FromPlayer(n) \in excused' /\ FromHost(n) \in excused'
    BY <1>3 DEF LinkEnds, peerHostVars
  <2>2. Candidates(<<>>) = {} /\ Apart(<<>>)
    BY DEF Candidates, Apart
  <2>3. \A n \in 1..found : n \in 1..MaxCandidates
    BY ExchangeAssumption DEF ExchangeInv, ExchangeTypes
  <2>4. \A n \in 1..hostFound : n \in 1..MaxCandidates
    BY ExchangeAssumption DEF ExchangeInv, ExchangeTypes
  <2>5. ExchangeTypes' /\ ReadyInv'
    BY <2>1 DEF ExchangeInv, ExchangeTypes, ReadyInv
  <2>6. OnceInv'
    BY <2>1, <2>2 DEF ExchangeInv, OnceInv
  <2>7. CameInv'
    BY <2>1, <2>2, <2>3, <2>4 DEF CameInv
  <2> QED BY <2>5, <2>6, <2>7 DEF ExchangeInv
<1> QED BY <1>1, <1>2, <1>3

LEMMA PlayerSendsKeeps ==
  ASSUME ExchangeInv, OfferMade \/ CandidateFound \/ CloseExchange PROVE ExchangeInv'
<1> ExchangeTypes /\ ReadyInv
  BY DEF ExchangeInv
<1>1. CASE OfferMade
  <2>1. Signal("offer", None) \in FromThePlayer
    BY DEF Signal, None, FromThePlayer
  <2>2. /\ toHost' \in Seq(FromThePlayer) /\ Candidates(toHost) \subseteq Candidates(toHost')
        /\ excused \subseteq excused'
    BY <1>1, <2>1, SentKeeps DEF OfferMade
  <2>3. /\ UNCHANGED <<toPlayer, pending, given, ready, hostFound, found, taken>>
        /\ playerPeer = "offering"
    BY <1>1 DEF OfferMade, peerHostVars
  <2>4. found' \in 0..MaxCandidates
    BY <2>3 DEF ExchangeTypes
  <2> QED BY <2>2, <2>3, <2>4, HostsStay, PlayersStay DEF ReadyInv
<1>2. CASE CandidateFound
  <2>1. /\ UNCHANGED <<toPlayer, pending, given, ready, hostFound, taken, playerPeer>>
        /\ found < MaxCandidates /\ found' = found + 1 /\ Sent(Signal("candidate", found'))
    BY <1>2 DEF CandidateFound, peerHostVars
  <2>2. found' \in 0..MaxCandidates /\ found' \in Nat /\ \A n \in 1..found' : n = found' \/ n \in 1..found
    BY <2>1, ExchangeAssumption DEF ExchangeTypes
  <2>3. /\ Signal("candidate", found') \in FromThePlayer
        /\ Signal("candidate", found').type = "candidate" /\ Signal("candidate", found').number = found'
    BY <2>2 DEF Signal, FromThePlayer
  <2>4. /\ toHost' \in Seq(FromThePlayer) /\ Candidates(toHost) \subseteq Candidates(toHost')
        /\ excused \subseteq excused'
        /\ found' \in Candidates(toHost') \/ FromPlayer(found') \in excused'
    BY <2>1, <2>3, SentKeeps
  <2>5. \A n \in 1..found' : n \in taken' \/ n \in Candidates(toHost') \/ FromPlayer(n) \in excused'
    BY <2>1, <2>2, <2>4 DEF ExchangeInv, CameInv
  <2> QED BY <2>1, <2>2, <2>4, <2>5, HostsStay DEF ReadyInv
<1>3. CASE CloseExchange
  <2>1. /\ UNCHANGED <<toPlayer, given, ready, hostFound, found, taken, excused>>
        /\ playerPeer' = "closed" /\ pending' = <<>>
        /\ toHost' = toHost \/ toHost' = Append(toHost, Signal("close", None))
    BY <1>3 DEF CloseExchange, peerHostVars
  <2>2. Signal("close", None) \in FromThePlayer /\ Signal("close", None).type = "close"
    BY DEF Signal, None, FromThePlayer
  <2>3. toHost' \in Seq(FromThePlayer) /\ Candidates(toHost) \subseteq Candidates(toHost')
    <3>1. CASE toHost' = toHost
      BY <3>1 DEF ExchangeTypes
    <3>2. CASE toHost' = Append(toHost, Signal("close", None))
      <4> DEFINE m == Signal("close", None)
      <4>1. toHost \in Seq(FromThePlayer) /\ m \in FromThePlayer /\ m.type # "candidate"
        BY <2>2 DEF ExchangeTypes
      <4> HIDE DEF m
      <4>2. Append(toHost, m) \in Seq(FromThePlayer) /\ Candidates(Append(toHost, m)) = Candidates(toHost)
        BY <4>1, WireAppends
      <4> QED BY <3>2, <4>2 DEF m
    <3> QED BY <2>1, <3>1, <3>2
  <2>4. IsInjective(<<>>) /\ ToSet(<<>>) = {} /\ <<>> \in Seq(Nat)
    BY DEF IsInjective, ToSet
  <2>5. ExchangeTypes' /\ ReadyInv'
    BY <2>1, <2>3, <2>4 DEF ExchangeTypes, ReadyInv
  <2>6. OnceInv'
    BY <2>1, <2>4 DEF ExchangeInv, OnceInv
  <2>7. CameInv'
    BY <2>1, <2>3, PlayersStay DEF CameInv
  <2> QED BY <2>5, <2>6, <2>7 DEF ExchangeInv
<1> QED BY <1>1, <1>2, <1>3

\* The player takes a message off its wire.
LEMMA PlayerReceivesKeeps == ASSUME ExchangeInv, PlayerReceives PROVE ExchangeInv'
<1> ExchangeTypes /\ ReadyInv /\ OnceInv /\ CameInv
  BY DEF ExchangeInv
<1>1. /\ UNCHANGED <<found, toHost, hostFound, taken>> /\ playerPeer # "closed"
  BY DEF PlayerReceives, peerHostVars
<1>2. PICK i \in DOMAIN toPlayer :
        /\ toPlayer' = RemoveAt(toPlayer, i)
        /\ CASE toPlayer[i].type = "candidate" -> CandidateReceived(toPlayer[i].number)
             [] toPlayer[i].type = "answer" -> AnswerReceived
             [] toPlayer[i].type = "refusal" -> UNCHANGED <<playerPeer, ready, pending, given, excused>>
  BY DEF PlayerReceives
<1> DEFINE n == toPlayer[i].number
<1>3. toPlayer[i] \in FromTheHost /\ toPlayer \in Seq(FromTheHost)
  BY DEF ExchangeTypes
<1>4. n \in Nat /\ toPlayer[i].type \in {"candidate", "answer", "refusal"}
  BY <1>3 DEF FromTheHost
<1>5. /\ toPlayer' \in Seq(FromTheHost) /\ Apart(toPlayer')
      /\ Candidates(toPlayer') \subseteq Candidates(toPlayer)
      /\ Candidates(toPlayer) \subseteq Candidates(toPlayer') \cup {n}
      /\ toPlayer[i].type # "candidate" => Candidates(toPlayer) = Candidates(toPlayer')
      /\ toPlayer[i].type = "candidate" => n \notin Candidates(toPlayer')
  <2>1. /\ RemoveAt(toPlayer, i) \in Seq(FromTheHost) /\ Apart(RemoveAt(toPlayer, i))
        /\ Candidates(RemoveAt(toPlayer, i)) \subseteq Candidates(toPlayer)
        /\ Candidates(toPlayer) \subseteq Candidates(RemoveAt(toPlayer, i)) \cup {n}
        /\ toPlayer[i].type # "candidate" => Candidates(toPlayer) \subseteq Candidates(RemoveAt(toPlayer, i))
        /\ toPlayer[i].type = "candidate" => n \notin Candidates(RemoveAt(toPlayer, i))
    BY <1>3, WireRemoves DEF OnceInv
  <2> QED BY <1>2, <2>1
<1>6. CASE toPlayer[i].type = "candidate"
  <2>1. CandidateReceived(n)
    BY <1>2, <1>6
  <2>2. n \in Candidates(toPlayer)
    BY <1>6 DEF Candidates
  <2>3. n \in 1..hostFound /\ n \notin ToSet(pending) /\ n \notin ToSet(given)
    BY <2>2 DEF OnceInv
  <2>4. CASE ready
    <3>1. given' = Append(given, n) /\ UNCHANGED <<pending, excused, playerPeer, ready>>
      BY <2>1, <2>4 DEF CandidateReceived
    <3>2. /\ given' \in Seq(Nat) /\ IsInjective(given') /\ ToSet(given') = ToSet(given) \cup {n}
      BY <1>4, <2>3, <3>1, QueueAppends DEF ExchangeTypes, OnceInv
    <3>3. ExchangeTypes' /\ ReadyInv'
      BY <1>1, <1>5, <2>4, <3>1, <3>2 DEF ExchangeTypes, ReadyInv
    <3>4. OnceInv'
      BY <1>1, <1>5, <1>6, <2>3, <3>1, <3>2 DEF OnceInv
    <3>5. CameInv'
      BY <1>1, <1>5, <3>1, <3>2 DEF CameInv
    <3> QED BY <3>3, <3>4, <3>5 DEF ExchangeInv
  <2>5. CASE ~ready /\ Len(pending) < MaxPending
    <3>1. pending' = Append(pending, n) /\ UNCHANGED <<given, excused, playerPeer, ready>>
      BY <2>1, <2>5 DEF CandidateReceived
    <3>2. /\ pending' \in Seq(Nat) /\ IsInjective(pending') /\ ToSet(pending') = ToSet(pending) \cup {n}
      BY <1>4, <2>3, <3>1, QueueAppends DEF ExchangeTypes, OnceInv
    <3>3. ExchangeTypes' /\ ReadyInv'
      BY <1>1, <1>5, <3>1, <3>2 DEF ExchangeTypes, ReadyInv
    <3>4. OnceInv'
      BY <1>1, <1>5, <1>6, <2>3, <3>1, <3>2 DEF OnceInv
    <3>5. CameInv'
      BY <1>1, <1>5, <3>1, <3>2 DEF CameInv
    <3> QED BY <3>3, <3>4, <3>5 DEF ExchangeInv
  <2>6. CASE ~ready /\ ~(Len(pending) < MaxPending)
    <3>1. excused' = excused \cup {FromHost(n)} /\ UNCHANGED <<given, pending, playerPeer, ready>>
      BY <2>1, <2>6 DEF CandidateReceived
    <3>2. ExchangeTypes' /\ ReadyInv'
      BY <1>1, <1>5, <3>1 DEF ExchangeTypes, ReadyInv
    <3>3. OnceInv'
      BY <1>1, <1>5, <3>1 DEF OnceInv
    <3>4. CameInv'
      BY <1>1, <1>5, <3>1 DEF CameInv
    <3> QED BY <3>2, <3>3, <3>4 DEF ExchangeInv
  <2> QED BY <2>4, <2>5, <2>6
<1>7. CASE toPlayer[i].type # "candidate"
  <2>1. /\ UNCHANGED <<ready, pending, given, excused>>
        /\ playerPeer' = playerPeer \/ (playerPeer = "offered" /\ playerPeer' = "answering")
    BY <1>2, <1>4, <1>7 DEF AnswerReceived
  <2>2. ExchangeTypes' /\ ReadyInv'
    BY <1>1, <1>5, <2>1 DEF ExchangeTypes, ReadyInv
  <2>3. OnceInv'
    BY <1>1, <1>5, <1>7, <2>1 DEF OnceInv
  <2>4. CameInv'
    BY <1>1, <1>5, <1>7, <2>1 DEF CameInv
  <2> QED BY <2>2, <2>3, <2>4 DEF ExchangeInv
<1> QED BY <1>6, <1>7

LEMMA PeerKeeps ==
  ASSUME ExchangeInv, AnswerApplied \/ AnswerRefused \/ Drain \/ Drained \/ ChannelChanges
  PROVE  ExchangeInv'
<1> ExchangeTypes /\ ReadyInv /\ OnceInv /\ CameInv
  BY DEF ExchangeInv
<1>1. CASE AnswerApplied
  <2>1. /\ UNCHANGED <<toPlayer, pending, given, hostFound, excused, found, toHost, taken>>
        /\ playerPeer = "answering" /\ playerPeer' = "described" /\ ready' = TRUE
    BY <1>1 DEF AnswerApplied, peerHostVars
  <2> QED BY <2>1 DEF ExchangeInv, ExchangeTypes, ReadyInv, OnceInv, CameInv
<1>2. CASE AnswerRefused
  <2>1. /\ UNCHANGED <<toPlayer, given, ready, hostFound, found, toHost, taken>>
        /\ playerPeer = "answering" /\ playerPeer' = "failed" /\ pending' = <<>>
        /\ excused \subseteq excused' /\ \A n \in ToSet(pending) : FromHost(n) \in excused'
    BY <1>2 DEF AnswerRefused, peerHostVars
  <2>2. IsInjective(<<>>) /\ ToSet(<<>>) = {} /\ <<>> \in Seq(Nat)
    BY DEF IsInjective, ToSet
  <2>3. ExchangeTypes' /\ ReadyInv'
    BY <2>1, <2>2 DEF ExchangeTypes, ReadyInv
  <2>4. OnceInv'
    BY <2>1, <2>2 DEF OnceInv
  <2>5. CameInv'
    BY <2>1, <2>2 DEF CameInv
  <2> QED BY <2>3, <2>4, <2>5 DEF ExchangeInv
<1>3. CASE Drain
  <2>1. /\ UNCHANGED <<toPlayer, ready, playerPeer, hostFound, excused, found, toHost, taken>>
        /\ ready /\ pending # <<>> /\ pending' = Tail(pending) /\ given' = Append(given, Head(pending))
    BY <1>3 DEF Drain, peerHostVars
  <2>2. /\ Head(pending) \in Nat /\ pending' \in Seq(Nat) /\ IsInjective(pending')
        /\ ToSet(pending) = ToSet(pending') \cup {Head(pending)} /\ Head(pending) \notin ToSet(pending')
    BY <2>1, QueueShifts DEF ExchangeTypes, OnceInv
  <2>3. Head(pending) \notin ToSet(given)
    BY <2>2 DEF OnceInv
  <2>4. given' \in Seq(Nat) /\ IsInjective(given') /\ ToSet(given') = ToSet(given) \cup {Head(pending)}
    BY <2>1, <2>2, <2>3, QueueAppends DEF ExchangeTypes, OnceInv
  <2>5. ExchangeTypes' /\ ReadyInv'
    BY <2>1, <2>2, <2>4 DEF ExchangeTypes, ReadyInv
  <2>6. OnceInv'
    BY <2>1, <2>2, <2>4 DEF OnceInv
  <2>7. CameInv'
    BY <2>1, <2>2, <2>4 DEF CameInv
  <2> QED BY <2>5, <2>6, <2>7 DEF ExchangeInv
<1>4. CASE Drained \/ ChannelChanges
  <2>1. UNCHANGED <<toPlayer, pending, given, ready, playerPeer, hostFound, excused, found, toHost, taken>>
    BY <1>4 DEF Drained, ChannelChanges, peerHostVars
  <2> QED BY <2>1 DEF ExchangeInv, ExchangeTypes, ReadyInv, OnceInv, CameInv
<1> QED BY <1>1, <1>2, <1>3, <1>4

\* The host takes a message off its wire.
LEMMA HostReceivesKeeps == ASSUME ExchangeInv, HostReceives PROVE ExchangeInv'
<1> ExchangeTypes /\ ReadyInv /\ OnceInv /\ CameInv
  BY DEF ExchangeInv
<1>1. UNCHANGED <<ready, pending, given, playerPeer, found, hostFound>>
  BY DEF HostReceives, playerVars
<1>2. PICK i \in DOMAIN toHost :
        /\ toHost' = RemoveAt(toHost, i)
        /\ CASE toHost[i].type = "offer" ->
                  IF hostPeer = "listening" THEN OfferReceived
                  ELSE UNCHANGED <<hostPeer, taken, excused, toPlayer>>
             [] toHost[i].type = "candidate" -> HostHears(toHost[i].number) /\ UNCHANGED toPlayer
             [] toHost[i].type = "close" ->
                  /\ hostPeer' = IF hostPeer \in Listens THEN "closed" ELSE hostPeer
                  /\ UNCHANGED <<taken, excused, toPlayer>>
  BY DEF HostReceives
<1> DEFINE n == toHost[i].number
<1>3. toHost[i] \in FromThePlayer /\ toHost \in Seq(FromThePlayer)
  BY DEF ExchangeTypes
<1>4. n \in Nat /\ toHost[i].type \in {"candidate", "offer", "close"}
  BY <1>3 DEF FromThePlayer
<1>5. /\ toHost' \in Seq(FromThePlayer)
      /\ Candidates(toHost) \subseteq Candidates(toHost') \cup {n}
      /\ toHost[i].type # "candidate" => Candidates(toHost) \subseteq Candidates(toHost')
  BY <1>2, <1>3, WireRemoves
<1>6. /\ taken \subseteq taken' /\ excused \subseteq excused'
      /\ toHost[i].type = "candidate" => n \in taken' \/ FromPlayer(n) \in excused'
      /\ toPlayer' = toPlayer \/ toPlayer' = Append(toPlayer, Signal("refusal", None))
  <2>1. CASE toHost[i].type = "candidate"
    BY <1>2, <2>1 DEF HostHears
  <2>2. CASE toHost[i].type # "candidate"
    BY <1>2, <1>4, <2>2 DEF OfferReceived, HostSent
  <2> QED BY <2>1, <2>2
<1>7. \A m \in 1..found' : m \in taken' \/ m \in Candidates(toHost') \/ FromPlayer(m) \in excused'
  BY <1>1, <1>4, <1>5, <1>6 DEF CameInv
<1>8. CASE toPlayer' = toPlayer
  <2>1. found' \in 0..MaxCandidates
    BY <1>1 DEF ExchangeTypes
  <2> QED BY <1>1, <1>5, <1>6, <1>7, <1>8, <2>1, HostsStay DEF ReadyInv
<1>9. CASE toPlayer' = Append(toPlayer, Signal("refusal", None))
  <2> DEFINE m == Signal("refusal", None)
  <2>1. m \in FromTheHost /\ m.type # "candidate" /\ toPlayer \in Seq(FromTheHost)
    BY DEF Signal, None, FromTheHost, ExchangeTypes
  <2> HIDE DEF m
  <2>2. /\ Append(toPlayer, m) \in Seq(FromTheHost) /\ Apart(Append(toPlayer, m))
        /\ Candidates(Append(toPlayer, m)) = Candidates(toPlayer)
    BY <2>1, WireAppends DEF OnceInv
  <2>3. toPlayer' \in Seq(FromTheHost) /\ Apart(toPlayer') /\ Candidates(toPlayer') = Candidates(toPlayer)
    BY <1>9, <2>2 DEF m
  <2>4. ExchangeTypes' /\ ReadyInv'
    BY <1>1, <1>5, <2>3 DEF ExchangeTypes, ReadyInv
  <2>5. OnceInv'
    BY <1>1, <2>3 DEF OnceInv
  <2>6. CameInv'
    BY <1>1, <1>6, <1>7, <2>3 DEF CameInv
  <2> QED BY <2>4, <2>5, <2>6 DEF ExchangeInv
<1> QED BY <1>6, <1>8, <1>9

LEMMA HostSendsKeeps == ASSUME ExchangeInv, HostProceeds \/ HostCandidate PROVE ExchangeInv'
<1> ExchangeTypes /\ ReadyInv /\ OnceInv /\ CameInv
  BY DEF ExchangeInv
<1>1. UNCHANGED <<ready, pending, given, playerPeer, found, toHost, taken, excused>>
  BY DEF HostProceeds, HostCandidate, playerVars
<1>2. CASE HostProceeds
  <2>1. hostFound' = hostFound /\ (toPlayer' = toPlayer \/ toPlayer' = Append(toPlayer, Signal("answer", None)))
    BY <1>2 DEF HostProceeds, HostSent
  <2> DEFINE m == Signal("answer", None)
  <2>2. m \in FromTheHost /\ m.type # "candidate" /\ toPlayer \in Seq(FromTheHost)
    BY DEF Signal, None, FromTheHost, ExchangeTypes
  <2> HIDE DEF m
  <2>3. /\ Append(toPlayer, m) \in Seq(FromTheHost) /\ Apart(Append(toPlayer, m))
        /\ Candidates(Append(toPlayer, m)) = Candidates(toPlayer)
    BY <2>2, WireAppends DEF OnceInv
  <2>4. toPlayer' \in Seq(FromTheHost) /\ Apart(toPlayer') /\ Candidates(toPlayer') = Candidates(toPlayer)
    BY <2>1, <2>2, <2>3 DEF m, OnceInv
  <2>5. ExchangeTypes' /\ ReadyInv'
    BY <1>1, <2>1, <2>4 DEF ExchangeTypes, ReadyInv
  <2>6. OnceInv' /\ CameInv'
    BY <1>1, <2>1, <2>4 DEF OnceInv, CameInv
  <2> QED BY <2>5, <2>6 DEF ExchangeInv
<1>3. CASE HostCandidate
  <2> DEFINE n == hostFound + 1
             m == Signal("candidate", n)
  <2>1. hostFound < MaxCandidates /\ hostFound' = n /\ toPlayer' = Append(toPlayer, m)
    BY <1>3 DEF HostCandidate, HostSent
  <2>2. hostFound \in Nat /\ n \in Nat /\ n \in 0..MaxCandidates /\ n \notin 1..hostFound
        /\ 1..n = (1..hostFound) \cup {n}
    BY <2>1, ExchangeAssumption DEF ExchangeTypes
  <2>3. m \in FromTheHost /\ m.type = "candidate" /\ m.number = n
    BY <2>2 DEF Signal, FromTheHost
  <2>4. toPlayer \in Seq(FromTheHost) /\ n \notin Candidates(toPlayer)
    BY <2>2 DEF ExchangeTypes, OnceInv
  <2> HIDE DEF m, n
  <2>5. /\ Append(toPlayer, m) \in Seq(FromTheHost) /\ Apart(Append(toPlayer, m))
        /\ Candidates(Append(toPlayer, m)) = Candidates(toPlayer) \cup {n}
    BY <2>3, <2>4, WireAppends DEF OnceInv
  <2>6. ExchangeTypes' /\ ReadyInv'
    BY <1>1, <2>1, <2>2, <2>5 DEF ExchangeTypes, ReadyInv
  <2>7. OnceInv'
    BY <1>1, <2>1, <2>2, <2>5 DEF OnceInv
  <2>8. CameInv'
    BY <1>1, <2>1, <2>2, <2>5 DEF CameInv
  <2> QED BY <2>6, <2>7, <2>8 DEF ExchangeInv
<1> QED BY <1>2, <1>3

LEMMA DatagramLostKeeps == ASSUME ExchangeInv, DatagramLost PROVE ExchangeInv'
<1> ExchangeTypes /\ ReadyInv /\ OnceInv /\ CameInv
  BY DEF ExchangeInv
<1>1. UNCHANGED <<ready, pending, given, playerPeer, found, hostFound, taken>>
  BY DEF DatagramLost, playerVars, peerHostVars
<1>2. ASSUME NEW i \in DOMAIN toHost, toHost' = RemoveAt(toHost, i),
             excused' = excused \cup {FromPlayer(toHost[i].number)}, UNCHANGED toPlayer
      PROVE  ExchangeInv'
  <2>1. toHost \in Seq(FromThePlayer)
    BY DEF ExchangeTypes
  <2>2. /\ RemoveAt(toHost, i) \in Seq(FromThePlayer)
        /\ Candidates(toHost) \subseteq Candidates(RemoveAt(toHost, i)) \cup {toHost[i].number}
    BY <2>1, WireRemoves
  <2>3. \A m \in 1..found' : m \in taken' \/ m \in Candidates(toHost') \/ FromPlayer(m) \in excused'
    BY <1>1, <1>2, <2>2 DEF CameInv
  <2>4. found' \in 0..MaxCandidates
    BY <1>1 DEF ExchangeTypes
  <2> QED BY <1>1, <1>2, <2>2, <2>3, <2>4, HostsStay DEF ReadyInv
<1>3. ASSUME NEW i \in DOMAIN toPlayer, toPlayer' = RemoveAt(toPlayer, i),
             excused' = excused \cup {FromHost(toPlayer[i].number)}, UNCHANGED toHost
      PROVE  ExchangeInv'
  <2>1. toPlayer \in Seq(FromTheHost)
    BY DEF ExchangeTypes
  <2>2. /\ RemoveAt(toPlayer, i) \in Seq(FromTheHost) /\ Apart(RemoveAt(toPlayer, i))
        /\ Candidates(RemoveAt(toPlayer, i)) \subseteq Candidates(toPlayer)
        /\ Candidates(toPlayer) \subseteq Candidates(RemoveAt(toPlayer, i)) \cup {toPlayer[i].number}
    BY <2>1, WireRemoves DEF OnceInv
  <2>3. ExchangeTypes' /\ ReadyInv'
    BY <1>1, <1>3, <2>2 DEF ExchangeTypes, ReadyInv
  <2>4. OnceInv'
    BY <1>1, <1>3, <2>2 DEF OnceInv
  <2>5. CameInv'
    BY <1>1, <1>3, <2>2 DEF CameInv
  <2> QED BY <2>3, <2>4, <2>5 DEF ExchangeInv
<1> QED BY <1>2, <1>3 DEF DatagramLost

LEMMA ExchangeGoesOn == ExchangeInv /\ [ExchangeNext]_exchangeVars => ExchangeInv'
<1> SUFFICES ASSUME ExchangeInv, [ExchangeNext]_exchangeVars PROVE ExchangeInv'
  OBVIOUS
<1>1. CASE UNCHANGED exchangeVars
  BY <1>1 DEF exchangeVars, playerVars, peerHostVars, ExchangeInv, ExchangeTypes, ReadyInv, OnceInv, CameInv
<1> QED BY <1>1, LinkKeeps, PlayerSendsKeeps, PlayerReceivesKeeps, PeerKeeps, HostReceivesKeeps,
           HostSendsKeeps, DatagramLostKeeps DEF ExchangeNext

LEMMA ExchangeArrives == ExchangeInv => CandidatesArrive
<1> SUFFICES ASSUME ExchangeInv PROVE CandidatesArrive
  OBVIOUS
<1>1. Candidates(<<>>) = {} /\ ToSet(<<>>) = {}
  BY DEF Candidates, ToSet
<1>2. given # <<>> => playerPeer \in {"described", "closed"}
  BY DEF ExchangeInv, ReadyInv
<1>3. IsInjective(given)
  BY DEF ExchangeInv, OnceInv
<1>4. playerPeer = "described" /\ toPlayer = <<>> /\ pending = <<>> =>
        \A n \in 1..hostFound : n \in ToSet(given) \/ FromHost(n) \in excused
  BY <1>1 DEF ExchangeInv, CameInv
<1>5. toHost = <<>> => \A n \in 1..found : n \in taken \/ FromPlayer(n) \in excused
  BY <1>1 DEF ExchangeInv, CameInv
<1> QED BY <1>2, <1>3, <1>4, <1>5 DEF CandidatesArrive

\* The peers learn each other's candidates, each once and none before the description, over a
\* transport that keeps the order or does not, for any number of them (runtime, transport).
THEOREM CandidatesDoArrive == ExchangeSpec => []CandidatesArrive
<1> QED BY ExchangeBegins, ExchangeGoesOn, ExchangeArrives, PTL DEF ExchangeSpec

-----------------------------------------------------------------------------
(***************************************************************************)
(* A browser emulator.  Without the named asides all calls are of the      *)
(* newest plan, a call to load or to stop is the only one, and none is     *)
(* under way before a game is asked for or after it has ended.             *)
(***************************************************************************)
Playing == {"running", "paused"}
NewestShown ==
  LET now == runtimeState[plan]
  IN  /\ now \in {"ready"} \cup Playing => listening[plan]
      /\ now \in {"stopped", "error"} => ~listening[plan]
      /\ now \in Playing => emulator = now
      /\ emulator \in Playing => now = emulator \/ \E p \in Plan : runtimeState[p] = "error"

CallsInOrder ==
  LET now == runtimeState[plan]
  IN  /\ \A c \in calls : c.plan = plan
      /\ now \in {"idle", "stopped"} => calls = {}
      /\ now = "error" => \A c \in calls : c.kind = "stop"
      /\ now = "loading" => calls # {} /\ \A c \in calls : c.kind = "load"
      /\ \A c \in calls : c.kind = "load" => calls = {c} /\ now = "loading"
      /\ \A c \in calls : c.kind = "stop" => calls = {c} /\ now # "loading"

EmulationTypes ==
  /\ plan \in Plan /\ listening \in [Plan -> BOOLEAN]
  /\ runtimeState \in [Plan -> {"idle", "loading", "ready", "running", "paused", "stopped", "error"}]
  /\ \A p \in Plan : p > plan => runtimeState[p] = "idle"
  /\ calls \subseteq [id : Nat, kind : {"load", "start", "pause", "resume", "save", "stop"}, plan : 1..plan]
  /\ clicks \in Nat

EmulationInv == EmulationTypes /\ (asides = {} => NewestShown /\ CallsInOrder)

USE EmulationAssumption

LEMMA EmulationBegins == EmulationInit => EmulationInv
BY DEF EmulationInit, EmulationInv, EmulationTypes, NewestShown, CallsInOrder, Plan, Playing

LEMMA AskIs ==
  ASSUME EmulationTypes, NEW what \in {"load", "start", "pause", "resume", "save", "stop"}, NEW done, Ask(what, done)
  PROVE  \E c \in [id : Nat, kind : {what}, plan : {plan}] :
           /\ calls' = (calls \ done) \cup {c} /\ clicks' \in Nat
           /\ asides' = {} => asides = {} /\ \A b \in calls \ done : what # "stop" /\ b.kind # "stop"
<1> DEFINE c == [id |-> clicks + 1, kind |-> what, plan |-> plan]
<1>1. c \in [id : Nat, kind : {what}, plan : {plan}]
  BY DEF EmulationTypes
<1>2. /\ calls' = (calls \ done) \cup {c} /\ clicks' \in Nat
      /\ asides' = {} => asides = {} /\ \A b \in calls \ done : what # "stop" /\ b.kind # "stop"
  BY DEF Ask, EmulationTypes
<1> HIDE DEF c
<1> QED BY <1>1, <1>2

LEMMA NewPlanKeeps == ASSUME EmulationInv, NewPlan PROVE EmulationInv'
<1>1. plan' = plan + 1 /\ plan' \in Plan /\ runtimeState'[plan'] = "idle" /\ listening'[plan'] /\ plan \in Plan
  BY DEF NewPlan, EmulationInv, EmulationTypes, Plan
<1>2. EmulationTypes'
  BY <1>1 DEF NewPlan, EmulationInv, EmulationTypes, Plan
<1>3. ASSUME asides' = {} PROVE NewestShown' /\ CallsInOrder'
  <2>1. asides = {} /\ calls = {} /\ runtimeState[plan] \notin Playing
    BY <1>3 DEF NewPlan, Playing
  <2>2. emulator \in Playing => \E p \in Plan : runtimeState[p] = "error"
    BY <2>1 DEF EmulationInv, NewestShown
  <2>3. emulator' = emulator /\ runtimeState' = runtimeState /\ calls' = {}
    BY <2>1 DEF NewPlan
  <2> QED BY <1>1, <2>1, <2>2, <2>3 DEF NewestShown, CallsInOrder, Playing
<1> QED BY <1>2, <1>3 DEF EmulationInv

LEMMA ClickKeeps == ASSUME EmulationInv, ClickStart \/ ClickPause PROVE EmulationInv'
<1> DEFINE now == runtimeState[plan]
<1>1. EmulationTypes /\ plan \in Plan
  BY DEF EmulationInv, EmulationTypes
<1>2. CASE now \in {"idle", "stopped"} /\ Ask("load", {}) /\ Becomes(plan, "loading") /\ UNCHANGED <<plan, emulator>>
  <2>1. PICK c \in [id : Nat, kind : {"load"}, plan : {plan}] :
          calls' = calls \cup {c} /\ clicks' \in Nat /\ (asides' = {} => asides = {})
    BY <1>1, <1>2, AskIs
  <2>2. runtimeState' = [runtimeState EXCEPT ![plan] = "loading"] /\ listening' = listening
    BY <1>2 DEF Becomes
  <2>3. EmulationTypes'
    BY <1>1, <1>2, <2>1, <2>2 DEF EmulationTypes, Plan
  <2>4. ASSUME asides' = {} PROVE NewestShown' /\ CallsInOrder'
    BY <1>1, <1>2, <2>1, <2>2, <2>4 DEF EmulationInv, EmulationTypes, NewestShown, CallsInOrder, Playing
  <2> QED BY <2>3, <2>4 DEF EmulationInv
<1>3. ASSUME NEW what \in {"start", "pause", "resume"}, now \in {"ready"} \cup Playing, Ask(what, {}),
             UNCHANGED <<plan, runtimeState, listening, emulator>>
      PROVE  EmulationInv'
  <2>1. PICK c \in [id : Nat, kind : {what}, plan : {plan}] :
          /\ calls' = calls \cup {c} /\ clicks' \in Nat
          /\ asides' = {} => asides = {} /\ \A b \in calls : b.kind # "stop"
    BY <1>1, <1>3, AskIs
  <2>2. EmulationTypes'
    BY <1>1, <1>3, <2>1 DEF EmulationTypes, Plan
  <2>3. ASSUME asides' = {} PROVE NewestShown' /\ CallsInOrder'
    <3>1. NewestShown /\ CallsInOrder /\ \A b \in calls : b.kind \notin {"stop", "load"}
      BY <1>3, <2>1, <2>3 DEF EmulationInv, CallsInOrder, Playing
    <3>2. NewestShown'
      BY <1>3, <3>1 DEF NewestShown
    <3>3. CallsInOrder'
      BY <1>3, <2>1, <3>1 DEF CallsInOrder, Playing
    <3> QED BY <3>2, <3>3
  <2> QED BY <2>2, <2>3 DEF EmulationInv
<1>4. ClickStart \/ ClickPause
  OBVIOUS
<1> QED BY <1>2, <1>3, <1>4 DEF ClickStart, ClickPause, Playing

\* stop(), at once or when the state has been saved
LEMMA StopKeeps ==
  ASSUME EmulationInv, NEW done \in SUBSET calls, Stop(done), UNCHANGED <<plan, emulator>>,
         \A c \in done : c.kind = "save"
  PROVE  EmulationInv'
<1>1. EmulationTypes /\ plan \in Plan
  BY DEF EmulationInv, EmulationTypes
<1>2. CASE runtimeState[plan] \in {"stopped", "idle"}
  <2>1. /\ runtimeState' = [runtimeState EXCEPT ![plan] = "stopped"]
        /\ listening' = [listening EXCEPT ![plan] = FALSE]
        /\ calls' = calls \ done /\ clicks' = clicks /\ asides' = asides
    BY <1>2 DEF Stop, Becomes
  <2>2. EmulationTypes'
    BY <1>1, <2>1 DEF EmulationTypes, Plan
  <2>3. ASSUME asides' = {} PROVE NewestShown' /\ CallsInOrder'
    <3>1. NewestShown /\ calls = {}
      BY <1>2, <2>1, <2>3 DEF EmulationInv, CallsInOrder
    <3> QED BY <1>1, <1>2, <2>1, <3>1 DEF EmulationTypes, NewestShown, CallsInOrder, Playing
  <2> QED BY <2>2, <2>3 DEF EmulationInv
<1>3. CASE runtimeState[plan] \notin {"stopped", "idle"}
  <2>1. Ask("stop", done) /\ UNCHANGED <<runtimeState, listening>>
    BY <1>3 DEF Stop
  <2>2. PICK c \in [id : Nat, kind : {"stop"}, plan : {plan}] :
          /\ calls' = (calls \ done) \cup {c} /\ clicks' \in Nat
          /\ asides' = {} => asides = {} /\ calls \ done = {}
    BY <1>1, <2>1, AskIs
  <2>3. EmulationTypes'
    BY <1>1, <2>1, <2>2 DEF EmulationTypes, Plan
  <2>4. ASSUME asides' = {} PROVE NewestShown' /\ CallsInOrder'
    <3>1. NewestShown /\ CallsInOrder /\ calls' = {c} /\ calls \ done = {}
      BY <2>2, <2>4 DEF EmulationInv
    <3>2. NewestShown'
      BY <2>1, <3>1 DEF NewestShown
    <3>3. runtimeState[plan] # "loading"
      BY <3>1 DEF CallsInOrder
    <3>4. CallsInOrder'
      BY <1>3, <2>1, <3>1, <3>3 DEF CallsInOrder
    <3> QED BY <3>2, <3>4
  <2> QED BY <2>3, <2>4 DEF EmulationInv
<1> QED BY <1>2, <1>3

LEMMA ClickStopKeeps == ASSUME EmulationInv, ClickStop PROVE EmulationInv'
<1>1. CASE runtimeState[plan] \in {"ready", "running", "paused"} /\ Ask("save", {})
           /\ UNCHANGED <<plan, emulator, runtimeState, listening>>
  <2>1. EmulationTypes /\ plan \in Plan
    BY DEF EmulationInv, EmulationTypes
  <2>2. PICK c \in [id : Nat, kind : {"save"}, plan : {plan}] :
          /\ calls' = calls \cup {c} /\ clicks' \in Nat
          /\ asides' = {} => asides = {} /\ \A b \in calls : b.kind # "stop"
    BY <1>1, <2>1, AskIs
  <2>3. EmulationTypes'
    BY <1>1, <2>1, <2>2 DEF EmulationTypes, Plan
  <2>4. ASSUME asides' = {} PROVE NewestShown' /\ CallsInOrder'
    <3>1. NewestShown /\ CallsInOrder /\ \A b \in calls : b.kind \notin {"stop", "load"}
      BY <1>1, <2>2, <2>4 DEF EmulationInv, CallsInOrder
    <3>2. NewestShown'
      BY <1>1, <3>1 DEF NewestShown
    <3>3. CallsInOrder'
      BY <1>1, <2>2, <3>1 DEF CallsInOrder
    <3> QED BY <3>2, <3>3
  <2> QED BY <2>3, <2>4 DEF EmulationInv
<1>2. CASE Stop({}) /\ UNCHANGED <<plan, emulator>>
  BY <1>2, StopKeeps
<1> QED BY <1>1, <1>2 DEF ClickStop

LEMMA LoadedKeeps == ASSUME EmulationInv, NEW c \in calls, Loaded(c) PROVE EmulationInv'
<1>1. EmulationTypes /\ plan \in Plan /\ c.plan \in 1..plan
  BY DEF EmulationInv, EmulationTypes
<1>2. /\ runtimeState' = [runtimeState EXCEPT ![c.plan] = "ready"]
      /\ listening' = [listening EXCEPT ![plan] = TRUE]
      /\ emulator' = "loaded" /\ plan' = plan /\ c.kind = "load"
  BY DEF Loaded
<1>3. CASE Ask("start", {c})
  <2>1. PICK d \in [id : Nat, kind : {"start"}, plan : {plan}] :
          calls' = (calls \ {c}) \cup {d} /\ clicks' \in Nat /\ (asides' = {} => asides = {})
    BY <1>1, <1>3, AskIs
  <2>2. EmulationTypes'
    BY <1>1, <1>2, <2>1 DEF EmulationTypes, Plan
  <2>3. ASSUME asides' = {} PROVE NewestShown' /\ CallsInOrder'
    <3>1. NewestShown /\ CallsInOrder
      BY <2>1, <2>3 DEF EmulationInv
    <3>2. calls = {c} /\ c.plan = plan
      BY <1>2, <3>1 DEF CallsInOrder
    <3> QED BY <1>1, <1>2, <2>1, <3>1, <3>2 DEF EmulationTypes, NewestShown, CallsInOrder, Playing
  <2> QED BY <2>2, <2>3 DEF EmulationInv
<1>4. CASE /\ runtimeState'[plan] \notin {"ready", "paused"}
           /\ calls' = calls \ {c} /\ UNCHANGED <<clicks, asides>>
  <2>2. EmulationTypes'
    BY <1>1, <1>2, <1>4 DEF EmulationTypes, Plan
  <2>3. ASSUME asides = {} PROVE FALSE
    <3>1. c.plan = plan
      BY <2>3 DEF EmulationInv, CallsInOrder
    <3> QED BY <1>1, <1>2, <1>4, <3>1 DEF EmulationTypes
  <2> QED BY <1>4, <2>2, <2>3 DEF EmulationInv
<1> QED BY <1>3, <1>4 DEF Loaded

LEMMA SettlesKeeps == ASSUME EmulationInv, NEW c \in calls, Settles(c) PROVE EmulationInv'
<1>1. EmulationTypes /\ plan \in Plan /\ c.plan \in 1..plan /\ c.plan \in Plan
  BY DEF EmulationInv, EmulationTypes, Plan
<1>2. c.kind \in {"start", "pause", "resume", "stop"}
  BY DEF Settles, Outcome
<1> DEFINE to == Outcome[c.kind]
<1>3. to = IF c.kind = "stop" THEN "stopped" ELSE IF c.kind = "pause" THEN "paused" ELSE "running"
  BY <1>2 DEF Outcome
<1> HIDE DEF to
<1>4. /\ runtimeState' = [runtimeState EXCEPT ![c.plan] = to]
      /\ listening' = IF to = "stopped" THEN [listening EXCEPT ![plan] = FALSE] ELSE listening
      /\ emulator' = IF c.kind = "stop" THEN "off" ELSE to
      /\ calls' = calls \ {c} /\ UNCHANGED <<plan, clicks, asides>>
  BY <1>3 DEF Settles, Becomes, to
<1>5. EmulationTypes'
  BY <1>1, <1>3, <1>4 DEF EmulationTypes, Plan
<1>6. ASSUME asides = {} PROVE NewestShown' /\ CallsInOrder'
  <2>1. NewestShown /\ CallsInOrder /\ c.plan = plan
    BY <1>6 DEF EmulationInv, CallsInOrder
  <2>2. CASE c.kind = "stop"
    <3>1. calls = {c} /\ to = "stopped"
      BY <1>3, <2>1, <2>2 DEF CallsInOrder
    <3> QED BY <1>1, <1>4, <2>1, <2>2, <3>1 DEF EmulationTypes, NewestShown, CallsInOrder, Playing
  <2>3. CASE c.kind # "stop"
    <3>1. to \in Playing /\ to # "stopped" /\ runtimeState'[plan] = to /\ emulator' = to /\ listening' = listening
      BY <1>1, <1>2, <1>3, <1>4, <2>1, <2>3 DEF EmulationTypes, Playing
    <3>2. runtimeState[plan] \in {"ready"} \cup Playing
      BY <1>1, <1>2, <2>1, <2>3 DEF EmulationTypes, CallsInOrder, Playing
    <3>3. listening[plan] /\ \A b \in calls : b.kind \notin {"load", "stop"}
      BY <1>2, <2>1, <2>3, <3>2 DEF NewestShown, CallsInOrder, Playing
    <3> QED BY <1>4, <2>1, <3>1, <3>3 DEF NewestShown, CallsInOrder, Playing
  <2> QED BY <2>2, <2>3
<1> QED BY <1>4, <1>5, <1>6 DEF EmulationInv

LEMMA RejectsKeeps == ASSUME EmulationInv, NEW c \in calls, Rejects(c) PROVE EmulationInv'
<1>1. EmulationTypes /\ plan \in Plan /\ c.plan \in 1..plan /\ c.plan \in Plan
  BY DEF EmulationInv, EmulationTypes, Plan
<1>2. /\ runtimeState' = [runtimeState EXCEPT ![c.plan] = "error"]
      /\ listening' = [listening EXCEPT ![plan] = FALSE]
      /\ calls' = calls \ {c} /\ UNCHANGED <<plan, emulator, clicks>>
      /\ asides' = {} => asides = {} /\ calls = {c}
  BY DEF Rejects, Becomes
<1>3. EmulationTypes'
  BY <1>1, <1>2 DEF EmulationTypes, Plan
<1>4. ASSUME asides' = {} PROVE NewestShown' /\ CallsInOrder'
  <2>1. CallsInOrder /\ c.plan = plan /\ calls' = {}
    BY <1>2, <1>4 DEF EmulationInv, CallsInOrder
  <2>2. runtimeState'[plan] = "error" /\ ~listening'[plan] /\ plan' = plan
    BY <1>1, <1>2, <2>1 DEF EmulationTypes
  <2> QED BY <1>1, <2>1, <2>2 DEF NewestShown, CallsInOrder, Playing
<1> QED BY <1>3, <1>4 DEF EmulationInv

LEMMA EmulationGoesOn == EmulationInv /\ [EmulationNext]_emulationVars => EmulationInv'
<1>1. EmulationInv /\ UNCHANGED emulationVars => EmulationInv'
  BY DEF emulationVars, EmulationInv, EmulationTypes, NewestShown, CallsInOrder, Playing
<1>2. ASSUME EmulationInv, NEW c \in calls, Saved(c) PROVE EmulationInv'
  BY <1>2, StopKeeps DEF Saved
<1> QED BY <1>1, <1>2, NewPlanKeeps, ClickKeeps, ClickStopKeeps, LoadedKeeps, SettlesKeeps, RejectsKeeps
        DEF EmulationNext

LEMMA EmulationIsShown == EmulationInv => PageShowsGame
BY DEF EmulationInv, NewestShown, Playing, PageShowsGame

\* A page shows what its emulator does and the keys reach a game that plays, through any number
\* of plans and calls (browser-runtime.mjs, browser-input.mjs), but for the named asides.
THEOREM GamesAreShown == EmulationSpec => []PageShowsGame
<1> QED BY EmulationBegins, EmulationGoesOn, EmulationIsShown, PTL DEF EmulationSpec

HIDE EmulationAssumption
-----------------------------------------------------------------------------
(***************************************************************************)
(* The pages of the library.  There is always one list in order, so that   *)
(* its cards are games; the page that is shown has cards as long as        *)
(* anything matches, unless a typed text is not yet reckoned with.         *)
(***************************************************************************)
Stocks == [Title -> [favorite : BOOLEAN, updated : Nat]]
Views == [search : SUBSET Title, platform : SUBSET Title, sort : {"title", "updated"}]
Matching(view) == view.search \cap view.platform

\* The page is one of those that there are.
Reaches(view, num) == Matching(view) = {} \/ (num - 1) * PageSize < Cardinality(Matching(view))

GridInv ==
  /\ shelf \in Stocks /\ controls \in Views /\ number \in Nat \ {0} /\ typing \in BOOLEAN
  /\ tally = Favorites(shelf)
  /\ \E view \in Views, num \in Nat \ {0} : grid = Rendered(shelf, view, num)
  /\ ~typing => grid = Rendered(shelf, controls, number) /\ Reaches(controls, number)

DetailInv ==
  /\ writing \in Seq([game : Title, favorite : BOOLEAN, at : Nat]) /\ toggles \in Nat
  /\ detail = NoDetails \/ (detail.game \in Title /\ detail = Details(shelf, detail.game))

\* The highlight is turned over by one write at a time.
HeroInv ==
  /\ hero \in [stored : BOOLEAN, text : BOOLEAN, lit : BOOLEAN, writing : Seq(BOOLEAN)]
  /\ hero.text = hero.stored
  /\ overlapped \/ (hero.lit = hero.stored /\ hero.writing \in {<<>>, <<~hero.stored>>})

ShelfInv == GridInv /\ DetailInv /\ HeroInv

USE LibraryAssumption

\* Games are in an order: any of them can be counted to their places.
Before(games, sort, a, b) ==
  IF sort = "updated" /\ games[a].updated # games[b].updated
  THEN games[a].updated > games[b].updated ELSE a < b

LEMMA OrderExists ==
  ASSUME NEW games \in Stocks, NEW sort, NEW among \in SUBSET Title
  PROVE  /\ IsFiniteSet(among) /\ Cardinality(among) \in Nat
         /\ \E list \in [1..Cardinality(among) -> among] :
              \A i, j \in 1..Cardinality(among) : i < j => Before(games, sort, list[i], list[j])
<1> DEFINE n == Cardinality(among)
           Lower(g) == {h \in among : Before(games, sort, h, g)}
           rank == [g \in among |-> 1 + Cardinality(Lower(g))]
<1>1. IsFiniteSet(among) /\ n \in Nat
  <2>1. IsFiniteSet(Title)
    BY FS_Interval DEF Title
  <2> QED BY <2>1, FS_Subset, FS_CardinalityType
<1>2. \A a, b, c \in among :
        /\ ~Before(games, sort, a, a)
        /\ a # b => Before(games, sort, a, b) \/ Before(games, sort, b, a)
        /\ Before(games, sort, a, b) /\ Before(games, sort, b, c) => Before(games, sort, a, c)
  BY DEF Stocks, Title, Before
<1>3. ASSUME NEW g \in among PROVE IsFiniteSet(Lower(g)) /\ Cardinality(Lower(g)) \in Nat /\ Cardinality(Lower(g)) < n
  <2>1. Lower(g) \subseteq among /\ g \notin Lower(g)
    BY <1>2
  <2> HIDE DEF Lower
  <2>2. IsFiniteSet(Lower(g)) /\ Cardinality(Lower(g)) \in Nat
    BY <1>1, <2>1, FS_Subset, FS_CardinalityType
  <2> QED BY <1>1, <2>1, <2>2, FS_Subset
<1>4. ASSUME NEW a \in among, NEW b \in among, Before(games, sort, a, b) PROVE rank[a] < rank[b]
  <2>1. Lower(a) \subseteq Lower(b) /\ a \in Lower(b) /\ a \notin Lower(a)
    BY <1>2, <1>4
  <2>2. rank[a] = 1 + Cardinality(Lower(a)) /\ rank[b] = 1 + Cardinality(Lower(b))
    OBVIOUS
  <2> HIDE DEF Lower, rank
  <2>3. Cardinality(Lower(a)) < Cardinality(Lower(b))
    BY <1>3, <2>1, FS_Subset
  <2> QED BY <1>3, <2>2, <2>3
<1>5. rank \in [among -> 1..n]
  BY <1>1, <1>3
<1> HIDE DEF rank, Lower
<1>6. rank \in Injection(among, 1..n)
  <2>1. \A a, b \in among : rank[a] = rank[b] => a = b
    <3> SUFFICES ASSUME NEW a \in among, NEW b \in among, a # b PROVE rank[a] # rank[b]
      OBVIOUS
    <3>1. rank[a] \in 1..n /\ rank[b] \in 1..n
      BY <1>5
    <3> QED BY <1>2, <1>4, <3>1
  <2> QED BY <1>5, <2>1 DEF Injection, IsInjective
<1>7. rank \in Surjection(among, 1..n)
  <2>1. IsFiniteSet(1..n) /\ Cardinality(1..n) = n
    BY <1>1, FS_Interval
  <2> QED BY <1>6, <2>1, FS_Injection DEF n
<1> DEFINE list == [i \in 1..n |-> CHOOSE g \in among : rank[g] = i]
<1>8. \A i \in 1..n : list[i] \in among /\ rank[list[i]] = i
  BY <1>7 DEF Surjection
<1>9. list \in [1..n -> among]
  BY <1>8
<1> HIDE DEF list
<1>10. ASSUME NEW i \in 1..n, NEW j \in 1..n, i < j PROVE Before(games, sort, list[i], list[j])
  <2>1. list[i] \in among /\ list[j] \in among /\ rank[list[i]] = i /\ rank[list[j]] = j
    BY <1>8
  <2>2. list[i] # list[j] /\ ~(rank[list[j]] < rank[list[i]])
    BY <1>1, <1>10, <2>1
  <2> QED BY <1>2, <1>4, <2>1, <2>2
<1> QED BY <1>1, <1>9, <1>10 DEF n

LEMMA ListedIs ==
  ASSUME NEW games \in Stocks, NEW view \in Views
  PROVE  /\ IsFiniteSet(Matching(view)) /\ Cardinality(Matching(view)) \in Nat
         /\ Listed(games, view) \in [1..Cardinality(Matching(view)) -> Title]
         /\ Len(Listed(games, view)) = Cardinality(Matching(view))
<1> DEFINE among == Matching(view)
           n == Cardinality(among)
<1>1. among \in SUBSET Title
  BY DEF Views, Matching
<1>2. /\ IsFiniteSet(among) /\ n \in Nat
      /\ \E list \in [1..n -> among] : \A i, j \in 1..n : i < j => Before(games, view.sort, list[i], list[j])
  BY <1>1, OrderExists
<1>3. Listed(games, view) = CHOOSE list \in [1..n -> among] :
                              \A i, j \in 1..n : i < j => Before(games, view.sort, list[i], list[j])
  BY DEF Listed, Before, Matching
<1>4. Listed(games, view) \in [1..n -> among]
  BY <1>2, <1>3
<1>5. Listed(games, view) \in Seq(Title) /\ Len(Listed(games, view)) = n
  BY <1>1, <1>2, <1>4
<1> QED BY <1>1, <1>2, <1>4, <1>5

LEMMA RenderedIs ==
  ASSUME NEW games \in Stocks, NEW view \in Views, NEW num \in Nat \ {0}
  PROVE  /\ \A card \in Range(Rendered(games, view, num).cards) :
              card.game \in Title /\ card.favorite = games[card.game].favorite
         /\ Rendered(games, view, num) # Empty =>
              /\ Rendered(games, view, num).page = num
              /\ Rendered(games, view, num).pages = (Cardinality(Matching(view)) + PageSize - 1) \div PageSize
         /\ Rendered(games, view, num) = Empty /\ Reaches(view, num) => Matching(view) = {}
<1> DEFINE listed == Listed(games, view)
           n == Cardinality(Matching(view))
           first == (num - 1) * PageSize + 1
           final == IF num * PageSize < Len(listed) THEN num * PageSize ELSE Len(listed)
           cards == [i \in 1..(final - first + 1) |->
                       [game |-> listed[first + i - 1], favorite |-> games[listed[first + i - 1]].favorite]]
           r == Rendered(games, view, num)
<1>1. n \in Nat /\ listed \in [1..n -> Title] /\ Len(listed) = n
  BY ListedIs
<1>2. r = IF first > final THEN Empty
          ELSE [cards |-> cards, page |-> num, pages |-> (Len(listed) + PageSize - 1) \div PageSize]
  BY DEF Rendered
<1> HIDE DEF listed, n, r
<1>3. first \in Nat /\ first >= 1 /\ num * PageSize \in Nat /\ num * PageSize = (first - 1) + PageSize
  BY Z3
<1> HIDE DEF first
<1>4. final \in Nat /\ final <= n /\ (first <= n => first <= final)
  BY <1>1, <1>3
<1> HIDE DEF final
<1>5. CASE first > final
  <2>1. r = Empty
    BY <1>2, <1>5
  <2>2. Range(r.cards) = {}
    BY <2>1 DEF Empty, Range
  <2>3. Reaches(view, num) => Matching(view) = {}
    <3>1. first > n
      BY <1>1, <1>3, <1>4, <1>5
    <3>2. ~((num - 1) * PageSize < n)
      BY <1>1, <3>1 DEF first
    <3> QED BY <3>2 DEF Reaches, n
  <2> QED BY <2>1, <2>2, <2>3 DEF r
<1>6. CASE ~(first > final)
  <2>1. r.cards = cards /\ r.page = num /\ r.pages = (n + PageSize - 1) \div PageSize
    BY <1>1, <1>2, <1>6
  <2>2. r # Empty
    BY <2>1 DEF Empty
  <2>3. ASSUME NEW i \in 1..(final - first + 1) PROVE first + i - 1 \in 1..n
    BY <1>3, <1>4, <1>1
  <2>4. ASSUME NEW card \in Range(cards) PROVE card.game \in Title /\ card.favorite = games[card.game].favorite
    BY <1>1, <2>3 DEF Range
  <2> HIDE DEF cards
  <2> QED BY <2>1, <2>2, <2>4 DEF r, n
<1> QED BY <1>5, <1>6

\* One page back, or one on where the rendering had another
LEMMA PageBack ==
  ASSUME NEW view \in Views, NEW num \in Nat \ {0}, num > 1, Reaches(view, num), Cardinality(Matching(view)) \in Nat
  PROVE  num - 1 \in Nat \ {0} /\ Reaches(view, num - 1)
<1> DEFINE m == (num - 2) * PageSize
<1>1. m \in Int /\ (num - 1) * PageSize = m + PageSize
  BY Z3
<1>2. (num - 1) - 1 = num - 2
  OBVIOUS
<1> QED BY <1>1, <1>2 DEF Reaches

LEMMA PageOn ==
  ASSUME NEW view \in Views, NEW num \in Nat \ {0}, Cardinality(Matching(view)) \in Nat,
         num < (Cardinality(Matching(view)) + PageSize - 1) \div PageSize
  PROVE  num + 1 \in Nat \ {0} /\ Reaches(view, num + 1)
<1> DEFINE n == Cardinality(Matching(view))
           q == (n + PageSize - 1) \div PageSize
<1>1. q \in Int /\ q * PageSize <= n + PageSize - 1
  BY Z3
<1> HIDE DEF q, n
<1>2. num + 1 <= q
  BY <1>1 DEF q, n
<1>3. (num + 1) * PageSize <= q * PageSize
  BY <1>1, <1>2, Z3
<1>4. (num + 1) * PageSize = num * PageSize + PageSize /\ num * PageSize \in Int
  BY Z3
<1>5. num * PageSize < n
  BY <1>1, <1>3, <1>4 DEF n
<1> QED BY <1>5 DEF Reaches, n

LEMMA FirstReaches ==
  ASSUME NEW view \in Views PROVE Reaches(view, 1)
<1>1. IsFiniteSet(Matching(view))
  <2>1. IsFiniteSet(Title)
    BY FS_Interval DEF Title
  <2> QED BY <2>1, FS_Subset DEF Matching, Views
<1>2. Matching(view) # {} => Cardinality(Matching(view)) > 0
  BY <1>1, FS_EmptySet, FS_CardinalityType
<1>3. (1 - 1) * PageSize = 0
  OBVIOUS
<1> QED BY <1>2, <1>3 DEF Reaches

LEMMA ShelfBegins == LibraryPagesInit => ShelfInv
<1> SUFFICES ASSUME LibraryPagesInit PROVE ShelfInv
  OBVIOUS
<1>1. shelf \in Stocks /\ All \in Views /\ controls = All
  BY DEF LibraryPagesInit, Stocks, Views, All
<1>2. tally = Favorites(shelf)
  <2>1. {g \in Title : shelf[g].favorite} = {}
    BY DEF LibraryPagesInit
  <2> QED BY <2>1, FS_EmptySet DEF LibraryPagesInit, Favorites
<1>5. 1 \in Nat \ {0} /\ Reaches(All, 1)
  BY <1>1, FirstReaches
<1>6. grid = Rendered(shelf, All, 1) /\ number = 1 /\ typing = FALSE
  BY DEF LibraryPagesInit
<1>3. GridInv
  BY <1>1, <1>2, <1>5, <1>6 DEF GridInv
<1>4. DetailInv /\ HeroInv
  BY DEF LibraryPagesInit, DetailInv, HeroInv
<1> QED BY <1>3, <1>4 DEF ShelfInv

\* renderGames() with what is chosen
LEMMA ShowKeeps ==
  ASSUME ShelfInv, NEW view \in Views, NEW num \in Nat \ {0}, Show(view, num), typing' \in BOOLEAN,
         ~typing' => Reaches(view, num)
  PROVE  ShelfInv'
<1>1. GridInv'
  BY DEF ShelfInv, GridInv, Show
<1>2. DetailInv' /\ HeroInv'
  BY DEF ShelfInv, DetailInv, HeroInv, Show
<1> QED BY <1>1, <1>2 DEF ShelfInv

LEMMA ChoiceKeeps ==
  ASSUME ShelfInv, TypeTitle \/ Debounced \/ ChooseFilter \/ SetView \/ PreviousPage \/ NextPage
  PROVE  ShelfInv'
<1>0. /\ shelf \in Stocks /\ controls \in Views /\ number \in Nat \ {0} /\ typing \in BOOLEAN
      /\ ~typing => grid = Rendered(shelf, controls, number) /\ Reaches(controls, number)
  BY DEF ShelfInv, GridInv
<1>10. Cardinality(Matching(controls)) \in Nat
  BY <1>0, ListedIs
<1>1. CASE TypeTitle
  <2>1. PICK text \in Matches \cup {Title} : controls' = [controls EXCEPT !.search = text]
    BY <1>1 DEF TypeTitle
  <2>2. controls' \in Views
    BY <1>0, <2>1 DEF Views
  <2>3. GridInv'
    BY <1>1, <2>2 DEF ShelfInv, GridInv, TypeTitle
  <2>4. DetailInv' /\ HeroInv'
    BY <1>1 DEF ShelfInv, DetailInv, HeroInv, TypeTitle
  <2> QED BY <2>3, <2>4 DEF ShelfInv
<1>2. CASE Debounced
  <2>1. typing' = FALSE /\ Show(controls, 1)
    BY <1>2 DEF Debounced
  <2>2. Reaches(controls, 1)
    BY <1>0, FirstReaches
  <2>3. typing' \in BOOLEAN
    BY <2>1
  <2> QED BY <1>0, <2>1, <2>2, <2>3, ShowKeeps
<1>3. CASE ChooseFilter
  <2>1. PICK view \in Views : Show(view, 1) /\ typing' = typing
    <3>1. \A platform \in Matches \cup {Title} : [controls EXCEPT !.platform = platform] \in Views
      BY <1>0 DEF Views
    <3>2. \A sort \in {"title", "updated"} : [controls EXCEPT !.sort = sort] \in Views
      BY <1>0 DEF Views
    <3> QED BY <1>3, <3>1, <3>2 DEF ChooseFilter
  <2> QED BY <1>0, <2>1, FirstReaches, ShowKeeps
<1>4. CASE SetView
  BY <1>0, <1>4, ShowKeeps DEF SetView
<1>5. CASE PreviousPage
  <2>1. CASE number > 1
    <3>1. Show(controls, number - 1) /\ typing' = typing
      BY <1>5, <2>1 DEF PreviousPage
    <3>2. number - 1 \in Nat \ {0} /\ (~typing => Reaches(controls, number - 1))
      BY <1>0, <1>10, <2>1, PageBack
    <3> QED BY <1>0, <3>1, <3>2, ShowKeeps
  <2>2. CASE ~(number > 1)
    BY <1>5, <2>2 DEF PreviousPage, ShelfInv, GridInv, DetailInv, HeroInv, libraryPageVars
  <2> QED BY <2>1, <2>2
<1>6. CASE NextPage
  <2>1. Show(controls, number + 1) /\ typing' = typing /\ grid # Empty /\ grid.page < grid.pages
    BY <1>6 DEF NextPage
  <2>2. ~typing => number < (Cardinality(Matching(controls)) + PageSize - 1) \div PageSize
    BY <1>0, <2>1, RenderedIs
  <2>3. number + 1 \in Nat \ {0} /\ (~typing => Reaches(controls, number + 1))
    BY <1>0, <1>10, <2>2, PageOn
  <2> QED BY <1>0, <2>1, <2>3, ShowKeeps
<1> QED BY <1>1, <1>2, <1>3, <1>4, <1>5, <1>6

\* A favourite is written, or not, and the details are opened or closed.
LEMMA GameKeeps ==
  ASSUME ShelfInv, OpenGame \/ CloseGame \/ ToggleGame \/ GameWritten \/ GameNotWritten
  PROVE  ShelfInv'
<1>0. /\ shelf \in Stocks /\ controls \in Views /\ number \in Nat \ {0} /\ typing \in BOOLEAN
      /\ ~typing => grid = Rendered(shelf, controls, number) /\ Reaches(controls, number)
      /\ detail = NoDetails \/ (detail.game \in Title /\ detail = Details(shelf, detail.game))
      /\ writing \in Seq([game : Title, favorite : BOOLEAN, at : Nat]) /\ toggles \in Nat
  BY DEF ShelfInv, GridInv, DetailInv
<1>1. HeroInv'
  BY DEF OpenGame, CloseGame, ToggleGame, GameWritten, GameNotWritten, Unmoved, ShelfInv, HeroInv
<1>2. \A card \in Range(grid.cards) : card.game \in Title
  <2>1. PICK view \in Views, num \in Nat \ {0} : grid = Rendered(shelf, view, num)
    BY DEF ShelfInv, GridInv
  <2> QED BY <1>0, <2>1, RenderedIs
<1>3. \A g : Details(shelf, g).game = g
  BY DEF Details
<1>4. CASE OpenGame \/ CloseGame
  <2>1. GridInv'
    BY <1>4 DEF OpenGame, CloseGame, Unmoved, ShelfInv, GridInv
  <2>2. detail' = NoDetails \/ \E g \in Title : detail' = Details(shelf, g)
    BY <1>2, <1>4 DEF OpenGame, CloseGame
  <2>3. DetailInv'
    BY <1>0, <1>3, <1>4, <2>2 DEF OpenGame, CloseGame, DetailInv
  <2> QED BY <1>1, <2>1, <2>3 DEF ShelfInv
<1>5. CASE ToggleGame
  <2>1. GridInv'
    BY <1>5 DEF ToggleGame, Unmoved, ShelfInv, GridInv
  <2>2. PICK g \in ({detail.game} \ {NoGame}) \cup {card.game : card \in Range(grid.cards)} :
          writing' = Append(writing, [game |-> g, favorite |-> ~shelf[g].favorite, at |-> toggles'])
    BY <1>5 DEF ToggleGame
  <2>3. g \in Title
    BY <1>0, <1>2, <2>2 DEF NoDetails
  <2>4. [game |-> g, favorite |-> ~shelf[g].favorite, at |-> toggles']
          \in [game : Title, favorite : BOOLEAN, at : Nat]
        /\ toggles' \in Nat
    BY <1>0, <1>5, <2>3 DEF ToggleGame
  <2>5. writing' \in Seq([game : Title, favorite : BOOLEAN, at : Nat])
    BY <1>0, <2>2, <2>4
  <2>6. DetailInv'
    BY <1>0, <1>5, <2>4, <2>5 DEF ToggleGame, DetailInv
  <2> QED BY <1>1, <2>1, <2>6 DEF ShelfInv
<1>6. CASE GameWritten
  <2> DEFINE w == Head(writing)
  <2>1. /\ w \in [game : Title, favorite : BOOLEAN, at : Nat]
        /\ writing' \in Seq([game : Title, favorite : BOOLEAN, at : Nat])
    <3> DEFINE S == [game : Title, favorite : BOOLEAN, at : Nat]
    <3>1. writing \in Seq(S) /\ writing # <<>> /\ writing' = Tail(writing)
      BY <1>0, <1>6 DEF GameWritten
    <3> HIDE DEF S
    <3>2. Head(writing) \in S /\ Tail(writing) \in Seq(S)
      BY <3>1
    <3> QED BY <3>1, <3>2 DEF S
  <2>2. /\ shelf' = [shelf EXCEPT ![w.game] = [favorite |-> w.favorite, updated |-> w.at]]
        /\ tally' = Favorites(shelf') /\ grid' = Rendered(shelf', controls, number)
        /\ detail' = IF detail.game = w.game THEN Details(shelf', w.game) ELSE detail
        /\ UNCHANGED <<controls, number, typing, toggles>>
    BY <1>6 DEF GameWritten, Written, Unmoved
  <2> HIDE DEF w
  <2>3. shelf' \in Stocks
    BY <1>0, <2>1, <2>2 DEF Stocks
  <2>4. GridInv'
    BY <1>0, <2>2, <2>3 DEF GridInv
  <2>5. detail' = NoDetails \/ (detail'.game \in Title /\ detail' = Details(shelf', detail'.game))
    <3>1. CASE detail.game = w.game
      BY <2>1, <2>2, <3>1 DEF Details
    <3>2. CASE detail.game # w.game
      <4>1. detail.game \in Title => shelf'[detail.game] = shelf[detail.game]
        BY <1>0, <2>2, <3>2 DEF Stocks
      <4> QED BY <1>0, <2>2, <3>2, <4>1 DEF Details
    <3> QED BY <3>1, <3>2
  <2>6. DetailInv'
    BY <1>0, <2>1, <2>2, <2>5 DEF DetailInv
  <2> QED BY <1>1, <2>4, <2>6 DEF ShelfInv
<1>7. CASE GameNotWritten
  <2>1. GridInv'
    BY <1>7 DEF GameNotWritten, Unmoved, ShelfInv, GridInv
  <2>2. writing' \in Seq([game : Title, favorite : BOOLEAN, at : Nat])
    BY <1>0, <1>7 DEF GameNotWritten
  <2>3. DetailInv'
    BY <1>0, <1>7, <2>2 DEF GameNotWritten, DetailInv
  <2> QED BY <1>1, <2>1, <2>3 DEF ShelfInv
<1> QED BY <1>4, <1>5, <1>6, <1>7

\* The favourite on the page of a game
LEMMA HeroKeeps ==
  ASSUME ShelfInv, ToggleHero \/ HeroWritten \/ HeroNotWritten
  PROVE  ShelfInv'
<1>0. /\ hero \in [stored : BOOLEAN, text : BOOLEAN, lit : BOOLEAN, writing : Seq(BOOLEAN)]
      /\ hero.text = hero.stored /\ toggles \in Nat
      /\ overlapped \/ (hero.lit = hero.stored /\ hero.writing \in {<<>>, <<~hero.stored>>})
  BY DEF ShelfInv, HeroInv, DetailInv
<1>1. GridInv'
  BY DEF ShelfInv, GridInv, ToggleHero, HeroWritten, HeroNotWritten
<1>2. DetailInv'
  BY DEF ShelfInv, DetailInv, ToggleHero, HeroWritten, HeroNotWritten
<1> DEFINE left == Tail(hero.writing)
<1>3. CASE ToggleHero
  <2> DEFINE longer == Append(hero.writing, ~hero.stored)
  <2>1. longer \in Seq(BOOLEAN) /\ (hero.writing = <<>> => longer = <<~hero.stored>>)
    <3>1. hero.writing \in Seq(BOOLEAN) /\ (~hero.stored) \in BOOLEAN
      BY <1>0
    <3>2. longer \in Seq(BOOLEAN)
      BY <3>1, AppendProperties
    <3>3. \A b \in BOOLEAN : Append(<<>>, b) = <<b>>
      OBVIOUS
    <3> QED BY <3>1, <3>2, <3>3
  <2>2. hero' = [hero EXCEPT !.writing = longer] /\ overlapped' = (overlapped \/ hero.writing # <<>>)
    BY <1>3 DEF ToggleHero
  <2> HIDE DEF longer
  <2>3. HeroInv'
    BY <1>0, <2>1, <2>2 DEF HeroInv
  <2> QED BY <1>1, <1>2, <2>3 DEF ShelfInv
<1>4. CASE HeroWritten
  <2> DEFINE w == Head(hero.writing)
  <2>1. w \in BOOLEAN /\ left \in Seq(BOOLEAN) /\ (hero.writing = <<~hero.stored>> => left = <<>> /\ w = ~hero.stored)
    <3>1. hero.writing \in Seq(BOOLEAN) /\ hero.writing # <<>> /\ (~hero.stored) \in BOOLEAN
      BY <1>0, <1>4 DEF HeroWritten
    <3>2. w \in BOOLEAN /\ left \in Seq(BOOLEAN)
      BY <3>1, HeadTailProperties
    <3>3. \A b \in BOOLEAN : Tail(<<b>>) = <<>> /\ Head(<<b>>) = b
      OBVIOUS
    <3> QED BY <3>1, <3>2, <3>3
  <2>2. /\ hero' = [HeroShown(w) EXCEPT !.writing = Tail(@)]
        /\ HeroShown(w) = [hero EXCEPT !.stored = w, !.text = w, !.lit = ~@]
        /\ overlapped' = overlapped /\ hero.writing # <<>>
    BY <1>4 DEF HeroWritten, HeroShown
  <2> HIDE DEF w, left
  <2>3. /\ hero' \in [stored : BOOLEAN, text : BOOLEAN, lit : BOOLEAN, writing : Seq(BOOLEAN)]
        /\ hero'.stored = w /\ hero'.text = w /\ hero'.lit = ~hero.lit /\ hero'.writing = left
    BY <1>0, <2>1, <2>2 DEF left
  <2>4. overlapped \/ (hero'.lit = hero'.stored /\ hero'.writing \in {<<>>, <<~hero'.stored>>})
    BY <1>0, <2>1, <2>2, <2>3
  <2>5. HeroInv'
    BY <2>2, <2>3, <2>4 DEF HeroInv
  <2> QED BY <1>1, <1>2, <2>5 DEF ShelfInv
<1>5. CASE HeroNotWritten
  <2>1. left \in Seq(BOOLEAN) /\ (hero.writing = <<~hero.stored>> => left = <<>>) /\ hero.writing # <<>>
    BY <1>0, <1>5 DEF HeroNotWritten
  <2>2. hero' = [hero EXCEPT !.writing = left] /\ overlapped' = overlapped
    BY <1>5 DEF HeroNotWritten
  <2> HIDE DEF left
  <2>3. HeroInv'
    BY <1>0, <2>1, <2>2 DEF HeroInv
  <2> QED BY <1>1, <1>2, <2>3 DEF ShelfInv
<1> QED BY <1>3, <1>4, <1>5

LEMMA ShelfGoesOn == ShelfInv /\ [LibraryPagesNext]_libraryPageVars => ShelfInv'
<1>1. ShelfInv /\ UNCHANGED libraryPageVars => ShelfInv'
  BY DEF libraryPageVars, ShelfInv, GridInv, DetailInv, HeroInv
<1> QED BY <1>1, ChoiceKeeps, GameKeeps, HeroKeeps DEF LibraryPagesNext

LEMMA ShelfIsShown == ShelfInv => LibraryIsShown
<1> SUFFICES ASSUME ShelfInv PROVE LibraryIsShown
  OBVIOUS
<1>1. \A card \in Range(grid.cards) : card.favorite = shelf[card.game].favorite
  <2>1. PICK view \in Views, num \in Nat \ {0} : grid = Rendered(shelf, view, num)
    BY DEF ShelfInv, GridInv
  <2>2. shelf \in Stocks
    BY DEF ShelfInv, GridInv
  <2> QED BY <2>1, <2>2, RenderedIs
<1>2. ~typing => /\ grid = Rendered(shelf, controls, number)
                 /\ grid = Empty => controls.search \cap controls.platform = {}
  <2>1. shelf \in Stocks /\ controls \in Views /\ number \in Nat \ {0}
        /\ (~typing => grid = Rendered(shelf, controls, number) /\ Reaches(controls, number))
    BY DEF ShelfInv, GridInv
  <2>2. Rendered(shelf, controls, number) = Empty /\ Reaches(controls, number) => Matching(controls) = {}
    BY <2>1, RenderedIs
  <2> QED BY <2>1, <2>2 DEF Matching
<1>3. GridIsCurrent
  BY <1>1, <1>2 DEF ShelfInv, GridInv, GridIsCurrent
<1>4. DetailsAreCurrent
  BY DEF ShelfInv, DetailInv, HeroInv, DetailsAreCurrent
<1> QED BY <1>3, <1>4 DEF LibraryIsShown

\* The library shows the games that match, page by page and with the favourites as they are
\* stored, for any number of games and writes that overlap (library.js, game-detail.js).
THEOREM ShelvesAreShown == LibraryPagesSpec => []LibraryIsShown
<1> QED BY ShelfBegins, ShelfGoesOn, ShelfIsShown, PTL DEF LibraryPagesSpec

HIDE LibraryAssumption

-----------------------------------------------------------------------------
(***************************************************************************)
(* The page of hosts.  What is shown beside a profile was made for it, the *)
(* lists have an id once, and a capture that nobody closed is the page's.  *)
(***************************************************************************)
Previews == [at : {"asked", "granted", "over"}, live : BOOLEAN, closed : BOOLEAN, stray : BOOLEAN]
Checks == [host : HostProfiles, seen : BOOLEAN]
Files == [valid : BOOLEAN, list : {<<>>} \cup {<<profile>> : profile \in HostProfiles}]
Pages ==
  [hosts : Seq(HostProfiles), selected : HostId \cup {Absent}, request : HostProfiles \cup {Absent},
   health : {Absent} \cup [of : HostProfiles, blocking : {Absent} \cup {Blocking(l) : l \in Lacks}],
   checks : Seq(Checks), files : SUBSET Files,
   previews : Seq(Previews), current : Nat, stoppable : BOOLEAN]

\* A publisher is closed when another takes its place, and only then.
CaptureInv(tab) ==
  /\ tab.current \in 0..Len(tab.previews)
  /\ \A k \in DOMAIN tab.previews :
       LET preview == tab.previews[k]
       IN  /\ preview.closed <=> k # tab.current
           /\ preview.live => preview.at # "asked"
           /\ preview.closed => preview.stray \/ (preview.at # "asked" /\ ~preview.live)

ButtonInv(tab) ==
  \A k \in DOMAIN tab.previews :
    LET preview == tab.previews[k]
    IN  preview.live /\ ~preview.closed /\ preview.at = "over" /\ Edited(tab) # Absent => tab.stoppable

\* What is shown was asked for with the profile that is shown.
ShownInv(tab) ==
  /\ OnceEach(tab.hosts)
  /\ tab.hosts # <<>> => tab.selected \in Ids(tab.hosts)
  /\ tab.request \in {Absent, Edited(tab)}
  /\ tab.health = Absent \/ tab.health.of = Edited(tab)
  /\ \A i \in DOMAIN tab.checks : tab.checks[i].seen => tab.checks[i].host = Edited(tab)

PageInv(tab) == tab \in Pages /\ ShownInv(tab) /\ CaptureInv(tab) /\ ButtonInv(tab)

ListInv == saved \in Seq(HostProfiles) /\ OnceEach(saved) /\ expected = EndpointsOf(saved)

HostPagesInv ==
  /\ ListInv
  /\ DOMAIN desk = HostTab /\ \A t \in HostTab : PageInv(desk[t])
  /\ DOMAIN handed = HostTab
  /\ \A t \in HostTab : handed[t] = Absent \/ handed[t].entered = handed[t].host

USE HostPagesAssumption

\* An id names its record.
LEMMA InListIs ==
  ASSUME NEW list \in Seq(HostProfiles), OnceEach(list)
  PROVE  /\ \A h \in Range(list) : h \in HostProfiles /\ h.id \in Ids(list) /\ InList(list, h.id) = h
         /\ \A id : id \notin Ids(list) => InList(list, id) = Absent
         /\ Ids(list) \subseteq HostId
         /\ \A id : InList(list, id) \in HostProfiles \cup {Absent}
         /\ \A id \in Ids(list) : InList(list, id) \in Range(list) /\ InList(list, id).id = id
<1>1. ASSUME NEW h \in Range(list) PROVE h \in HostProfiles /\ h.id \in Ids(list)
  BY DEF Range, Ids
<1>2. ASSUME NEW g \in Range(list), NEW h \in Range(list), g.id = h.id PROVE g = h
  BY <1>2 DEF Range, OnceEach
<1>3. ASSUME NEW id \in Ids(list) PROVE InList(list, id) \in Range(list) /\ InList(list, id).id = id
  <2>1. \E h \in Range(list) : h.id = id
    BY DEF Ids
  <2> QED BY <2>1 DEF InList
<1>4. \A id : id \notin Ids(list) => InList(list, id) = Absent
  BY DEF InList
<1>5. Ids(list) \subseteq HostId
  BY <1>1 DEF Ids, HostProfiles
<1> QED BY <1>1, <1>2, <1>3, <1>4, <1>5

\* Without one of its records
LEMMA RemovedIs ==
  ASSUME NEW list \in Seq(HostProfiles), OnceEach(list), NEW id
  PROVE  /\ Removed(list, id) \in Seq(HostProfiles) /\ OnceEach(Removed(list, id))
         /\ Range(Removed(list, id)) = {h \in Range(list) : h.id # id}
<1>1. CASE id \notin Ids(list)
  BY <1>1 DEF Removed, Ids
<1>2. CASE id \in Ids(list)
  <2> DEFINE i == CHOOSE i \in DOMAIN list : list[i].id = id
             rest == RemoveAt(list, i)
  <2>1. i \in DOMAIN list /\ list[i].id = id
    <3>1. \E j \in DOMAIN list : list[j].id = id
      BY <1>2 DEF Ids, Range
    <3> QED BY <3>1
  <2>2. Removed(list, id) = rest
    BY <1>2 DEF Removed
  <2> HIDE DEF i
  <2>3. /\ rest \in Seq(HostProfiles) /\ Len(rest) = Len(list) - 1
        /\ \A k \in 1..(Len(list) - 1) : k < i => rest[k] = list[k]
        /\ \A k \in 1..(Len(list) - 1) : k >= i => rest[k] = list[k + 1]
    BY <2>1, RemoveAtIs
  <2> HIDE DEF rest
  <2>4. DOMAIN rest = 1..(Len(list) - 1) /\ DOMAIN list = 1..Len(list) /\ Len(list) \in Nat /\ i \in 1..Len(list)
    BY <2>1, <2>3
  <2> DEFINE old(k) == IF k < i THEN k ELSE k + 1
  <2>5. \A k \in DOMAIN rest : old(k) \in DOMAIN list /\ old(k) # i /\ rest[k] = list[old(k)]
    BY <2>3, <2>4, SMTT(60)
  <2>6. \A k, l \in DOMAIN rest : old(k) = old(l) => k = l
    BY <2>4
  <2>7. \A j \in DOMAIN list \ {i} : \E k \in DOMAIN rest : old(k) = j
    <3> TAKE j \in DOMAIN list \ {i}
    <3>1. CASE j < i
      BY <3>1, <2>4
    <3>2. CASE j > i
      <4>1. j - 1 \in DOMAIN rest /\ old(j - 1) = j
        BY <3>2, <2>4
      <4> QED BY <4>1
    <3> QED BY <3>1, <3>2, <2>4
  <2> HIDE DEF old
  <2>8. OnceEach(rest)
    BY <2>5, <2>6 DEF OnceEach
  <2>9. Range(rest) \subseteq {h \in Range(list) : h.id # id}
    BY <2>1, <2>5 DEF Range, OnceEach
  <2>10. {h \in Range(list) : h.id # id} \subseteq Range(rest)
    BY <2>1, <2>5, <2>7 DEF Range
  <2> QED BY <2>2, <2>3, <2>8, <2>9, <2>10
<1> QED BY <1>1, <1>2

LEMMA AppendedIs ==
  ASSUME NEW list \in Seq(HostProfiles), OnceEach(list), NEW profile \in HostProfiles, profile.id \notin Ids(list)
  PROVE  /\ Append(list, profile) \in Seq(HostProfiles) /\ OnceEach(Append(list, profile))
         /\ Range(Append(list, profile)) = Range(list) \cup {profile}
<1> DEFINE new == Append(list, profile)
<1>1. /\ new \in Seq(HostProfiles) /\ DOMAIN new = 1..(Len(list) + 1) /\ DOMAIN list = 1..Len(list)
      /\ Len(list) \in Nat /\ \A i \in DOMAIN list : new[i] = list[i]
      /\ new[Len(list) + 1] = profile
  OBVIOUS
<1> HIDE DEF new
<1>2. \A i \in DOMAIN list : list[i].id # profile.id
  BY DEF Ids, Range
<1>3. OnceEach(new)
  <2> SUFFICES ASSUME NEW i \in DOMAIN new, NEW j \in DOMAIN new, new[i].id = new[j].id PROVE i = j
    BY DEF OnceEach
  <2>1. CASE i \in DOMAIN list /\ j \in DOMAIN list
    BY <2>1, <1>1 DEF OnceEach
  <2>2. CASE ~(i \in DOMAIN list /\ j \in DOMAIN list)
    BY <2>2, <1>1, <1>2
  <2> QED BY <2>1, <2>2
<1>4. Range(new) = Range(list) \cup {profile}
  <2>1. ASSUME NEW h \in Range(new) PROVE h \in Range(list) \cup {profile}
    BY <1>1 DEF Range
  <2>2. ASSUME NEW h \in Range(list) PROVE h \in Range(new)
    BY <1>1 DEF Range
  <2>3. profile \in Range(new)
    BY <1>1 DEF Range
  <2> QED BY <2>1, <2>2, <2>3
<1> QED BY <1>1, <1>3, <1>4 DEF new

\* A list that has what another has, but for one record and with one more, has the endpoints of
\* the other, but for theirs.
LEMMA SavedIs ==
  ASSUME ListInv, NEW profile \in HostProfiles
  PROVE  LET list == Append(Removed(saved, profile.id), profile)
         IN  /\ list \in Seq(HostProfiles) /\ OnceEach(list)
             /\ Range(list) = {h \in Range(saved) : h.id # profile.id} \cup {profile}
<1>1. /\ Removed(saved, profile.id) \in Seq(HostProfiles) /\ OnceEach(Removed(saved, profile.id))
      /\ Range(Removed(saved, profile.id)) = {h \in Range(saved) : h.id # profile.id}
  BY RemovedIs DEF ListInv
<1>2. profile.id \notin Ids(Removed(saved, profile.id))
  BY <1>1 DEF Ids
<1> QED BY <1>1, <1>2, AppendedIs

LEMMA EndpointsAre ==
  ASSUME NEW list \in Seq(HostProfiles), OnceEach(list), NEW new \in [HostId -> Endpoint \cup {Absent}],
         \A h \in Range(list) : new[h.id] = h.endpoint,
         \A id \in HostId \ Ids(list) : new[id] = Absent
  PROVE  new = EndpointsOf(list)
<1>1. ASSUME NEW id \in HostId PROVE new[id] = EndpointsOf(list)[id]
  BY InListIs DEF EndpointsOf
<1> QED BY <1>1 DEF EndpointsOf

LEMMA EndpointsSaved ==
  ASSUME ListInv
  PROVE  /\ expected \in [HostId -> Endpoint \cup {Absent}]
         /\ \A h \in Range(saved) : h \in HostProfiles /\ expected[h.id] = h.endpoint
         /\ \A id \in HostId \ Ids(saved) : expected[id] = Absent
<1>1. \A id \in Ids(saved) : InList(saved, id).endpoint \in Endpoint
  BY InListIs DEF ListInv, HostProfiles
<1>2. \A h \in Range(saved) : h.id \in HostId
  BY InListIs DEF ListInv, HostProfiles
<1> QED BY <1>1, <1>2, InListIs DEF ListInv, EndpointsOf

\* As many profiles as ids
LEMMA ListCounts ==
  ASSUME NEW list \in Seq(HostProfiles), OnceEach(list)
  PROVE  Len(list) = Cardinality(Ids(list))
<1> DEFINE f == [i \in 1..Len(list) |-> list[i].id]
<1>1. Len(list) \in Nat /\ DOMAIN list = 1..Len(list)
  OBVIOUS
<1>2. f \in Surjection(1..Len(list), Ids(list))
  <2>1. f \in [1..Len(list) -> Ids(list)]
    BY <1>1 DEF Ids, Range
  <2>2. \A id \in Ids(list) : \E i \in 1..Len(list) : f[i] = id
    BY <1>1 DEF Ids, Range
  <2> QED BY <2>1, <2>2 DEF Surjection
<1>3. f \in Injection(1..Len(list), Ids(list))
  <2>1. \A i, j \in 1..Len(list) : f[i] = f[j] => i = j
    BY <1>1 DEF OnceEach
  <2> QED BY <2>1, <1>2 DEF Surjection, Injection, IsInjective
<1> HIDE DEF f
<1>4. IsFiniteSet(1..Len(list)) /\ Cardinality(1..Len(list)) = Len(list)
  BY <1>1, FS_Interval, SMTT(60)
<1> QED BY <1>2, <1>3, <1>4, FS_Surjection

\* The profile that is shown
LEMMA EditedIs ==
  ASSUME NEW tab \in Pages, ShownInv(tab)
  PROVE  /\ Edited(tab) \in HostProfiles \cup {Absent}
         /\ tab.hosts # <<>> => Edited(tab) # Absent
         /\ Edited(tab) # Absent => tab.selected \in Ids(tab.hosts) /\ tab.selected \in HostId
<1>1. tab.hosts \in Seq(HostProfiles) /\ OnceEach(tab.hosts)
  BY DEF Pages, ShownInv
<1>2. Absent \notin HostProfiles
  OBVIOUS
<1>3. \A h \in Range(tab.hosts) : h \in HostProfiles
  BY <1>1, InListIs
<1>4. \A id \in Ids(tab.hosts) : InList(tab.hosts, id) \in HostProfiles
  BY <1>1, <1>3, InListIs
<1> QED BY <1>1, <1>2, <1>4, InListIs DEF Edited, ShownInv

LEMMA StopIs ==
  ASSUME NEW tab \in Pages, CaptureInv(tab)
  PROVE  LET q == StopCurrent(tab)
         IN  /\ q \in Pages /\ CaptureInv(q) /\ q.current = 0
             /\ q.hosts = tab.hosts /\ q.selected = tab.selected /\ q.request = tab.request
             /\ q.health = tab.health /\ q.checks = tab.checks /\ q.files = tab.files
             /\ q.stoppable = tab.stoppable /\ Len(q.previews) = Len(tab.previews)
<1> DEFINE q == StopCurrent(tab)
<1>1. CASE tab.current = 0
  BY <1>1 DEF StopCurrent
<1>2. CASE tab.current # 0
  <2> DEFINE c == tab.current
             stopped == Stopped(tab.previews[c])
  <2>1. c \in DOMAIN tab.previews /\ tab.previews \in Seq(Previews) /\ tab.previews[c] \in Previews
    BY <1>2 DEF Pages, CaptureInv
  <2>2. stopped \in Previews /\ stopped.closed /\ ~stopped.live /\ stopped.at = tab.previews[c].at
        /\ (stopped.stray <=> stopped.at = "asked")
    BY <2>1 DEF Stopped, Previews
  <2> HIDE DEF stopped
  <2>3. q = [tab EXCEPT !.previews = [tab.previews EXCEPT ![c] = stopped], !.current = 0]
    BY <1>2 DEF StopCurrent, Pages, stopped
  <2>4. [tab.previews EXCEPT ![c] = stopped] \in Seq(Previews)
        /\ DOMAIN [tab.previews EXCEPT ![c] = stopped] = DOMAIN tab.previews
        /\ Len([tab.previews EXCEPT ![c] = stopped]) = Len(tab.previews)
    BY <2>1, <2>2
  <2> DEFINE list == [tab.previews EXCEPT ![c] = stopped]
  <2>5. \A k \in DOMAIN tab.previews : list[k] = IF k = c THEN stopped ELSE tab.previews[k]
    BY <2>1
  <2> HIDE DEF list
  <2>6. q.previews = list /\ q.current = 0 /\ q \in Pages
        /\ q.hosts = tab.hosts /\ q.selected = tab.selected /\ q.request = tab.request
        /\ q.health = tab.health /\ q.checks = tab.checks /\ q.files = tab.files
        /\ q.stoppable = tab.stoppable
    <3>1. q = [tab EXCEPT !.previews = list, !.current = 0]
      BY <2>3 DEF list
    <3>2. list \in Seq(Previews)
      BY <2>4 DEF list
    <3> HIDE DEF q, list
    <3> QED BY <3>1, <3>2 DEF Pages
  <2> HIDE DEF q
  <2>7. CaptureInv(q)
    <3> SUFFICES ASSUME NEW k \in DOMAIN tab.previews
                 PROVE  /\ list[k].closed <=> k # 0
                        /\ list[k].live => list[k].at # "asked"
                        /\ list[k].closed => list[k].stray \/ (list[k].at # "asked" /\ ~list[k].live)
      BY <2>4, <2>6 DEF CaptureInv, list, Pages
    <3>1. k # 0
      BY <2>1
    <3>2. CASE k = c
      BY <3>1, <3>2, <2>2, <2>5
    <3>3. CASE k # c
      BY <3>1, <3>3, <2>5 DEF CaptureInv
    <3> QED BY <3>2, <3>3
  <2> QED BY <2>4, <2>6, <2>7 DEF q, list
<1> QED BY <1>1, <1>2

\* Nothing of the page's is captured: no button is missed.
LEMMA NoneHeld == ASSUME NEW tab, CaptureInv(tab), tab.current = 0, tab \in Pages PROVE ButtonInv(tab)
BY DEF CaptureInv, ButtonInv, Pages

LEMMA SelectedIs ==
  ASSUME NEW tab, PageInv(tab), NEW list \in Seq(HostProfiles), OnceEach(list),
         NEW id \in HostId \cup {Absent}, list # <<>> => id \in Ids(list)
  PROVE  PageInv(Selected(tab, list, id))
<1> DEFINE other == [tab EXCEPT !.hosts = list, !.selected = id]
           unseen == [i \in DOMAIN tab.checks |-> [tab.checks[i] EXCEPT !.seen = FALSE]]
           bare == [other EXCEPT !.request = Absent, !.health = Absent, !.stoppable = FALSE, !.checks = unseen]
           q == Selected(tab, list, id)
<1>1. unseen \in Seq(Checks) /\ DOMAIN unseen = DOMAIN tab.checks /\ \A i \in DOMAIN unseen : ~unseen[i].seen
  <2>1. tab.checks \in Seq(Checks)
    BY DEF PageInv, Pages
  <2>2. \A i \in DOMAIN tab.checks : tab.checks[i] \in Checks
    BY <2>1
  <2>3. \A check \in Checks : [check EXCEPT !.seen = FALSE] \in Checks /\ ~[check EXCEPT !.seen = FALSE].seen
    BY DEF Checks
  <2> QED BY <2>1, <2>2, <2>3, SMTT(60)
<1>2. /\ other \in Pages /\ other.checks = tab.checks
      /\ other.hosts = list /\ other.selected = id
      /\ other.previews = tab.previews /\ other.current = tab.current
  BY DEF PageInv, Pages
<1> HIDE DEF other, unseen
<1>3. /\ bare \in Pages /\ bare.hosts = list /\ bare.selected = id /\ bare.request = Absent /\ bare.health = Absent
      /\ bare.checks = unseen /\ bare.previews = tab.previews /\ bare.current = tab.current
  BY <1>1, <1>2 DEF Pages
<1>4. q = IF Edited(other) = Absent THEN bare ELSE StopCurrent(bare)
  BY <1>2 DEF Selected, EditorRendered, other, unseen, Pages
<1> HIDE DEF bare, q
<1>5. CaptureInv(bare)
  BY <1>3 DEF PageInv, CaptureInv
<1>6. Edited(other) = Edited(bare)
  BY <1>2, <1>3 DEF Edited
<1>7. CASE Edited(bare) = Absent
  <2>1. ShownInv(bare)
    BY <1>1, <1>3 DEF ShownInv
  <2>2. ButtonInv(bare)
    BY <1>7 DEF ButtonInv
  <2> QED BY <1>3, <1>4, <1>5, <1>6, <1>7, <2>1, <2>2 DEF PageInv, q
<1>8. CASE Edited(bare) # Absent
  <2> DEFINE r == StopCurrent(bare)
  <2>1. r \in Pages /\ CaptureInv(r) /\ r.current = 0 /\ r.hosts = list /\ r.selected = id
        /\ r.request = Absent /\ r.health = Absent /\ r.checks = unseen
    BY <1>3, <1>5, StopIs
  <2> HIDE DEF r
  <2>2. ShownInv(r)
    BY <1>1, <2>1 DEF ShownInv
  <2> QED BY <2>1, <2>2, <1>4, <1>6, <1>8, NoneHeld DEF PageInv, q, r
<1> QED BY <1>7, <1>8

LEMMA FirstIs ==
  ASSUME NEW list \in Seq(HostProfiles), OnceEach(list)
  PROVE  FirstId(list) \in HostId \cup {Absent} /\ (list # <<>> => FirstId(list) \in Ids(list))
<1>1. CASE list = <<>>
  BY <1>1 DEF FirstId
<1>2. CASE list # <<>>
  <2>1. list[1] \in Range(list) /\ FirstId(list) = list[1].id
    BY <1>2 DEF FirstId, Range
  <2> QED BY <2>1, InListIs DEF Ids
<1> QED BY <1>1, <1>2

LEMMA NewPageIs == ASSUME ListInv PROVE PageInv(NewPage)
<1>1. saved \in Seq(HostProfiles) /\ OnceEach(saved)
  BY DEF ListInv
<1>2. FirstId(saved) \in HostId \cup {Absent} /\ (saved # <<>> => FirstId(saved) \in Ids(saved))
  BY <1>1, FirstIs
<1>3. /\ NewPage.hosts = saved /\ NewPage.selected = FirstId(saved) /\ NewPage.request = Absent
      /\ NewPage.health = Absent /\ NewPage.checks = <<>> /\ NewPage.previews = <<>> /\ NewPage.current = 0
  BY DEF NewPage
<1>4. NewPage \in Pages
  BY <1>1, <1>2 DEF NewPage, Pages
<1> HIDE DEF NewPage
<1>5. ShownInv(NewPage) /\ CaptureInv(NewPage) /\ ButtonInv(NewPage)
  BY <1>1, <1>2, <1>3 DEF ShownInv, CaptureInv, ButtonInv
<1> QED BY <1>4, <1>5 DEF PageInv

LEMMA HostPagesBegin == HostPagesInit => HostPagesInv
<1> SUFFICES ASSUME HostPagesInit PROVE HostPagesInv
  OBVIOUS
<1>1. ListInv
  BY DEF HostPagesInit, ListInv
<1> QED BY <1>1, NewPageIs DEF HostPagesInit, HostPagesInv

\* Only one page is changed.
LEMMA PageChanges ==
  ASSUME HostPagesInv, NEW t \in HostTab, ListInv',
         \E tab : PageInv(tab) /\ desk' = [desk EXCEPT ![t] = tab],
         handed' = handed \/ \E gone : gone.entered = gone.host /\ handed' = [handed EXCEPT ![t] = gone]
  PROVE  HostPagesInv'
<1>1. DOMAIN desk' = HostTab /\ \A u \in HostTab : PageInv(desk'[u])
  BY DEF HostPagesInv
<1>2. DOMAIN handed' = HostTab /\ \A u \in HostTab : handed'[u] = Absent \/ handed'[u].entered = handed'[u].host
  BY DEF HostPagesInv
<1> QED BY <1>1, <1>2 DEF HostPagesInv

LEMMA ListStays == ASSUME HostPagesInv, UNCHANGED <<saved, expected>> PROVE ListInv'
BY DEF HostPagesInv, ListInv

\* Another list, another profile
LEMMA ListKeeps ==
  ASSUME HostPagesInv, NEW t \in HostTab,
         SelectHost(t) \/ AddHost(t) \/ SaveProfile(t) \/ RemoveHost(t) \/ FileIsRead(t)
  PROVE  HostPagesInv'
<1> USE DEF HostPagesInv
<1> DEFINE tab == desk[t]
<1>1. /\ PageInv(tab) /\ tab \in Pages /\ tab.hosts \in Seq(HostProfiles) /\ OnceEach(tab.hosts)
      /\ Ids(tab.hosts) \subseteq HostId
  BY InListIs DEF PageInv, ShownInv, Pages
<1>2. saved \in Seq(HostProfiles) /\ OnceEach(saved) /\ Ids(saved) \subseteq HostId
  BY InListIs DEF ListInv
<1>3. CASE SelectHost(t)
  <2>1. PICK profile \in Range(tab.hosts) : desk' = [desk EXCEPT ![t] = Selected(tab, tab.hosts, profile.id)]
    BY <1>3 DEF SelectHost
  <2>2. profile.id \in Ids(tab.hosts)
    BY DEF Ids
  <2>3. PageInv(Selected(tab, tab.hosts, profile.id))
    BY <1>1, <2>2, SelectedIs
  <2> QED BY <1>3, <2>1, <2>3, ListStays, PageChanges DEF SelectHost
<1>4. CASE AddHost(t)
  <2>1. PICK profile \in HostProfiles :
          /\ saved' = Append(Removed(saved, profile.id), profile)
          /\ expected' = [expected EXCEPT ![profile.id] = profile.endpoint]
          /\ desk' = [desk EXCEPT ![t] = Selected(tab, saved', profile.id)]
    <3>1. PICK id \in HostId \ Ids(saved), endpoint \in Endpoint :
            LET profile == [id |-> id, endpoint |-> endpoint]
            IN  /\ \A u \in HostTab : id \notin Ids(desk[u].hosts)
                /\ saved' = SavedWith(tab, profile)
                /\ expected' = [expected EXCEPT ![id] = endpoint]
                /\ desk' = [desk EXCEPT ![t] = Selected(@, saved', id)]
      BY <1>4, Zenon DEF AddHost
    <3>2. [id |-> id, endpoint |-> endpoint] \in HostProfiles
      BY DEF HostProfiles
    <3> WITNESS [id |-> id, endpoint |-> endpoint] \in HostProfiles
    <3> QED BY <3>1 DEF SavedWith
  <2>2. /\ saved' \in Seq(HostProfiles) /\ OnceEach(saved')
        /\ Range(saved') = {h \in Range(saved) : h.id # profile.id} \cup {profile}
    BY <2>1, SavedIs
  <2>3. expected' = EndpointsOf(saved')
    <3> DEFINE new == [expected EXCEPT ![profile.id] = profile.endpoint]
    <3>1. new \in [HostId -> Endpoint \cup {Absent}]
      BY EndpointsSaved DEF HostProfiles
    <3>2. \A h \in Range(saved') : new[h.id] = h.endpoint
      BY <2>2, EndpointsSaved DEF HostProfiles
    <3>3. \A id \in HostId \ Ids(saved') : new[id] = Absent
      BY <2>2, EndpointsSaved DEF Ids
    <3> HIDE DEF new
    <3>4. \A list \in Seq(HostProfiles) :
            /\ OnceEach(list) /\ \A h \in Range(list) : new[h.id] = h.endpoint
            /\ \A id \in HostId \ Ids(list) : new[id] = Absent
            => new = EndpointsOf(list)
      BY <3>1, EndpointsAre
    <3> QED BY <2>1, <2>2, <3>2, <3>3, <3>4 DEF new
  <2>4. profile.id \in Ids(saved') /\ profile.id \in HostId
    BY <2>2 DEF Ids, HostProfiles
  <2>5. PageInv(Selected(tab, saved', profile.id))
    <3>1. \A list \in Seq(HostProfiles) :
            OnceEach(list) /\ profile.id \in Ids(list) => PageInv(Selected(tab, list, profile.id))
      BY <1>1, <2>4, SelectedIs, SMTT(60)
    <3> QED BY <2>2, <2>4, <3>1
  <2> QED BY <1>4, <2>1, <2>2, <2>3, <2>5, PageChanges DEF AddHost, ListInv
<1>5. CASE SaveProfile(t)
  <2> DEFINE before == tab.selected
  <2>1. PICK profile \in HostProfiles :
          /\ saved' = IF profile.id = before THEN Append(Removed(saved, profile.id), profile)
                      ELSE Removed(Append(Removed(saved, profile.id), profile), before)
          /\ expected' = [id \in HostId |-> IF id = profile.id THEN profile.endpoint
                                            ELSE IF id = before THEN Absent ELSE expected[id]]
          /\ desk' = [desk EXCEPT ![t] = Selected(tab, saved', profile.id)]
    BY <1>5 DEF SaveProfile, SavedWith
  <2>2. /\ saved' \in Seq(HostProfiles) /\ OnceEach(saved')
        /\ Range(saved') = {h \in Range(saved) : h.id # profile.id /\ h.id # before} \cup {profile}
    <3> DEFINE list == Append(Removed(saved, profile.id), profile)
    <3>1. /\ list \in Seq(HostProfiles) /\ OnceEach(list)
          /\ Range(list) = {h \in Range(saved) : h.id # profile.id} \cup {profile}
      BY SavedIs
    <3> HIDE DEF list
    <3>2. /\ Removed(list, before) \in Seq(HostProfiles) /\ OnceEach(Removed(list, before))
          /\ Range(Removed(list, before)) = {h \in Range(list) : h.id # before}
      BY <3>1, RemovedIs
    <3> QED BY <2>1, <3>1, <3>2 DEF list
  <2>3. expected' = EndpointsOf(saved')
    <3> DEFINE new == [id \in HostId |-> IF id = profile.id THEN profile.endpoint
                                         ELSE IF id = before THEN Absent ELSE expected[id]]
    <3>1. new \in [HostId -> Endpoint \cup {Absent}]
      BY EndpointsSaved DEF HostProfiles
    <3>2. \A h \in Range(saved') : new[h.id] = h.endpoint
      BY <2>2, EndpointsSaved DEF HostProfiles
    <3>3. \A id \in HostId \ Ids(saved') : new[id] = Absent
      BY <2>2, EndpointsSaved DEF Ids
    <3> HIDE DEF new
    <3>4. \A list \in Seq(HostProfiles) :
            /\ OnceEach(list) /\ \A h \in Range(list) : new[h.id] = h.endpoint
            /\ \A id \in HostId \ Ids(list) : new[id] = Absent
            => new = EndpointsOf(list)
      BY <3>1, EndpointsAre
    <3> QED BY <2>1, <2>2, <3>2, <3>3, <3>4 DEF new
  <2>4. profile.id \in Ids(saved') /\ profile.id \in HostId
    BY <2>2 DEF Ids, HostProfiles
  <2>5. PageInv(Selected(tab, saved', profile.id))
    <3>1. \A list \in Seq(HostProfiles) :
            OnceEach(list) /\ profile.id \in Ids(list) => PageInv(Selected(tab, list, profile.id))
      BY <1>1, <2>4, SelectedIs
    <3> QED BY <2>2, <2>4, <3>1
  <2> QED BY <1>5, <2>1, <2>2, <2>3, <2>5, PageChanges DEF SaveProfile, ListInv
<1>6. CASE RemoveHost(t)
  <2> DEFINE gone == tab.selected
             list == Removed(saved, gone)
  <2>1. /\ list \in Seq(HostProfiles) /\ OnceEach(list) /\ Range(list) = {h \in Range(saved) : h.id # gone}
    BY <1>2, RemovedIs
  <2>2. saved' = list /\ expected' = [expected EXCEPT ![gone] = Absent]
        /\ desk' = [desk EXCEPT ![t] = Selected(tab, list, FirstId(list))]
    BY <1>6 DEF RemoveHost
  <2> HIDE DEF list
  <2>3. gone \in HostId
    BY <1>1, <1>6, EditedIs DEF PageInv, RemoveHost
  <2>4. expected' = EndpointsOf(saved')
    <3> DEFINE new == [expected EXCEPT ![gone] = Absent]
    <3>1. new \in [HostId -> Endpoint \cup {Absent}]
      BY EndpointsSaved
    <3>2. \A h \in Range(list) : new[h.id] = h.endpoint
      BY <2>1, <2>3, EndpointsSaved DEF HostProfiles
    <3>3. \A id \in HostId \ Ids(list) : new[id] = Absent
      BY <2>1, <2>3, EndpointsSaved DEF Ids
    <3> HIDE DEF new
    <3>4. new = EndpointsOf(list)
      BY <2>1, <3>1, <3>2, <3>3, EndpointsAre
    <3> QED BY <2>2, <3>4 DEF new
  <2>5. PageInv(Selected(tab, list, FirstId(list)))
    BY <1>1, <2>1, FirstIs, SelectedIs
  <2> QED BY <1>6, <2>1, <2>2, <2>4, <2>5, PageChanges DEF RemoveHost, ListInv
<1>7. CASE FileIsRead(t)
  <2>1. PICK file \in tab.files :
          LET rest == [tab EXCEPT !.files = @ \ {file}]
          IN  IF ~file.valid
              THEN desk' = [desk EXCEPT ![t] = rest] /\ UNCHANGED <<saved, expected>>
              ELSE /\ saved' = file.list
                   /\ desk' = [desk EXCEPT ![t] = Selected(rest, file.list, FirstId(file.list))]
                   /\ expected' = EndpointsOf(file.list)
    BY <1>7 DEF FileIsRead
  <2> DEFINE rest == [tab EXCEPT !.files = @ \ {file}]
  <2>2. PageInv(rest)
    <3>1. rest \in Pages
      BY <1>1 DEF Pages
    <3>2. /\ rest.hosts = tab.hosts /\ rest.selected = tab.selected /\ rest.request = tab.request
          /\ rest.health = tab.health /\ rest.checks = tab.checks /\ rest.previews = tab.previews
          /\ rest.current = tab.current /\ rest.stoppable = tab.stoppable
      BY <1>1 DEF Pages
    <3> HIDE DEF rest, tab
    <3> QED BY <1>1, <3>1, <3>2 DEF PageInv, ShownInv, CaptureInv, ButtonInv, Edited
  <2> HIDE DEF rest
  <2>3. file \in Files
    BY <1>1 DEF Pages
  <2>4. file.list \in Seq(HostProfiles) /\ OnceEach(file.list)
    <3>1. CASE file.list = <<>>
      BY <3>1 DEF OnceEach
    <3>2. CASE \E profile \in HostProfiles : file.list = <<profile>>
      <4>1. PICK profile \in HostProfiles : file.list = <<profile>>
        BY <3>2
      <4>2. DOMAIN <<profile>> = {1} /\ <<profile>> \in Seq(HostProfiles)
        OBVIOUS
      <4> QED BY <4>1, <4>2 DEF OnceEach
    <3> QED BY <2>3, <3>1, <3>2 DEF Files
  <2>5. CASE ~file.valid
    BY <1>7, <2>1, <2>2, <2>5, ListStays, PageChanges DEF FileIsRead, rest
  <2>6. CASE file.valid
    <3>1. PageInv(Selected(rest, file.list, FirstId(file.list)))
      BY <2>2, <2>4, FirstIs, SelectedIs
    <3>2. ListInv'
      BY <2>1, <2>4, <2>6 DEF ListInv
    <3>3. desk' = [desk EXCEPT ![t] = Selected(rest, file.list, FirstId(file.list))]
      BY <2>1, <2>6 DEF rest
    <3> QED BY <1>7, <3>1, <3>2, <3>3, PageChanges DEF FileIsRead
  <2> QED BY <2>5, <2>6
<1> QED BY <1>3, <1>4, <1>5, <1>6, <1>7

\* What is made of a page by its own handlers
LEMMA FileKept ==
  ASSUME NEW tab, PageInv(tab), NEW file \in Files
  PROVE  PageInv([tab EXCEPT !.files = @ \cup {file}])
<1> DEFINE q == [tab EXCEPT !.files = @ \cup {file}]
<1>1. q \in Pages
  BY DEF PageInv, Pages
<1>2. /\ q.hosts = tab.hosts /\ q.selected = tab.selected /\ q.request = tab.request
      /\ q.health = tab.health /\ q.checks = tab.checks /\ q.previews = tab.previews
      /\ q.current = tab.current /\ q.stoppable = tab.stoppable
  BY DEF PageInv, Pages
<1> HIDE DEF q
<1>3. PageInv(q)
  BY <1>1, <1>2 DEF PageInv, ShownInv, CaptureInv, ButtonInv, Edited
<1> QED BY <1>3 DEF q

LEMMA RequestKept ==
  ASSUME NEW tab, PageInv(tab), Edited(tab) # Absent
  PROVE  PageInv([tab EXCEPT !.request = Edited(tab)])
<1> DEFINE q == [tab EXCEPT !.request = Edited(tab)]
<1>1. q \in Pages
  BY EditedIs DEF PageInv, Pages
<1>2. /\ q.hosts = tab.hosts /\ q.selected = tab.selected /\ q.request = Edited(tab)
      /\ q.health = tab.health /\ q.checks = tab.checks /\ q.previews = tab.previews
      /\ q.current = tab.current /\ q.stoppable = tab.stoppable
  BY DEF PageInv, Pages
<1> HIDE DEF q
<1>3. PageInv(q)
  BY <1>1, <1>2 DEF PageInv, ShownInv, CaptureInv, ButtonInv, Edited
<1> QED BY <1>3 DEF q

LEMMA CheckKept ==
  ASSUME NEW tab, PageInv(tab), Edited(tab) # Absent
  PROVE  PageInv([tab EXCEPT !.health = Absent,
                              !.checks = Append(@, [host |-> Edited(tab), seen |-> TRUE])])
<1> DEFINE check == [host |-> Edited(tab), seen |-> TRUE]
           list == Append(tab.checks, check)
           q == [tab EXCEPT !.health = Absent, !.checks = list]
<1>1. check \in Checks /\ tab.checks \in Seq(Checks)
  BY EditedIs DEF PageInv, Pages, Checks
<1>2. check.host = Edited(tab)
  OBVIOUS
<1> HIDE DEF check
<1>3. /\ list \in Seq(Checks)
      /\ \A i \in DOMAIN list : list[i] = check \/ (i \in DOMAIN tab.checks /\ list[i] = tab.checks[i])
  BY <1>1
<1> HIDE DEF list
<1>4. q \in Pages
  BY <1>3 DEF PageInv, Pages
<1>5. /\ q.hosts = tab.hosts /\ q.selected = tab.selected /\ q.request = tab.request
      /\ q.health = Absent /\ q.checks = list /\ q.previews = tab.previews
      /\ q.current = tab.current /\ q.stoppable = tab.stoppable
  BY DEF PageInv, Pages
<1> HIDE DEF q
<1>6. PageInv(q)
  BY <1>2, <1>3, <1>4, <1>5 DEF PageInv, ShownInv, CaptureInv, ButtonInv, Edited
<1> QED BY <1>6 DEF q, list, check, PageInv, Pages

LEMMA HealthKept ==
  ASSUME NEW tab, PageInv(tab), NEW i \in DOMAIN tab.checks, NEW lacking \in Lacks \cup {Absent}
  PROVE  LET check == tab.checks[i]
             outcome == [of |-> check.host,
                         blocking |-> IF lacking = Absent THEN Absent ELSE Blocking(lacking)]
         IN  PageInv(HealthShown([tab EXCEPT !.checks = RemoveAt(tab.checks, i)], check, outcome))
<1> DEFINE check == tab.checks[i]
           outcome == [of |-> check.host,
                       blocking |-> IF lacking = Absent THEN Absent ELSE Blocking(lacking)]
           list == RemoveAt(tab.checks, i)
           rest == [tab EXCEPT !.checks = list]
           q == HealthShown(rest, check, outcome)
<1>1. tab.checks \in Seq(Checks) /\ check \in Checks
  BY DEF PageInv, Pages
<1>2. /\ list \in Seq(Checks) /\ Len(list) = Len(tab.checks) - 1
      /\ \A k \in 1..(Len(tab.checks) - 1) : k < i => list[k] = tab.checks[k]
      /\ \A k \in 1..(Len(tab.checks) - 1) : k >= i => list[k] = tab.checks[k + 1]
  BY <1>1, RemoveAtIs
<1> HIDE DEF list
<1>3. \A k \in DOMAIN list : list[k] \in {tab.checks[j] : j \in DOMAIN tab.checks}
  BY <1>1, <1>2, SMTT(60)
<1>4. outcome \in [of : HostProfiles, blocking : {Absent} \cup {Blocking(l) : l \in Lacks}]
      /\ outcome.of = check.host
  BY <1>1 DEF Checks
<1> HIDE DEF outcome
<1>5. rest \in Pages /\ [rest EXCEPT !.health = outcome] \in Pages
  BY <1>2, <1>4 DEF PageInv, Pages
<1>6. q \in Pages
  BY <1>5 DEF HealthShown
<1>7. /\ q.hosts = tab.hosts /\ q.selected = tab.selected /\ q.request = tab.request
      /\ q.health = (IF check.seen THEN outcome ELSE tab.health) /\ q.checks = list
      /\ q.previews = tab.previews /\ q.current = tab.current /\ q.stoppable = tab.stoppable
  BY <1>5 DEF HealthShown, PageInv, Pages
<1> HIDE DEF q
<1>8. check.seen => check.host = Edited(tab)
  BY DEF PageInv, ShownInv
<1> HIDE DEF check
<1>9. q.health = Absent \/ q.health.of = Edited(tab)
  BY <1>4, <1>7, <1>8 DEF PageInv, ShownInv
<1>10. \A k \in DOMAIN list : list[k].seen => list[k].host = Edited(tab)
  BY <1>3 DEF PageInv, ShownInv
<1>11. PageInv(q)
  BY <1>6, <1>7, <1>9, <1>10 DEF PageInv, ShownInv, CaptureInv, ButtonInv, Edited
<1> QED BY <1>11 DEF q, rest, list, check, outcome, PageInv, Pages

LEMMA CloseKept ==
  ASSUME NEW tab \in Pages, ShownInv(tab), CaptureInv(tab)
  PROVE  PageInv(StopCurrent(tab))
<1> DEFINE q == StopCurrent(tab)
<1>1. /\ q \in Pages /\ CaptureInv(q) /\ q.current = 0
      /\ q.hosts = tab.hosts /\ q.selected = tab.selected /\ q.request = tab.request
      /\ q.health = tab.health /\ q.checks = tab.checks
  BY StopIs
<1> HIDE DEF q
<1>2. ShownInv(q)
  BY <1>1 DEF ShownInv, Edited
<1>3. PageInv(q)
  BY <1>1, <1>2, NoneHeld DEF PageInv
<1> QED BY <1>3 DEF q

LEMMA CaptureKept ==
  ASSUME NEW tab, PageInv(tab)
  PROVE  LET bare == StopCurrent(tab)
             waiting == [at |-> "asked", live |-> FALSE, closed |-> FALSE, stray |-> FALSE]
         IN  PageInv([bare EXCEPT !.previews = Append(@, waiting), !.current = Len(bare.previews) + 1])
<1> DEFINE bare == StopCurrent(tab)
           waiting == [at |-> "asked", live |-> FALSE, closed |-> FALSE, stray |-> FALSE]
           list == Append(bare.previews, waiting)
           q == [bare EXCEPT !.previews = list, !.current = Len(bare.previews) + 1]
<1>1. bare \in Pages /\ ShownInv(bare) /\ CaptureInv(bare) /\ bare.current = 0
  BY CloseKept, StopIs DEF PageInv
<1> HIDE DEF bare
<1>2. waiting \in Previews /\ bare.previews \in Seq(Previews)
  BY <1>1 DEF Pages, Previews
<1>3. waiting.at = "asked" /\ ~waiting.live /\ ~waiting.closed
  OBVIOUS
<1> HIDE DEF waiting
<1>4. /\ list \in Seq(Previews) /\ Len(list) = Len(bare.previews) + 1
      /\ \A k \in DOMAIN bare.previews : list[k] = bare.previews[k]
      /\ list[Len(bare.previews) + 1] = waiting
      /\ DOMAIN list = 1..(Len(bare.previews) + 1) /\ DOMAIN bare.previews = 1..Len(bare.previews)
      /\ Len(bare.previews) \in Nat
  BY <1>2
<1> HIDE DEF list
<1>5. q \in Pages
  <2> DEFINE n == Len(bare.previews) + 1
  <2>1. n \in Nat
    BY <1>4
  <2> HIDE DEF n
  <2>2. [bare EXCEPT !.previews = list, !.current = n] \in Pages
    BY <1>1, <1>4, <2>1 DEF Pages
  <2> QED BY <2>2 DEF n
<1>6. /\ q.hosts = bare.hosts /\ q.selected = bare.selected /\ q.request = bare.request
      /\ q.health = bare.health /\ q.checks = bare.checks /\ q.previews = list
      /\ q.current = Len(bare.previews) + 1
  BY <1>1 DEF Pages
<1> HIDE DEF q
<1>7. ShownInv(q)
  BY <1>1, <1>6 DEF ShownInv, Edited
<1>8. CaptureInv(q)
  <2>1. ASSUME NEW k \in DOMAIN bare.previews
        PROVE  /\ list[k].closed
               /\ list[k].live => list[k].at # "asked"
               /\ list[k].stray \/ (list[k].at # "asked" /\ ~list[k].live)
    BY <1>1, <1>4 DEF CaptureInv
  <2> QED BY <1>3, <1>4, <1>6, <2>1 DEF CaptureInv
<1>9. ButtonInv(q)
  <2>1. \A k \in DOMAIN bare.previews : list[k].closed
    BY <1>1, <1>4 DEF CaptureInv
  <2> QED BY <1>3, <1>4, <1>6, <2>1 DEF ButtonInv
<1>10. PageInv(q)
  BY <1>5, <1>7, <1>8, <1>9 DEF PageInv
<1> QED BY <1>10 DEF q, list, waiting, bare

\* A capture goes on.
LEMMA PreviewIs ==
  ASSUME NEW tab \in Pages, ShownInv(tab), CaptureInv(tab), NEW k \in DOMAIN tab.previews, NEW preview \in Previews,
         preview.closed <=> tab.previews[k].closed, preview.live => preview.at # "asked",
         preview.closed => preview.stray \/ (preview.at # "asked" /\ ~preview.live)
  PROVE  LET q == [tab EXCEPT !.previews = [tab.previews EXCEPT ![k] = preview]]
         IN  /\ q \in Pages /\ ShownInv(q) /\ CaptureInv(q)
             /\ DOMAIN q.previews = DOMAIN tab.previews /\ q.previews[k] = preview
             /\ \A j \in DOMAIN tab.previews \ {k} : q.previews[j] = tab.previews[j]
             /\ Edited(q) = Edited(tab) /\ q.stoppable = tab.stoppable
<1> DEFINE list == [tab.previews EXCEPT ![k] = preview]
           q == [tab EXCEPT !.previews = list]
<1>1. tab.previews \in Seq(Previews)
  BY DEF Pages
<1>2. /\ list \in Seq(Previews) /\ Len(list) = Len(tab.previews) /\ DOMAIN list = DOMAIN tab.previews
      /\ list[k] = preview /\ \A j \in DOMAIN tab.previews \ {k} : list[j] = tab.previews[j]
  BY <1>1
<1> HIDE DEF list
<1>3. q \in Pages
  BY <1>2 DEF Pages
<1>4. /\ q.hosts = tab.hosts /\ q.selected = tab.selected /\ q.request = tab.request
      /\ q.health = tab.health /\ q.checks = tab.checks /\ q.previews = list
      /\ q.current = tab.current /\ q.stoppable = tab.stoppable
  BY DEF Pages
<1> HIDE DEF q
<1>5. Edited(q) = Edited(tab) /\ ShownInv(q)
  BY <1>4 DEF ShownInv, Edited
<1>6. CaptureInv(q)
  <2>1. \A j \in DOMAIN tab.previews :
          /\ list[j].closed <=> j # tab.current
          /\ list[j].live => list[j].at # "asked"
          /\ list[j].closed => list[j].stray \/ (list[j].at # "asked" /\ ~list[j].live)
    <3> TAKE j \in DOMAIN tab.previews
    <3>1. CASE j = k
      BY <1>2, <3>1 DEF CaptureInv
    <3>2. CASE j # k
      BY <1>2, <3>2 DEF CaptureInv
    <3> QED BY <3>1, <3>2
  <2> QED BY <1>2, <1>4, <2>1 DEF CaptureInv
<1> QED BY <1>2, <1>3, <1>4, <1>5, <1>6 DEF q, list

LEMMA GrantKept ==
  ASSUME NEW tab, PageInv(tab), NEW k \in DOMAIN tab.previews, tab.previews[k].at = "asked"
  PROVE  LET there == [tab EXCEPT !.previews[k].live = TRUE]
         IN  /\ tab.previews[k].closed \/ Edited(there) = Absent
                => PageInv(CaptureFails([there EXCEPT !.previews[k].at = "over"]))
             /\ ~tab.previews[k].closed => PageInv([there EXCEPT !.previews[k].at = "granted"])
<1> DEFINE old == tab.previews[k]
           there == [tab EXCEPT !.previews[k].live = TRUE]
           Now(at) == [old EXCEPT !.live = TRUE, !.at = at]
<1>1. tab \in Pages /\ tab.previews \in Seq(Previews) /\ old \in Previews /\ ShownInv(tab) /\ CaptureInv(tab)
      /\ ButtonInv(tab)
  BY DEF PageInv, Pages
<1>2. \A at \in {"over", "granted"} :
        /\ Now(at) \in Previews /\ Now(at).closed = old.closed /\ Now(at).live /\ Now(at).at = at
        /\ Now(at).stray = old.stray
        /\ [there EXCEPT !.previews[k].at = at] = [tab EXCEPT !.previews = [tab.previews EXCEPT ![k] = Now(at)]]
  <2> TAKE at \in {"over", "granted"}
  <2>1. /\ Now(at) \in Previews /\ Now(at).closed = old.closed /\ Now(at).live /\ Now(at).at = at
        /\ Now(at).stray = old.stray
    BY <1>1, ZenonT(60) DEF Previews
  <2>2. /\ there = [tab EXCEPT !.previews = [tab.previews EXCEPT ![k] = [old EXCEPT !.live = TRUE]]]
        /\ there.previews = [tab.previews EXCEPT ![k] = [old EXCEPT !.live = TRUE]]
    BY <1>1, SMTT(60) DEF Pages
  <2>3. [there EXCEPT !.previews[k].at = at] = [tab EXCEPT !.previews = [tab.previews EXCEPT ![k] = Now(at)]]
    BY <1>1, <2>2, ZenonT(60) DEF Pages, Previews
  <2> QED BY <2>1, <2>3
<1>3. old.closed => old.stray
  BY <1>1 DEF CaptureInv
<1>4. PageInv(CaptureFails([there EXCEPT !.previews[k].at = "over"]))
  <2> DEFINE q == [tab EXCEPT !.previews = [tab.previews EXCEPT ![k] = Now("over")]]
  <2> HIDE DEF Now, old
  <2>1. q \in Pages /\ ShownInv(q) /\ CaptureInv(q)
    BY <1>1, <1>2, <1>3, PreviewIs DEF old
  <2> HIDE DEF q
  <2>2. PageInv(StopCurrent(q))
    BY <2>1, CloseKept
  <2> QED BY <1>2, <2>2 DEF q, CaptureFails
<1>5. ASSUME ~old.closed PROVE PageInv([there EXCEPT !.previews[k].at = "granted"])
  <2> DEFINE granted == Now("granted")
             q == [tab EXCEPT !.previews = [tab.previews EXCEPT ![k] = granted]]
  <2>0. granted \in Previews /\ granted.closed = old.closed /\ granted.live /\ granted.at = "granted"
    BY <1>2
  <2>7. [there EXCEPT !.previews[k].at = "granted"] = q
    BY <1>2
  <2> HIDE DEF Now, old, granted, there
  <2>3. granted.closed <=> tab.previews[k].closed
    BY <2>0 DEF old
  <2>4. granted.live => granted.at # "asked"
    BY <2>0
  <2>5. ~granted.closed
    BY <1>5, <2>0
  <2>1. /\ q \in Pages /\ ShownInv(q) /\ CaptureInv(q)
        /\ DOMAIN q.previews = DOMAIN tab.previews /\ q.previews[k] = granted
        /\ \A j \in DOMAIN tab.previews \ {k} : q.previews[j] = tab.previews[j]
        /\ Edited(q) = Edited(tab) /\ q.stoppable = tab.stoppable
    BY <1>1, <2>0, <2>3, <2>4, <2>5, PreviewIs
  <2> HIDE DEF q
  <2>2. granted.at # "over"
    BY <2>0
  <2>6. ButtonInv(q)
    BY <1>1, <2>1, <2>2 DEF ButtonInv
  <2>8. PageInv(q)
    BY <2>1, <2>6 DEF PageInv
  <2> QED BY <2>7, <2>8 DEF q
<1> QED BY <1>4, <1>5

LEMMA RefuseKept ==
  ASSUME NEW tab, PageInv(tab), NEW k \in DOMAIN tab.previews, tab.previews[k].at = "asked"
  PROVE  PageInv(CaptureFails([tab EXCEPT !.previews[k].at = "over"]))
<1> DEFINE old == tab.previews[k]
           now == [old EXCEPT !.at = "over"]
           q == [tab EXCEPT !.previews = [tab.previews EXCEPT ![k] = now]]
<1>1. tab \in Pages /\ tab.previews \in Seq(Previews) /\ old \in Previews /\ ShownInv(tab) /\ CaptureInv(tab)
  BY DEF PageInv, Pages
<1>2. now \in Previews /\ now.closed = old.closed /\ now.live = old.live /\ now.stray = old.stray /\ now.at = "over"
  BY <1>1 DEF Previews
<1>3. [tab EXCEPT !.previews[k].at = "over"] = q
  BY <1>1 DEF Pages
<1> HIDE DEF now
<1>4. old.closed => old.stray
  BY <1>1 DEF CaptureInv
<1>5. q \in Pages /\ ShownInv(q) /\ CaptureInv(q)
  BY <1>1, <1>2, <1>4, PreviewIs
<1> HIDE DEF q
<1> QED BY <1>3, <1>5, CloseKept DEF CaptureFails

LEMMA PlayKept ==
  ASSUME NEW tab, PageInv(tab), NEW k \in DOMAIN tab.previews, tab.previews[k].at = "granted"
  PROVE  LET done == [tab EXCEPT !.previews[k].at = "over"]
         IN  PageInv(IF Edited(done) = Absent THEN CaptureFails(done) ELSE [done EXCEPT !.stoppable = TRUE])
<1> DEFINE old == tab.previews[k]
           now == [old EXCEPT !.at = "over"]
           q == [tab EXCEPT !.previews = [tab.previews EXCEPT ![k] = now]]
<1>1. tab \in Pages /\ tab.previews \in Seq(Previews) /\ old \in Previews /\ ShownInv(tab) /\ CaptureInv(tab)
  BY DEF PageInv, Pages
<1>2. now \in Previews /\ now.closed = old.closed /\ now.live = old.live /\ now.stray = old.stray /\ now.at = "over"
  BY <1>1 DEF Previews
<1>3. [tab EXCEPT !.previews[k].at = "over"] = q
  BY <1>1 DEF Pages
<1> HIDE DEF now
<1>4. old.closed => old.stray \/ ~old.live
  BY <1>1 DEF CaptureInv
<1>5. q \in Pages /\ ShownInv(q) /\ CaptureInv(q)
  BY <1>1, <1>2, <1>4, PreviewIs
<1> HIDE DEF q
<1>6. PageInv(CaptureFails(q))
  BY <1>5, CloseKept DEF CaptureFails
<1>7. PageInv([q EXCEPT !.stoppable = TRUE])
  <2> DEFINE r == [q EXCEPT !.stoppable = TRUE]
  <2>1. r \in Pages
    BY <1>5 DEF Pages
  <2>2. /\ r.hosts = q.hosts /\ r.selected = q.selected /\ r.request = q.request
        /\ r.health = q.health /\ r.checks = q.checks /\ r.previews = q.previews
        /\ r.current = q.current /\ r.stoppable
    BY <1>5 DEF Pages
  <2> HIDE DEF r
  <2>3. PageInv(r)
    BY <1>5, <2>1, <2>2 DEF PageInv, ShownInv, CaptureInv, ButtonInv, Edited
  <2> QED BY <2>3 DEF r
<1> QED BY <1>3, <1>6, <1>7

LEMMA StopKept ==
  ASSUME NEW tab, PageInv(tab) PROVE PageInv([StopCurrent(tab) EXCEPT !.stoppable = FALSE])
<1> DEFINE q == StopCurrent(tab)
           r == [q EXCEPT !.stoppable = FALSE]
<1>1. q \in Pages /\ ShownInv(q) /\ CaptureInv(q) /\ q.current = 0
  BY CloseKept, StopIs DEF PageInv
<1> HIDE DEF q
<1>2. r \in Pages
  BY <1>1 DEF Pages
<1>3. /\ r.hosts = q.hosts /\ r.selected = q.selected /\ r.request = q.request
      /\ r.health = q.health /\ r.checks = q.checks /\ r.previews = q.previews
      /\ r.current = q.current
  BY <1>1 DEF Pages
<1> HIDE DEF r
<1>4. ShownInv(r) /\ CaptureInv(r)
  BY <1>1, <1>3 DEF ShownInv, CaptureInv, Edited
<1>5. PageInv(r)
  BY <1>1, <1>2, <1>3, <1>4, NoneHeld DEF PageInv
<1> QED BY <1>5 DEF r, q

LEMMA PageKeeps ==
  ASSUME HostPagesInv, NEW t \in HostTab,
         \/ PickFile(t) \/ LoadHostPage(t) \/ RequestPairing(t) \/ ConnectInPlayer(t) \/ CheckHealth(t)
         \/ HostAnswers(t) \/ CaptureDisplay(t) \/ DisplayIsGranted(t) \/ DisplayIsRefused(t)
         \/ PreviewPlays(t) \/ StopPreview(t)
  PROVE  HostPagesInv'
<1> DEFINE tab == desk[t]
<1>1. PageInv(tab) /\ ListInv
  BY ZenonT(60) DEF HostPagesInv
<1>2. UNCHANGED <<saved, expected>>
  BY ZenonT(60) DEF PickFile, LoadHostPage, RequestPairing, ConnectInPlayer, CheckHealth, HostAnswers,
         CaptureDisplay, DisplayIsGranted, DisplayIsRefused, PreviewPlays, StopPreview, Step
<1>3. ListInv'
  BY <1>2, ListStays
<1>4. PageInv(NewPage)
  BY <1>1, NewPageIs
<1> HIDE DEF tab
<1>5. CASE PickFile(t)
  <2>1. PICK file \in Files : desk' = [desk EXCEPT ![t] = [tab EXCEPT !.files = @ \cup {file}]]
    BY <1>5 DEF PickFile, Files, HostPagesInv, tab
  <2> QED BY <1>1, <1>3, <1>5, <2>1, FileKept, PageChanges DEF PickFile
<1>6. CASE LoadHostPage(t)
  BY <1>3, <1>4, <1>6, PageChanges DEF LoadHostPage
<1>7. CASE RequestPairing(t)
  <2>1. desk' = [desk EXCEPT ![t] = [tab EXCEPT !.request = Edited(tab)]] /\ Edited(tab) # Absent
    BY <1>7 DEF RequestPairing, HostPagesInv, tab
  <2> QED BY <1>1, <1>3, <1>7, <2>1, RequestKept, PageChanges DEF RequestPairing
<1>8. CASE ConnectInPlayer(t)
  <2> DEFINE gone == [entered |-> tab.request, host |-> Edited(tab)]
  <2>1. gone.entered = gone.host
    BY <1>1, <1>8 DEF ConnectInPlayer, PageInv, ShownInv, tab
  <2>2. handed' = [handed EXCEPT ![t] = gone] /\ desk' = [desk EXCEPT ![t] = NewPage]
    BY <1>8 DEF ConnectInPlayer, tab
  <2> HIDE DEF gone
  <2> QED BY <1>3, <1>4, <2>1, <2>2, PageChanges
<1>9. CASE CheckHealth(t)
  <2> DEFINE q == [tab EXCEPT !.health = Absent,
                               !.checks = Append(@, [host |-> Edited(tab), seen |-> TRUE])]
  <2>1. desk' = [desk EXCEPT ![t] = q] /\ Edited(tab) # Absent
    BY <1>9 DEF CheckHealth, HostPagesInv, tab
  <2>2. PageInv(q)
    BY <1>1, <2>1, CheckKept
  <2> HIDE DEF q
  <2> QED BY <1>3, <1>9, <2>1, <2>2, PageChanges DEF CheckHealth
<1>10. CASE HostAnswers(t)
  <2>1. PICK i \in DOMAIN tab.checks, lacking \in Lacks \cup {Absent} :
          LET check == tab.checks[i]
              outcome == [of |-> check.host,
                          blocking |-> IF lacking = Absent THEN Absent ELSE Blocking(lacking)]
              rest == [tab EXCEPT !.checks = RemoveAt(tab.checks, i)]
          IN  desk' = [desk EXCEPT ![t] = HealthShown(rest, check, outcome)]
    BY <1>10 DEF HostAnswers, tab
  <2>2. \E q : PageInv(q) /\ desk' = [desk EXCEPT ![t] = q]
    BY <1>1, <2>1, HealthKept
  <2> QED BY <1>3, <1>10, <2>2, PageChanges DEF HostAnswers
<1>11. CASE CaptureDisplay(t)
  <2>1. \E q : PageInv(q) /\ desk' = [desk EXCEPT ![t] = q]
    BY <1>1, <1>11, CaptureKept DEF CaptureDisplay, tab
  <2> QED BY <1>3, <1>11, <2>1, PageChanges DEF CaptureDisplay
<1>12. CASE DisplayIsGranted(t)
  <2>1. PICK k \in DOMAIN tab.previews :
          LET there == [tab EXCEPT !.previews[k].live = TRUE]
          IN  /\ tab.previews[k].at = "asked"
              /\ IF tab.previews[k].closed \/ Edited(there) = Absent
                 THEN Step(t, CaptureFails([there EXCEPT !.previews[k].at = "over"]))
                 ELSE Step(t, [there EXCEPT !.previews[k].at = "granted"])
    BY <1>12, ZenonT(60) DEF DisplayIsGranted, tab
  <2>2. \E q : PageInv(q) /\ Step(t, q)
    BY <1>1, <2>1, GrantKept
  <2>3. PICK q : PageInv(q) /\ Step(t, q)
    BY <2>2
  <2>4. desk' = [desk EXCEPT ![t] = q] /\ handed' = handed
    BY <2>3 DEF Step
  <2> QED BY <1>3, <2>3, <2>4, PageChanges, ZenonT(60)
<1>13. CASE DisplayIsRefused(t)
  <2>1. PICK k \in DOMAIN tab.previews :
          tab.previews[k].at = "asked" /\ Step(t, CaptureFails([tab EXCEPT !.previews[k].at = "over"]))
    BY <1>13 DEF DisplayIsRefused, tab
  <2>2. \E q : PageInv(q) /\ Step(t, q)
    BY <1>1, <2>1, RefuseKept
  <2> QED BY <1>3, <2>2, PageChanges DEF Step
<1>14. CASE PreviewPlays(t)
  <2>1. PICK k \in DOMAIN tab.previews :
          LET done == [tab EXCEPT !.previews[k].at = "over"]
          IN  /\ tab.previews[k].at = "granted"
              /\ Step(t, IF Edited(done) = Absent THEN CaptureFails(done) ELSE [done EXCEPT !.stoppable = TRUE])
    BY <1>14, ZenonT(60) DEF PreviewPlays, tab
  <2>2. \E q : PageInv(q) /\ Step(t, q)
    BY <1>1, <2>1, PlayKept
  <2> QED BY <1>3, <2>2, PageChanges DEF Step
<1>15. CASE StopPreview(t)
  <2>1. desk' = [desk EXCEPT ![t] = [StopCurrent(tab) EXCEPT !.stoppable = FALSE]]
    BY <1>15 DEF StopPreview, HostPagesInv, tab
  <2>2. \E q : PageInv(q) /\ desk' = [desk EXCEPT ![t] = q]
    BY <1>1, <2>1, StopKept
  <2> QED BY <1>3, <1>15, <2>2, PageChanges DEF StopPreview
<1> QED BY <1>5, <1>6, <1>7, <1>8, <1>9, <1>10, <1>11, <1>12, <1>13, <1>14, <1>15

LEMMA HostPagesGoOn == HostPagesInv /\ [HostPagesNext]_hostPageVars => HostPagesInv'
<1>1. HostPagesInv /\ UNCHANGED hostPageVars => HostPagesInv'
  BY DEF hostPageVars, HostPagesInv, ListInv
<1> QED BY <1>1, ListKeeps, PageKeeps DEF HostPagesNext

LEMMA HostPagesAreTrue == HostPagesInv => HostPageIsTrue
<1> SUFFICES ASSUME HostPagesInv PROVE HostPageIsTrue
  OBVIOUS
<1>1. CodesGoToTheirHost
  BY DEF HostPagesInv, PageInv, ShownInv, CodesGoToTheirHost
<1>2. ProfilesAreKept
  <2>1. \A t \in HostTab : desk[t].hosts # <<>> => Edited(desk[t]) # Absent
    BY EditedIs DEF HostPagesInv, PageInv
  <2> QED BY <2>1, ListCounts DEF HostPagesInv, ListInv, ProfilesAreKept
<1>3. PreviewIsHeld
  BY DEF HostPagesInv, PageInv, CaptureInv, ButtonInv, PreviewIsHeld
<1> QED BY <1>1, <1>2, <1>3 DEF HostPageIsTrue

\* However the tabs overlap and whatever comes late: a code goes to the host it was entered for,
\* the storage has each profile as it was last saved, and a display that is captured can be
\* stopped (renderEditor, createHostProfileStore, the publisher of the preview).
THEOREM HostPagesStayTrue == HostPagesSpec => []HostPageIsTrue
<1> QED BY HostPagesBegin, HostPagesGoOn, HostPagesAreTrue, PTL DEF HostPagesSpec

HIDE HostPagesAssumption
-----------------------------------------------------------------------------
(***************************************************************************)
(* The records of the library.  Without a lapse at most one write is       *)
(* queued: it is of the only page that is not behind, whose Map was the    *)
(* record, so that it changes what it was meant to.                        *)
(***************************************************************************)
Records == [favorite : BOOLEAN, metadata : Int]
DbWrites == [page : Page, value : Records, intent : Intent]

\* The write does to the record what it was meant to.
Meant(op) ==
  /\ op.intent # "remove" => db # Gone
  /\ op.value = Changed(db, op.intent, op.value)

WritesInv ==
  /\ queue # <<>> =>
       /\ Len(queue) = 1 /\ Meant(Head(queue))
       /\ open \ behind \subseteq {Head(queue).page} /\ answers[Head(queue).page] = <<>>
  /\ db = ideal
  /\ \A p \in open \ behind :
       \/ answers[p] = <<>> /\ map[p] = db
       \/ Len(answers[p]) = 1 /\ Head(answers[p]).value = db

LibraryInv ==
  /\ db \in Records /\ open \subseteq Page /\ map \in [Page -> Records]
  /\ queue \in Seq(DbWrites) /\ answers \in [Page -> Seq(DbWrites)]
  /\ \A p \in Page \ open : answers[p] = <<>>
  /\ lapses = {} => WritesInv

LEMMA LibraryBegins == LibraryInit => LibraryInv
  BY DEF LibraryInit, LibraryInv, WritesInv, Records, Gone

LEMMA GoneIs == Gone \in Records
  BY DEF Gone, Records

LEMMA OpenLibraryKeeps == ASSUME LibraryInv, NEW p \in Page, OpenLibrary(p) PROVE LibraryInv'
<1>1. /\ db' = db /\ open' = open \cup {p} /\ map' = [map EXCEPT ![p] = db]
      /\ queue' = queue /\ answers' = answers /\ ideal' = ideal /\ lapses' = lapses
      /\ behind' = behind \ {p} /\ queue = <<>> /\ p \notin open
  BY DEF OpenLibrary
<1>2. /\ db' \in Records /\ open' \subseteq Page /\ map' \in [Page -> Records]
      /\ queue' \in Seq(DbWrites) /\ answers' \in [Page -> Seq(DbWrites)]
      /\ \A q \in Page \ open' : answers'[q] = <<>>
  BY <1>1 DEF LibraryInv
<1>3. ASSUME lapses' = {} PROVE WritesInv'
  BY <1>1, <1>3 DEF LibraryInv, WritesInv
<1> QED BY <1>2, <1>3 DEF LibraryInv

LEMMA CloseLibraryKeeps == ASSUME LibraryInv, NEW p \in Page, CloseLibrary(p) PROVE LibraryInv'
<1>1. /\ db' = db /\ open' = open \ {p} /\ map' = [map EXCEPT ![p] = Gone]
      /\ queue' = queue /\ answers' = [answers EXCEPT ![p] = <<>>] /\ ideal' = ideal
      /\ lapses' = lapses /\ behind' = behind \ {p}
  BY DEF CloseLibrary
<1>2. /\ db' \in Records /\ open' \subseteq Page /\ map' \in [Page -> Records]
      /\ queue' \in Seq(DbWrites) /\ answers' \in [Page -> Seq(DbWrites)]
      /\ \A q \in Page \ open' : answers'[q] = <<>>
  BY <1>1, GoneIs DEF LibraryInv
<1>3. ASSUME lapses' = {} PROVE WritesInv'
  <2>1. WritesInv
    BY <1>1, <1>3 DEF LibraryInv
  <2>2. open' \ behind' \subseteq (open \ behind) \ {p}
    BY <1>1
  <2>3. \A q \in open' \ behind' :
           \/ answers'[q] = <<>> /\ map'[q] = db'
           \/ Len(answers'[q]) = 1 /\ Head(answers'[q]).value = db'
    BY <1>1, <2>1, <2>2 DEF WritesInv, LibraryInv
  <2>4. queue' # <<>> =>
          /\ Len(queue') = 1 /\ Meant(Head(queue))'
          /\ open' \ behind' \subseteq {Head(queue').page} /\ answers'[Head(queue').page] = <<>>
    <3> SUFFICES ASSUME queue # <<>>
                 PROVE  /\ Len(queue') = 1 /\ Meant(Head(queue))'
                        /\ open' \ behind' \subseteq {Head(queue').page}
                        /\ answers'[Head(queue').page] = <<>>
      BY <1>1
    <3>1. Head(queue) \in DbWrites
      BY DEF LibraryInv
    <3>2. Head(queue).page \in Page
      BY <3>1 DEF DbWrites
    <3> QED BY <1>1, <2>1, <2>2, <3>2 DEF WritesInv, LibraryInv, Meant
  <2> QED BY <1>1, <2>1, <2>3, <2>4 DEF WritesInv
<1> QED BY <1>2, <1>3 DEF LibraryInv

\* put() or delete(), by a page whose Map is the record if nothing is amiss
LEMMA WriteKeeps ==
  ASSUME LibraryInv, NEW p \in open, NEW intent \in Intent, NEW value \in Records,
         intent # "remove" => map[p] # Gone, value = Changed(map[p], intent, value),
         Write(p, intent, value)
  PROVE  LibraryInv'
<1> DEFINE op == [page |-> p, value |-> value, intent |-> intent]
<1>1. /\ db' = db /\ open' = open /\ map' = map /\ queue' = Append(queue, op)
      /\ answers' = answers /\ ideal' = ideal /\ behind' = behind \cup (open \ {p})
      /\ lapses' = {} => lapses = {} /\ ~Busy(p) /\ p \notin behind
  BY DEF Write
<1>2. op \in DbWrites /\ op.page = p /\ op.value = value /\ op.intent = intent
  BY DEF DbWrites, LibraryInv
<1> HIDE DEF op
<1>3. /\ db' \in Records /\ open' \subseteq Page /\ map' \in [Page -> Records]
      /\ queue' \in Seq(DbWrites) /\ answers' \in [Page -> Seq(DbWrites)]
      /\ \A q \in Page \ open' : answers'[q] = <<>>
  BY <1>1, <1>2 DEF LibraryInv
<1>4. ASSUME lapses' = {} PROVE WritesInv'
  <2>1. WritesInv /\ ~Busy(p) /\ p \notin behind
    BY <1>1, <1>4 DEF LibraryInv
  <2>2. answers[p] = <<>> /\ map[p] = db
    BY <2>1 DEF Busy, WritesInv
  <2>3. queue = <<>>
    <3> SUFFICES ASSUME queue # <<>> PROVE FALSE
      OBVIOUS
    <3>1. p = Head(queue).page /\ Head(queue) = queue[1] /\ 1 \in DOMAIN queue
      BY <2>1 DEF WritesInv, LibraryInv
    <3> QED BY <2>1, <3>1 DEF Busy
  <2>4. Len(queue') = 1 /\ Head(queue') = op
    BY <1>1, <1>2, <2>3
  <2>5. Meant(op)'
    BY <1>1, <1>2, <2>2 DEF Meant
  <2>6. open' \ behind' \subseteq {p}
    BY <1>1
  <2> QED BY <1>1, <1>2, <2>1, <2>2, <2>4, <2>5, <2>6 DEF WritesInv
<1> QED BY <1>3, <1>4 DEF LibraryInv

LEMMA WritesKeep ==
  ASSUME LibraryInv, NEW p \in Page, ToggleFavorite(p) \/ ApplyMetadata(p) \/ RemoveGame(p)
  PROVE  LibraryInv'
<1>1. map[p] \in Records
  BY DEF LibraryInv
<1>2. CASE ToggleFavorite(p)
  <2> DEFINE value == [map[p] EXCEPT !.favorite = ~@]
  <2>1. value \in Records /\ value = Changed(map[p], "favorite", value)
    BY <1>1 DEF Records, Changed
  <2>2. p \in open /\ map[p] # Gone /\ Write(p, "favorite", value)
    BY <1>2 DEF ToggleFavorite
  <2> HIDE DEF value
  <2> QED BY <2>1, <2>2, WriteKeeps DEF Intent
<1>3. CASE ApplyMetadata(p)
  <2> DEFINE value == [map[p] EXCEPT !.metadata = 1]
  <2>1. value \in Records /\ value = Changed(map[p], "metadata", value)
    BY <1>1 DEF Records, Changed
  <2>2. p \in open /\ map[p] # Gone /\ Write(p, "metadata", value)
    BY <1>3 DEF ApplyMetadata
  <2> HIDE DEF value
  <2> QED BY <2>1, <2>2, WriteKeeps DEF Intent
<1>4. CASE RemoveGame(p)
  BY <1>4, GoneIs, WriteKeeps DEF RemoveGame, Intent, Changed
<1> QED BY <1>2, <1>3, <1>4

LEMMA AcknowledgeKeeps == ASSUME LibraryInv, Acknowledge PROVE LibraryInv'
<1> DEFINE op == Head(queue)
<1>1. queue # <<>> /\ queue' = Tail(queue)
  BY DEF Acknowledge
<1>2. op \in DbWrites /\ queue' \in Seq(DbWrites) /\ Len(queue') = Len(queue) - 1
  BY <1>1 DEF LibraryInv
<1>3. op.page \in Page /\ op.value \in Records /\ op.intent \in Intent
  BY <1>2 DEF DbWrites
<1>4. /\ db' = op.value
      /\ ideal' = IF ideal = Gone /\ op.intent # "remove" THEN Gone
                  ELSE Changed(ideal, op.intent, op.value)
      /\ answers' = IF op.page \in open THEN [answers EXCEPT ![op.page] = Append(@, op)]
                    ELSE answers
      /\ UNCHANGED <<open, map, behind, lapses>>
  BY DEF Acknowledge
<1> HIDE DEF op
<1>5. /\ db' \in Records /\ open' \subseteq Page /\ map' \in [Page -> Records]
      /\ answers' \in [Page -> Seq(DbWrites)] /\ \A q \in Page \ open' : answers'[q] = <<>>
  BY <1>2, <1>3, <1>4 DEF LibraryInv
<1>6. ASSUME lapses' = {} PROVE WritesInv'
  <2>1. WritesInv /\ Len(queue) = 1 /\ Meant(op) /\ db = ideal
        /\ open \ behind \subseteq {op.page} /\ answers[op.page] = <<>>
    BY <1>1, <1>4, <1>6 DEF LibraryInv, WritesInv, op
  <2>2. queue' = <<>>
    BY <1>2, <2>1
  <2>3. db' = ideal'
    BY <1>4, <2>1 DEF Meant
  <2>4. op.page \in open => answers'[op.page] = Append(<<>>, op)
    BY <1>3, <1>4, <2>1 DEF LibraryInv
  <2>5. Len(Append(<<>>, op)) = 1 /\ Head(Append(<<>>, op)) = op
    BY <1>2
  <2> QED BY <1>4, <2>1, <2>2, <2>3, <2>4, <2>5 DEF WritesInv
<1> QED BY <1>2, <1>5, <1>6 DEF LibraryInv

LEMMA FailureKeeps == ASSUME LibraryInv, NEW late \in BOOLEAN, WriteFails(late) PROVE LibraryInv'
<1> DEFINE op == Head(queue)
<1>1. queue # <<>> /\ queue' = Tail(queue) /\ UNCHANGED <<db, open, map, ideal, behind>>
  BY DEF WriteFails
<1>2. op \in DbWrites /\ queue' \in Seq(DbWrites) /\ Len(queue') = Len(queue) - 1
  BY <1>1 DEF LibraryInv
<1>3. op.page \in Page
  BY <1>2 DEF DbWrites
<1>4. CASE /\ op.page \in open /\ lapses' = lapses \cup {"aborted"}
           /\ answers' = [answers EXCEPT ![op.page] = Append(@, op)]
  <2> HIDE DEF op
  <2>1. answers' \in [Page -> Seq(DbWrites)] /\ \A q \in Page \ open' : answers'[q] = <<>>
    BY <1>1, <1>2, <1>3, <1>4 DEF LibraryInv
  <2> QED BY <1>1, <1>2, <1>4, <2>1 DEF LibraryInv
<1>5. CASE UNCHANGED <<lapses, answers>>
  <2>1. ASSUME lapses = {} PROVE WritesInv'
    <3>1. WritesInv /\ Len(queue) = 1
      BY <1>1, <2>1 DEF LibraryInv, WritesInv
    <3>2. queue' = <<>>
      BY <1>2, <3>1
    <3> QED BY <1>1, <1>5, <3>1, <3>2 DEF WritesInv
  <2> QED BY <1>1, <1>2, <1>5, <2>1 DEF LibraryInv
<1> QED BY <1>4, <1>5 DEF WriteFails

LEMMA SettleKeeps == ASSUME LibraryInv, NEW p \in Page, Settle(p) PROVE LibraryInv'
<1>1. /\ answers[p] # <<>> /\ answers' = [answers EXCEPT ![p] = Tail(@)]
      /\ map' = [map EXCEPT ![p] = Head(answers[p]).value]
      /\ UNCHANGED <<db, open, queue, ideal, behind, lapses>>
  BY DEF Settle
<1>2. answers[p] \in Seq(DbWrites)
  BY DEF LibraryInv
<1>3. Head(answers[p]) \in DbWrites /\ Tail(answers[p]) \in Seq(DbWrites)
      /\ Len(Tail(answers[p])) = Len(answers[p]) - 1
  BY <1>1, <1>2
<1>4. Head(answers[p]).value \in Records
  BY <1>3 DEF DbWrites
<1>5. /\ map' \in [Page -> Records] /\ answers' \in [Page -> Seq(DbWrites)]
      /\ \A q \in Page \ open' : answers'[q] = <<>>
  BY <1>1, <1>3, <1>4 DEF LibraryInv
<1>6. ASSUME lapses' = {} PROVE WritesInv'
  <2>1. WritesInv
    BY <1>1, <1>6 DEF LibraryInv
  <2>2. p \in open \ behind =>
          answers'[p] = <<>> /\ map'[p] = db'
    <3> SUFFICES ASSUME p \in open \ behind PROVE answers'[p] = <<>> /\ map'[p] = db'
      OBVIOUS
    <3>1. Len(answers[p]) = 1 /\ Head(answers[p]).value = db
      BY <1>1, <2>1 DEF WritesInv
    <3> DEFINE rest == Tail(answers[p])
    <3>2. rest = <<>>
      <4>1. rest \in Seq(DbWrites) /\ Len(rest) = 0
        BY <1>3, <3>1
      <4> HIDE DEF rest
      <4> QED BY <4>1
    <3> QED BY <1>1, <3>1, <3>2 DEF LibraryInv
  <2>3. \A q \in open \ behind : q # p => answers'[q] = answers[q] /\ map'[q] = map[q]
    BY <1>1 DEF LibraryInv
  <2>4. queue # <<>> => answers'[Head(queue).page] = <<>>
    <3> SUFFICES ASSUME queue # <<>> PROVE answers'[Head(queue).page] = <<>>
      OBVIOUS
    <3>1. Head(queue) \in DbWrites
      BY DEF LibraryInv
    <3>2. Head(queue).page \in Page /\ answers[Head(queue).page] = <<>>
      BY <2>1, <3>1 DEF WritesInv, DbWrites
    <3> QED BY <1>1, <3>2 DEF LibraryInv
  <2> QED BY <1>1, <2>1, <2>2, <2>3, <2>4 DEF WritesInv, Meant
<1> QED BY <1>1, <1>5, <1>6 DEF LibraryInv

LEMMA LibraryGoesOn == LibraryInv /\ [LibraryNext]_libraryVars => LibraryInv'
<1>1. LibraryInv /\ UNCHANGED libraryVars => LibraryInv'
  BY DEF libraryVars, LibraryInv, WritesInv, Meant
<1> QED BY <1>1, OpenLibraryKeeps, CloseLibraryKeeps, WritesKeep, AcknowledgeKeeps, FailureKeeps,
           SettleKeeps DEF LibraryNext

LEMMA NoneIsLost == LibraryInv => NoUpdateLost
  BY DEF LibraryInv, WritesInv, NoUpdateLost

\* A write of the library changes what it was meant to and nothing else, for any number of pages
\* and writes (library/store.mjs, library/db/index.mjs), but for the named lapses.
THEOREM UpdatesAreKept == LibrarySpec => []NoUpdateLost
<1> QED BY LibraryBegins, LibraryGoesOn, NoneIsLost, PTL DEF LibrarySpec
-----------------------------------------------------------------------------
(***************************************************************************)
(* The diagnostics file.  The operation that is under way has drafted what *)
(* the file is going to be, and all before it have settled.  An entry that *)
(* had to make room has only younger ones after it, so that when those are *)
(* fewer it is too old itself.                                             *)
(***************************************************************************)
Ascending(list) == \A a, b \in DOMAIN list : a < b => list[a] < list[b]

LEMMA YoungIs ==
  ASSUME NEW entries \in Seq(Nat), Ascending(entries), horizon \in Nat
  PROVE  /\ Young(entries) \in Seq(Nat) /\ Ascending(Young(entries))
         /\ \A k \in DOMAIN Young(entries) :
              Young(entries)[k] > horizon /\ Young(entries)[k] \in Range(entries)
         /\ \A e \in Range(entries) : e > horizon => e \in Range(Young(entries))
         /\ (\A k \in DOMAIN entries : entries[k] > horizon) => Len(Young(entries)) = Len(entries)
<1> DEFINE n == Len(entries)
           kept == {k \in DOMAIN entries : entries[k] > horizon}
           Enumerates(place) == /\ Range(place) = kept
                          /\ \A i, j \in DOMAIN place : i < j => place[i] < place[j]
<1>1. n \in Nat /\ DOMAIN entries = 1..n /\ \A k \in 1..n : entries[k] \in Nat
  OBVIOUS
<1>2. \E m \in 1..(n + 1) : kept = m..n
  <2>1. CASE kept = {}
    <3>1. kept = (n + 1)..n
      BY <1>1, <2>1
    <3> QED BY <1>1, <3>1
  <2>2. CASE kept # {}
    <3>1. kept \in SUBSET Nat
      BY <1>1
    <3>2. PICK m \in kept : \A k \in kept : m <= k
      <4> HIDE DEF kept
      <4> QED BY <2>2, <3>1, LeastNumber
    <3>3. \A k \in m..n : k \in kept
      BY <1>1, <3>2, SMTT(60) DEF Ascending
    <3>4. kept = m..n
      BY <1>1, <3>2, <3>3
    <3> QED BY <1>1, <3>2, <3>4
  <2> QED BY <2>1, <2>2
<1> DEFINE c == Cardinality(kept)
<1>3. c \in Nat /\ \E place \in [1..c -> kept] : Enumerates(place)
  <2>1. PICK m \in 1..(n + 1) : kept = m..n
    BY <1>2
  <2>2. c = n - m + 1 /\ c \in Nat
    <3>0. m \in Int /\ n \in Int
      BY <1>1
    <3>1. Cardinality(m..n) = IF m > n THEN 0 ELSE n - m + 1
      <4> HIDE DEF n
      <4> QED BY <3>0, FS_Interval
    <3>2. m \in 1..(n + 1)
      OBVIOUS
    <3> HIDE DEF kept, n
    <3> QED BY <1>1, <2>1, <3>1, <3>2
  <2> HIDE DEF kept, c
  <2> DEFINE place == [i \in 1..c |-> m - 1 + i]
  <2>3. place \in [1..c -> kept] /\ DOMAIN place = 1..c
    BY <1>1, <2>1, <2>2, SMTT(60)
  <2>4. \A i, j \in DOMAIN place : i < j => place[i] < place[j]
    BY <1>1, <2>1, <2>2
  <2>5. Range(place) = kept
    <3>1. \A k \in kept : k - m + 1 \in 1..c /\ place[k - m + 1] = k
      BY <1>1, <2>1, <2>2
    <3>2. \A k \in kept : k \in Range(place)
      BY <2>3, <3>1, Zenon DEF Range
    <3>3. Range(place) \subseteq kept
      BY <2>3 DEF Range
    <3> QED BY <3>2, <3>3
  <2> QED BY <2>2, <2>3, <2>4, <2>5
<1>0. (\A k \in DOMAIN entries : entries[k] > horizon) => c = n
  <2> SUFFICES ASSUME \A k \in DOMAIN entries : entries[k] > horizon PROVE c = n
    OBVIOUS
  <2>1. kept = 1..n
    BY <1>1
  <2>2. Cardinality(1..n) = n
    <3> HIDE DEF n
    <3> QED BY <1>1, FS_Interval
  <2> QED BY <2>1, <2>2, Zenon
<1> DEFINE place == CHOOSE place \in [1..c -> kept] : Enumerates(place)
           young == [i \in 1..c |-> entries[place[i]]]
<1>4. place \in [1..c -> kept] /\ Enumerates(place)
  <2> HIDE DEF c, kept, Enumerates
  <2> QED BY <1>3, Zenon
<1>5. Young(entries) = young
  BY Zenon DEF Young
<1>6. \A k \in kept : k \in 1..n /\ entries[k] > horizon /\ entries[k] \in Nat
  BY <1>1
<1>7. \A k \in 1..n : entries[k] > horizon => k \in kept
  BY <1>1
<1> HIDE DEF c, kept, place
<1>8. \A i \in 1..c : place[i] \in kept /\ young[i] = entries[place[i]]
  BY <1>4
<1>9. DOMAIN young = 1..c /\ young \in Seq(Nat)
  BY <1>3, <1>6, <1>8
<1> HIDE DEF young
<1>10. Ascending(young)
  <2> SUFFICES ASSUME NEW a \in 1..c, NEW b \in 1..c, a < b PROVE young[a] < young[b]
    BY <1>9 DEF Ascending
  <2>1. place[a] < place[b]
    BY <1>4
  <2> QED BY <1>1, <1>6, <1>8, <2>1 DEF Ascending
<1>11. \A i \in 1..c : young[i] > horizon /\ young[i] \in Range(entries)
  BY <1>1, <1>6, <1>8, Zenon DEF Range
<1>12. ASSUME NEW e \in Range(entries), e > horizon PROVE e \in Range(young)
  <2>1. PICK k \in 1..n : e = entries[k]
    BY <1>1, Zenon DEF Range
  <2>2. k \in kept
    BY <1>7, <1>12, <2>1
  <2>3. PICK i \in 1..c : place[i] = k
    BY <1>4, <2>2 DEF Range
  <2> QED BY <1>8, <1>9, <2>1, <2>3, Zenon DEF Range
<1>13. Len(young) = c
  BY <1>3, <1>9
<1> QED BY <1>0, <1>5, <1>9, <1>10, <1>11, <1>12, <1>13

LEMMA RetainedIs ==
  ASSUME NEW entries \in Seq(Nat), Ascending(entries), horizon \in Nat,
         NEW limit \in Nat \ {0}, NEW list, list = Retained(entries, limit)
  PROVE  /\ list \in Seq(Nat) /\ Ascending(list) /\ Len(list) <= limit
         /\ \A k \in DOMAIN list : list[k] \in Range(entries) /\ list[k] > horizon
         /\ \A e \in Range(entries) :
              e \in Range(list) \/ e <= horizon
                \/ (Len(list) = limit /\ \A k \in DOMAIN list : list[k] > e)
         /\ (\A k \in DOMAIN entries : entries[k] > horizon) =>
              Len(list) = limit \/ Len(list) = Len(entries)
<1> DEFINE young == Young(entries)
           n == Len(young)
           first == IF n - limit + 1 > 1 THEN n - limit + 1 ELSE 1
<1>1. /\ young \in Seq(Nat) /\ Ascending(young)
      /\ \A k \in DOMAIN young : young[k] > horizon /\ young[k] \in Range(entries)
      /\ \A e \in Range(entries) : e > horizon => e \in Range(young)
      /\ (\A k \in DOMAIN entries : entries[k] > horizon) => Len(young) = Len(entries)
  BY YoungIs
<1> HIDE DEF young
<1>2. n \in Nat /\ DOMAIN young = 1..n /\ \A k \in 1..n : young[k] \in Nat
  BY <1>1, SMTT(60)
<1>3. Max({1, n - limit + 1}) = first
  BY <1>2 DEF Max
<1>4. Retained(entries, limit) = SubSeq(young, first, n)
  BY <1>3, Zenon DEF Retained, young
<1> DEFINE kept == SubSeq(young, first, n)
           size == n - first + 1
<1>5. size \in 0..limit /\ first \in 1..(n + 1) /\ (first > 1 => size = limit)
  BY <1>2
<1>6. /\ kept \in Seq(Nat) /\ Len(kept) = size /\ DOMAIN kept = 1..size
      /\ \A k \in 1..size : kept[k] = young[first - 1 + k]
  <2> HIDE DEF first
  <2>1. \A k \in first..n : young[k] \in Nat
    BY <1>2, <1>5
  <2>2. /\ kept \in Seq(Nat) /\ Len(kept) = IF first <= n THEN n - first + 1 ELSE 0
        /\ \A k \in 1..(n - first + 1) : kept[k] = young[first + k - 1]
    BY <1>2, <1>5, <2>1, SubSeqProperties, SMTT(60)
  <2> HIDE DEF kept
  <2>3. Len(kept) = size
    BY <1>2, <1>5, <2>2
  <2> QED BY <1>2, <1>5, <2>2, <2>3
<1> HIDE DEF kept, first
<1>7. Ascending(kept)
  <2> SUFFICES ASSUME NEW a \in 1..size, NEW b \in 1..size, a < b PROVE kept[a] < kept[b]
    BY <1>6 DEF Ascending
  <2>1. first - 1 + a \in 1..n /\ first - 1 + b \in 1..n
    BY <1>2, <1>5
  <2>2. first - 1 + a < first - 1 + b
    BY <1>5
  <2>3. young[first - 1 + a] < young[first - 1 + b]
    BY <1>1, <1>2, <2>1, <2>2, Zenon DEF Ascending
  <2> QED BY <1>6, <2>3
<1>8. \A k \in 1..size : first - 1 + k \in 1..n
  BY <1>2, <1>5
<1>9. \A k \in 1..size : kept[k] \in Range(entries) /\ kept[k] > horizon
  BY <1>1, <1>2, <1>6, <1>8
<1>10. ASSUME NEW e \in Range(entries)
       PROVE  e \in Range(kept) \/ e <= horizon
                \/ (Len(kept) = limit /\ \A k \in DOMAIN kept : kept[k] > e)
  <2>1. CASE e > horizon
    <3>1. PICK i \in 1..n : young[i] = e
      BY <1>1, <1>2, <2>1 DEF Range
    <3>2. CASE i >= first
      <4>1. i - first + 1 \in 1..size /\ kept[i - first + 1] = e
        <5>1. i - first + 1 \in 1..size /\ first - 1 + (i - first + 1) = i
          BY <1>2, <1>5, <3>2
        <5> QED BY <1>6, <3>1, <5>1
      <4> QED BY <1>6, <4>1, Zenon DEF Range
    <3>3. CASE i < first
      <4>1. Len(kept) = limit
        BY <1>2, <1>5, <1>6, <3>3
      <4>2. \A k \in 1..size : kept[k] > e
        <5> SUFFICES ASSUME NEW k \in 1..size PROVE kept[k] > e
          OBVIOUS
        <5>1. first - 1 + k \in 1..n /\ i < first - 1 + k
          BY <1>2, <1>5, <3>3
        <5>2. young[i] < young[first - 1 + k]
          BY <1>1, <1>2, <5>1 DEF Ascending
        <5> QED BY <1>2, <1>6, <3>1, <5>1, <5>2
      <4> QED BY <1>6, <4>1, <4>2
    <3> QED BY <1>2, <1>5, <3>2, <3>3
  <2>2. CASE e <= horizon
    BY <2>2
  <2>3. e \in Nat
    <3>1. PICK i \in DOMAIN entries : e = entries[i]
      BY Zenon DEF Range
    <3> QED BY <3>1
  <2> QED BY <2>1, <2>2, <2>3
<1>11. list = kept
  BY <1>4, Zenon DEF kept
<1>12. Len(list) <= limit
  BY <1>5, <1>6, <1>11
<1>13. \A k \in DOMAIN list : list[k] \in Range(entries) /\ list[k] > horizon
  BY <1>6, <1>9, <1>11
<1>14. n = Len(entries) => Len(list) = limit \/ Len(list) = Len(entries)
  BY <1>2, <1>5, <1>6, <1>11
<1> QED BY <1>1, <1>6, <1>7, <1>10, <1>11, <1>12, <1>13, <1>14, Zenon
-----------------------------------------------------------------------------
LogCall == [kind : LogKind, at : {"queued", "drafted"} \cup Settled, draft : Seq(Nat),
            blind : BOOLEAN]
\* Calls that have discarded all that was recorded before them.
Clears ==
  {j \in DOMAIN logCalls :
     (logCalls[j].kind = "clear" \/ logCalls[j].blind) /\ logCalls[j].at = "done"}

\* Entry e is in the list, or is one of those up to old, or one before a clear, or the list is
\* one of size younger ones.
Held(e, list, size, old, clears) ==
  \/ e \in Range(list) \/ e <= old \/ \E j \in clears : j > e
  \/ Len(list) = size /\ \A k \in DOMAIN list : list[k] > e

\* What a file holds that has to hold the entries among.
Keeps(list, among, old, clears) ==
  /\ list \in Seq(Nat) /\ Ascending(list) /\ Len(list) <= MaxEntries
  /\ \A k \in DOMAIN list : list[k] \in among /\ \A j \in clears : j <= list[k]
  /\ \A e \in among : Held(e, list, MaxEntries, old, clears)

\* What is recorded when operation i has done its part.
Coming(i) == Recorded \cup (IF logCalls[i].kind = "append" THEN {i} ELSE {})

\* What discards when operation i has done its part.
Ending(i) == Clears \cup (IF logCalls[i].blind THEN {i} ELSE {})

LogTypes == logCalls \in Seq(LogCall) /\ horizon \in Nat
InTurn ==
  \A i, j \in DOMAIN logCalls : j < i /\ logCalls[i].at # "queued" => logCalls[j].at \in Settled
DraftsInv ==
  \A i \in DOMAIN logCalls :
    logCalls[i].at = "drafted" =>
      logCalls[i].kind # "clear" /\ Keeps(logCalls[i].draft, Coming(i), horizon, Ending(i))
LogInv == LogTypes /\ InTurn /\ Keeps(log, Recorded, horizon, Clears) /\ DraftsInv

LEMMA LogBegins == LogInit => LogInv
<1> SUFFICES ASSUME LogInit PROVE LogInv
  OBVIOUS
<1>1. log = <<>> /\ logCalls = <<>> /\ horizon = 0
  BY DEF LogInit
<1>2. <<>> \in Seq(Nat) /\ DOMAIN <<>> = {} /\ Len(<<>>) = 0 /\ <<>> \in Seq(LogCall)
  OBVIOUS
<1>3. Recorded = {} /\ Clears = {}
  BY <1>1, <1>2 DEF Recorded, Clears
<1>4. LogTypes /\ InTurn /\ DraftsInv
  BY <1>1, <1>2 DEF LogTypes, InTurn, DraftsInv
<1>5. Keeps(<<>>, {}, 0, {})
  BY <1>2, LogAssumption DEF Keeps, Ascending
<1> QED BY <1>1, <1>3, <1>4, <1>5, Zenon DEF LogInv

LEMMA RecordedIs == LogTypes => Recorded \in SUBSET Nat /\ Clears \in SUBSET Nat
BY DEF Recorded, Clears, LogTypes

\* Entries become older, never younger.
LEMMA KeepsLater ==
  ASSUME NEW list, NEW among \in SUBSET Nat, NEW old \in Nat, NEW clears,
         Keeps(list, among, old, clears), NEW later \in Nat, old <= later
  PROVE  Keeps(list, among, later, clears)
<1>1. \A e \in among : e <= old => e <= later
  OBVIOUS
<1> QED BY <1>1, Zenon DEF Keeps, Held

\* What is retained of a file that holds what it has to.
LEMMA RetainedKeeps ==
  ASSUME NEW among \in SUBSET Nat, NEW clears \in SUBSET Nat, horizon \in Nat,
         NEW file, Keeps(file, among, horizon, clears),
         NEW limit \in 1..MaxEntries, NEW list, list = Retained(file, limit)
  PROVE  /\ list \in Seq(Nat) /\ Ascending(list) /\ Len(list) <= limit
         /\ \A k \in DOMAIN list : list[k] \in among /\ \A j \in clears : j <= list[k]
         /\ \A e \in among : Held(e, list, limit, horizon, clears)
<1>1. /\ file \in Seq(Nat) /\ Ascending(file) /\ Len(file) <= MaxEntries
      /\ \A k \in DOMAIN file : file[k] \in among /\ \A j \in clears : j <= file[k]
      /\ \A e \in among :
           \/ e \in Range(file) \/ e <= horizon \/ \E j \in clears : j > e
           \/ Len(file) = MaxEntries /\ \A k \in DOMAIN file : file[k] > e
  BY Zenon DEF Keeps, Held
<1>2. limit \in Nat \ {0} /\ limit <= MaxEntries /\ MaxEntries \in Nat
  BY LogAssumption
<1>3. /\ list \in Seq(Nat) /\ Ascending(list) /\ Len(list) <= limit
      /\ \A k \in DOMAIN list : list[k] \in Range(file) /\ list[k] > horizon
      /\ \A e \in Range(file) :
           e \in Range(list) \/ e <= horizon
             \/ (Len(list) = limit /\ \A k \in DOMAIN list : list[k] > e)
      /\ (\A k \in DOMAIN file : file[k] > horizon) => Len(list) = limit \/ Len(list) = Len(file)
  BY <1>1, <1>2, RetainedIs
<1>4. ASSUME NEW k \in DOMAIN list
      PROVE  \E m \in DOMAIN file : list[k] = file[m]
  BY <1>3, <1>4, Zenon DEF Range
<1>5. \A k \in DOMAIN list : list[k] \in among /\ \A j \in clears : j <= list[k]
  BY <1>1, <1>4, Zenon
<1>6. ASSUME NEW e \in among, Len(file) = MaxEntries, \A k \in DOMAIN file : file[k] > e
      PROVE  e <= horizon \/ (Len(list) = limit /\ \A k \in DOMAIN list : list[k] > e)
  <2>1. \A k \in DOMAIN list : list[k] > e
    BY <1>4, <1>6, Zenon
  <2>2. CASE \A k \in DOMAIN file : file[k] > horizon
    <3>1. Len(list) = limit \/ Len(list) = Len(file)
      BY <1>3, <2>2, Zenon
    <3>2. Len(list) \in Nat /\ Len(list) <= limit
      BY <1>3
    <3>3. Len(list) = limit
      BY <1>2, <1>6, <3>1, <3>2
    <3> QED BY <2>1, <3>3
  <2>3. CASE \E k \in DOMAIN file : ~(file[k] > horizon)
    <3>1. PICK k \in DOMAIN file : ~(file[k] > horizon)
      BY <2>3
    <3>2. file[k] \in Nat /\ file[k] > e
      BY <1>1, <1>6
    <3> QED BY <3>1, <3>2
  <2> QED BY <2>2, <2>3
<1>7. ASSUME NEW e \in among
      PROVE  \/ e \in Range(list) \/ e <= horizon \/ \E j \in clears : j > e
             \/ Len(list) = limit /\ \A k \in DOMAIN list : list[k] > e
  <2>1. CASE e \in Range(file)
    BY <1>3, <2>1, Zenon
  <2>2. CASE Len(file) = MaxEntries /\ \A k \in DOMAIN file : file[k] > e
    BY <1>6, <2>2, Zenon
  <2> QED BY <1>1, <1>7, <2>1, <2>2, Zenon
<1> QED BY <1>3, <1>5, <1>7, Zenon DEF Held

\* A call that is begun, or that fails, is the first that has not settled.
LEMMA TurnIs ==
  ASSUME LogTypes, InTurn, NEW i \in DOMAIN logCalls,
         \/ logCalls[i].at = "queued" /\ (i > 1 => logCalls[i - 1].at \in Settled)
         \/ logCalls[i].at = "drafted"
  PROVE  /\ \A j \in DOMAIN logCalls : j < i => logCalls[j].at \in Settled
         /\ \A j \in DOMAIN logCalls : j > i => logCalls[j].at = "queued"
<1>1. DOMAIN logCalls = 1..Len(logCalls) /\ Len(logCalls) \in Nat
  BY DEF LogTypes
<1>2. logCalls[i].at \notin Settled
  BY DEF Settled
<1>3. ASSUME NEW j \in DOMAIN logCalls, j > i PROVE logCalls[j].at = "queued"
  <2>1. i < j
    BY <1>1, <1>3
  <2> QED BY <1>2, <2>1 DEF InTurn
<1>4. ASSUME NEW j \in DOMAIN logCalls, j < i PROVE logCalls[j].at \in Settled
  <2>1. CASE logCalls[i].at = "drafted"
    BY <1>4, <2>1 DEF InTurn
  <2>2. CASE i > 1 => logCalls[i - 1].at \in Settled
    <3>1. i - 1 \in DOMAIN logCalls /\ i > 1 /\ (j = i - 1 \/ j < i - 1)
      BY <1>1, <1>4
    <3>2. logCalls[i - 1].at # "queued"
      BY <2>2, <3>1 DEF Settled
    <3>3. CASE j = i - 1
      BY <2>2, <3>1, <3>3
    <3>4. CASE j < i - 1
      BY <3>1, <3>2, <3>4 DEF InTurn
    <3> QED BY <3>1, <3>3, <3>4
  <2> QED BY <2>1, <2>2
<1> QED BY <1>3, <1>4

LEMMA AdvanceIs ==
  ASSUME LogTypes, NEW i \in DOMAIN logCalls, NEW where \in {"queued", "drafted"} \cup Settled,
         NEW what \in Seq(Nat), NEW blind \in BOOLEAN, Advance(i, where, what, blind)
  PROVE  /\ logCalls' \in Seq(LogCall) /\ DOMAIN logCalls' = DOMAIN logCalls
         /\ logCalls'[i].kind = logCalls[i].kind /\ (logCalls'[i].blind <=> blind)
         /\ logCalls'[i].at = where /\ logCalls'[i].draft = what
         /\ \A j \in DOMAIN logCalls : j # i => logCalls'[j] = logCalls[j]
<1>1. logCalls[i] \in LogCall
  BY DEF LogTypes
<1> DEFINE c == [logCalls[i] EXCEPT !.at = where, !.draft = what, !.blind = blind]
<1>2. logCalls' = [logCalls EXCEPT ![i] = c]
  BY DEF Advance, LogTypes
<1>3. /\ c \in LogCall /\ c.kind = logCalls[i].kind /\ c.at = where /\ c.draft = what
      /\ c.blind = blind
  BY <1>1 DEF LogCall
<1> HIDE DEF c
<1>4. logCalls' \in Seq(LogCall) /\ DOMAIN logCalls' = DOMAIN logCalls
  BY <1>2, <1>3 DEF LogTypes
<1>5. logCalls'[i] = c /\ \A j \in DOMAIN logCalls : j # i => logCalls'[j] = logCalls[j]
  BY <1>2 DEF LogTypes
<1> QED BY <1>3, <1>4, <1>5

LEMMA CallKeeps == ASSUME LogInv, NEW task \in LogKind, Call(task) PROVE LogInv'
<1> DEFINE n == Len(logCalls)
           c == [kind |-> task, at |-> "queued", draft |-> <<>>, blind |-> FALSE]
<1>1. /\ logCalls' = Append(logCalls, c) /\ log' = log /\ horizon' = horizon
      /\ logCalls \in Seq(LogCall) /\ horizon \in Nat
  BY DEF Call, LogInv, LogTypes
<1>2. c \in LogCall /\ c.kind = task /\ c.at = "queued"
  BY DEF LogCall
<1> HIDE DEF c
<1>3. /\ logCalls' \in Seq(LogCall) /\ n \in Nat /\ DOMAIN logCalls = 1..n
      /\ DOMAIN logCalls' = 1..(n + 1) /\ logCalls'[n + 1] = c
      /\ \A j \in 1..n : logCalls'[j] = logCalls[j]
  BY <1>1, <1>2
<1> HIDE DEF n
<1>4. \A j \in 1..(n + 1) : j = n + 1 \/ j \in 1..n
  BY <1>3
<1>5. \A j \in 1..n : j \in 1..(n + 1)
  BY <1>3
<1>6. Recorded' = Recorded /\ Clears' = Clears
  BY <1>2, <1>3, <1>4, <1>5, Zenon DEF Recorded, Clears
<1>7. LogTypes'
  BY <1>1, <1>3 DEF LogTypes
<1>8. InTurn'
  <2> SUFFICES ASSUME NEW i \in 1..(n + 1), NEW j \in 1..(n + 1), j < i, logCalls'[i].at # "queued"
               PROVE  logCalls'[j].at \in Settled
    BY <1>3 DEF InTurn
  <2>1. i \in 1..n /\ j \in 1..n
    BY <1>2, <1>3, <1>4
  <2> QED BY <1>3, <2>1 DEF InTurn, LogInv
<1>9. DraftsInv'
  <2> SUFFICES ASSUME NEW i \in 1..(n + 1), logCalls'[i].at = "drafted"
               PROVE  /\ logCalls'[i].kind # "clear"
                      /\ Keeps(logCalls'[i].draft, Coming(i)', horizon', Ending(i)')
    BY <1>3, Zenon DEF DraftsInv
  <2>1. i \in 1..n /\ logCalls'[i] = logCalls[i]
    BY <1>2, <1>3, <1>4
  <2>2. Coming(i)' = Coming(i) /\ Ending(i)' = Ending(i)
    BY <1>6, <2>1, Zenon DEF Coming, Ending
  <2> QED BY <1>1, <1>3, <1>6, <2>1, <2>2, Zenon DEF DraftsInv, LogInv
<1> QED BY <1>1, <1>6, <1>7, <1>8, <1>9, Zenon DEF LogInv

\* A call moves that has its turn.
LEMMA TurnMoves ==
  ASSUME LogInv, NEW i \in DOMAIN logCalls, NEW where \in {"drafted"} \cup Settled,
         NEW what \in Seq(Nat), NEW blind \in BOOLEAN, Advance(i, where, what, blind),
         horizon' = horizon,
         \/ logCalls[i].at = "queued" /\ (i > 1 => logCalls[i - 1].at \in Settled)
         \/ logCalls[i].at = "drafted",
         Keeps(log', Recorded', horizon, Clears'),
         where = "drafted" =>
           logCalls[i].kind # "clear" /\ Keeps(what, Coming(i)', horizon, Ending(i)')
  PROVE  LogInv'
<1>1. /\ logCalls' \in Seq(LogCall) /\ DOMAIN logCalls' = DOMAIN logCalls
      /\ logCalls'[i].kind = logCalls[i].kind
      /\ logCalls'[i].at = where /\ logCalls'[i].draft = what
      /\ \A j \in DOMAIN logCalls : j # i => logCalls'[j] = logCalls[j]
  BY AdvanceIs DEF LogInv
<1>2. /\ \A j \in DOMAIN logCalls : j < i => logCalls[j].at \in Settled
      /\ \A j \in DOMAIN logCalls : j > i => logCalls[j].at = "queued"
  BY TurnIs DEF LogInv
<1>3. DOMAIN logCalls \in SUBSET Nat /\ i \in Nat
  BY DEF LogInv, LogTypes
<1>4. LogTypes'
  BY <1>1 DEF LogTypes, LogInv
<1>5. InTurn'
  <2> SUFFICES ASSUME NEW h \in DOMAIN logCalls, NEW j \in DOMAIN logCalls, j < h,
                      logCalls'[h].at # "queued"
               PROVE  logCalls'[j].at \in Settled
    BY <1>1 DEF InTurn
  <2>1. ~(h > i)
    <3> SUFFICES ASSUME h > i PROVE FALSE
      OBVIOUS
    <3>1. h # i
      BY <1>3
    <3> QED BY <1>1, <1>2, <3>1
  <2>2. j < i
    BY <1>3, <2>1
  <2>3. j # i
    BY <1>3, <2>2
  <2> QED BY <1>1, <1>2, <2>2, <2>3
<1>6. DraftsInv'
  <2> SUFFICES ASSUME NEW h \in DOMAIN logCalls, logCalls'[h].at = "drafted"
               PROVE  /\ logCalls'[h].kind # "clear"
                      /\ Keeps(logCalls'[h].draft, Coming(h)', horizon', Ending(h)')
    BY <1>1, Zenon DEF DraftsInv
  <2>1. h = i
    <3> SUFFICES ASSUME h # i PROVE FALSE
      OBVIOUS
    <3>1. h < i \/ h > i
      BY <1>3
    <3>2. logCalls[h].at = "drafted"
      BY <1>1
    <3> QED BY <1>2, <3>1, <3>2 DEF Settled
  <2> QED BY <1>1, <2>1, Zenon
<1> QED BY <1>4, <1>5, <1>6, Zenon DEF LogInv

\* What is recorded, and what clears, when a call moves.
LEMMA MoveRecords ==
  ASSUME LogInv, NEW i \in DOMAIN logCalls, NEW where \in {"drafted"} \cup Settled,
         NEW what \in Seq(Nat), NEW blind \in BOOLEAN, Advance(i, where, what, blind),
         logCalls[i].at \notin Settled
  PROVE  /\ where = "done" => Recorded' = Coming(i)
         /\ where # "done" => Recorded' = Recorded
         /\ where # "done" => Clears' = Clears
         /\ where = "done" /\ logCalls[i].kind = "clear" => Clears' = Clears \cup {i}
         /\ where = "done" /\ logCalls[i].kind # "clear" =>
              Clears' = Clears \cup (IF blind THEN {i} ELSE {})
         /\ where # "done" => Coming(i)' = Coming(i)
         /\ where # "done" => Ending(i)' = Clears \cup (IF blind THEN {i} ELSE {})
<1>1. /\ DOMAIN logCalls' = DOMAIN logCalls
      /\ logCalls'[i].kind = logCalls[i].kind /\ logCalls'[i].at = where
      /\ (logCalls'[i].blind <=> blind)
      /\ \A j \in DOMAIN logCalls : j # i => logCalls'[j] = logCalls[j]
  <2>1. LogTypes /\ where \in {"queued", "drafted"} \cup Settled
    BY DEF LogInv
  <2> QED BY <2>1, AdvanceIs
<1>2. logCalls[i].at # "done"
  BY DEF Settled
<1>3. \A j \in DOMAIN logCalls : j # i => (j \in Recorded' <=> j \in Recorded)
  BY <1>1, Zenon DEF Recorded
<1>4. \A j \in DOMAIN logCalls : j # i => (j \in Clears' <=> j \in Clears)
  BY <1>1, Zenon DEF Clears
<1>5. i \notin Recorded /\ i \notin Clears
  BY <1>2, Zenon DEF Recorded, Clears
<1>6. i \in Recorded' <=> logCalls[i].kind = "append" /\ where = "done"
  BY <1>1, Zenon DEF Recorded
<1>7. i \in Clears' <=> (logCalls[i].kind = "clear" \/ blind) /\ where = "done"
  BY <1>1, Zenon DEF Clears
<1>8. /\ Recorded \subseteq DOMAIN logCalls /\ Recorded' \subseteq DOMAIN logCalls
      /\ Clears \subseteq DOMAIN logCalls /\ Clears' \subseteq DOMAIN logCalls
  BY <1>1 DEF Recorded, Clears
<1>9. Recorded' = IF where = "done" THEN Coming(i) ELSE Recorded
  <2>1. \A j : j \in Coming(i) <=> j \in Recorded \/ (logCalls[i].kind = "append" /\ j = i)
    BY DEF Coming
  <2>2. CASE where # "done"
    <3>1. \A j : j \in Recorded' <=> j \in Recorded
      BY <1>3, <1>5, <1>6, <1>8, <2>2, Zenon
    <3> QED BY <2>2, <3>1
  <2>3. CASE where = "done"
    <3>1. \A j : j \in Recorded' <=> j \in Coming(i)
      BY <1>3, <1>5, <1>6, <1>8, <2>1, <2>3, Zenon
    <3>2. Recorded' = Coming(i)
      BY <3>1
    <3> QED BY <2>3, <3>2
  <2> QED BY <2>2, <2>3
<1>10. Clears' = Clears \cup (IF where = "done" /\ (logCalls[i].kind = "clear" \/ blind) THEN {i} ELSE {})
  BY <1>4, <1>5, <1>7, <1>8
<1>11. where # "done" => Coming(i)' = Coming(i)
  BY <1>1, <1>9, Zenon DEF Coming
<1>12. where # "done" => Ending(i)' = Clears \cup (IF blind THEN {i} ELSE {})
  <2> SUFFICES ASSUME where # "done" PROVE Ending(i)' = Clears \cup (IF blind THEN {i} ELSE {})
    OBVIOUS
  <2>1. Clears' = Clears
    BY <1>10
  <2> QED BY <1>1, <2>1, Zenon DEF Ending
<1> QED BY <1>9, <1>10, <1>11, <1>12

LEMMA NotDone ==
  ASSUME LogInv, NEW i \in DOMAIN logCalls, NEW where \in {"drafted", "failed"},
         NEW what \in Seq(Nat), NEW blind \in BOOLEAN, Advance(i, where, what, blind),
         logCalls[i].at \notin Settled
  PROVE  /\ Recorded' = Recorded /\ Clears' = Clears /\ Coming(i)' = Coming(i)
         /\ Ending(i)' = Clears \cup (IF blind THEN {i} ELSE {})
<1>1. where \in {"drafted"} \cup Settled /\ where # "done"
  BY DEF Settled
<1> QED BY <1>1, MoveRecords

LEMMA WhenDone ==
  ASSUME LogInv, NEW i \in DOMAIN logCalls, NEW what \in Seq(Nat), NEW blind \in BOOLEAN,
         Advance(i, "done", what, blind), logCalls[i].at \notin Settled, logCalls[i].kind # "clear"
  PROVE  Recorded' = Coming(i) /\ Clears' = Clears \cup (IF blind THEN {i} ELSE {})
<1> DEFINE where == "done"
<1>1. where \in {"drafted"} \cup Settled /\ where = "done"
  BY DEF Settled
<1> HIDE DEF where
<1>2. Advance(i, where, what, blind)
  BY <1>1
<1>3. Recorded' = Coming(i)
  BY <1>1, <1>2, MoveRecords
<1>4. Clears' = Clears \cup (IF blind THEN {i} ELSE {})
  BY <1>1, <1>2, MoveRecords
<1> QED BY <1>3, <1>4

LEMMA EmptyFile == <<>> \in Seq(Nat) /\ DOMAIN <<>> = {} /\ Len(<<>>) = 0 /\ Range(<<>>) = {}
BY DEF Range

LEMMA BeginKeeps ==
  ASSUME LogInv, NEW i \in DOMAIN logCalls, NEW blind \in BOOLEAN, Begin(i, blind)
  PROVE  LogInv'
<1> DEFINE fileRead == IF blind THEN <<>> ELSE log
           discards == Clears \cup (IF blind THEN {i} ELSE {})
<1>1. /\ logCalls[i].at = "queued" /\ (i > 1 => logCalls[i - 1].at \in Settled)
      /\ horizon' = horizon /\ logCalls[i].at \notin Settled
      /\ blind => logCalls[i].kind # "clear"
      /\ \/ /\ logCalls[i].kind = "clear"
               \/ (logCalls[i].kind = "prune" /\ Retained(fileRead, MaxEntries) = <<>>)
            /\ Advance(i, "done", <<>>, blind) /\ log' = <<>>
         \/ /\ logCalls[i].kind = "append"
            /\ Advance(i, "drafted", Append(Retained(fileRead, MaxEntries - 1), i), blind)
            /\ log' = log
         \/ /\ logCalls[i].kind = "prune" /\ Retained(fileRead, MaxEntries) # <<>>
            /\ Advance(i, "drafted", Retained(fileRead, MaxEntries), blind)
            /\ log' = log
  BY DEF Begin, Starts, Settled
<1>2. /\ \A j \in DOMAIN logCalls : j < i => logCalls[j].at \in Settled
      /\ \A j \in DOMAIN logCalls : j > i => logCalls[j].at = "queued"
  BY <1>1, TurnIs DEF LogInv
<1>3. /\ Recorded \in SUBSET Nat /\ Clears \in SUBSET Nat /\ DOMAIN logCalls \in SUBSET Nat /\ i \in Nat
      /\ horizon \in Nat
  BY RecordedIs DEF LogInv, LogTypes
<1>4. ASSUME NEW j \in Recorded \cup Clears PROVE j < i
  <2>1. j \in DOMAIN logCalls /\ logCalls[j].at = "done"
    BY DEF Recorded, Clears
  <2>2. ~(j > i) /\ j # i
    BY <1>1, <1>2, <2>1
  <2> QED BY <1>3, <2>1, <2>2
<1>5. Keeps(log, Recorded, horizon, Clears)
  BY DEF LogInv
<1>10. /\ discards \in SUBSET Nat /\ (~blind => discards = Clears)
       /\ \A j \in discards : j <= i
  <2>1. \A j \in Clears : j <= i
    BY <1>3, <1>4
  <2>2. i <= i
    BY <1>3
  <2> QED BY <1>3, <2>1, <2>2
<1>11. Keeps(fileRead, Recorded, horizon, discards)
  <2>1. CASE blind
    <3>1. \A e \in Recorded : i > e
      BY <1>3, <1>4
    <3> QED BY <2>1, <3>1, EmptyFile, LogAssumption DEF Keeps, Held, Ascending
  <2>2. CASE ~blind
    BY <1>5, <1>10, <2>2, Zenon
  <2> QED BY <2>1, <2>2
<1> HIDE DEF fileRead, discards
<1>6. logCalls[i].kind \in LogKind
  <2>1. logCalls[i] \in LogCall
    BY DEF LogInv, LogTypes
  <2> QED BY <2>1 DEF LogCall
<1>7. CASE logCalls[i].kind = "clear"
  <2>1. Advance(i, "done", <<>>, FALSE) /\ log' = <<>>
    BY <1>1, <1>7
  <2>2. Recorded' = Recorded /\ Clears' = Clears \cup {i}
    BY <1>1, <1>7, <2>1, MoveRecords, EmptyFile DEF Settled, Coming
  <2>3. \A e \in Recorded : i > e
    BY <1>3, <1>4
  <2>4. Keeps(<<>>, Recorded, horizon, Clears \cup {i})
    BY <2>3, EmptyFile, LogAssumption DEF Keeps, Held, Ascending
  <2> QED BY <1>1, <2>1, <2>2, <2>4, TurnMoves, EmptyFile DEF Settled
<1>8. CASE logCalls[i].kind = "append"
  <2> DEFINE list == Retained(fileRead, MaxEntries - 1)
             draft == Append(list, i)
  <2>1. Advance(i, "drafted", draft, blind) /\ log' = log
    BY <1>1, <1>8
  <2>2. MaxEntries - 1 \in 1..MaxEntries
    BY LogAssumption
  <2>3. /\ list \in Seq(Nat) /\ Ascending(list) /\ Len(list) <= MaxEntries - 1
        /\ \A k \in DOMAIN list : list[k] \in Recorded /\ \A j \in discards : j <= list[k]
        /\ \A e \in Recorded : Held(e, list, MaxEntries - 1, horizon, discards)
    BY <1>3, <1>10, <1>11, <2>2, RetainedKeeps
  <2> HIDE DEF list
  <2>4. /\ draft \in Seq(Nat) /\ Len(draft) = Len(list) + 1 /\ draft[Len(list) + 1] = i
        /\ DOMAIN draft = 1..(Len(list) + 1) /\ DOMAIN list = 1..Len(list) /\ Len(list) \in Nat
        /\ \A k \in 1..Len(list) : draft[k] = list[k]
    BY <1>3, <2>3
  <2> HIDE DEF draft
  <2>5. \A k \in 1..(Len(list) + 1) : k = Len(list) + 1 \/ k \in 1..Len(list)
    BY <2>4
  <2>6. /\ Recorded' = Recorded /\ Clears' = Clears /\ Coming(i)' = Coming(i)
        /\ Coming(i) = Recorded \cup {i} /\ Ending(i)' = discards
    <3>1. /\ Recorded' = Recorded /\ Clears' = Clears /\ Coming(i)' = Coming(i)
          /\ Ending(i)' = discards
      BY <1>1, <2>1, <2>4, NotDone DEF discards
    <3> QED BY <1>8, <3>1 DEF Coming
  <2>7. Keeps(draft, Recorded \cup {i}, horizon, discards)
    <3>1. Ascending(draft)
      <4> SUFFICES ASSUME NEW a \in 1..(Len(list) + 1), NEW b \in 1..(Len(list) + 1), a < b
                   PROVE  draft[a] < draft[b]
        BY <2>4 DEF Ascending
      <4>1. a \in 1..Len(list) /\ draft[a] = list[a]
        BY <2>4
      <4>2. CASE b = Len(list) + 1
        BY <1>4, <2>3, <2>4, <4>1, <4>2
      <4>3. CASE b \in 1..Len(list)
        BY <2>3, <2>4, <4>1, <4>3 DEF Ascending
      <4> QED BY <2>5, <4>2, <4>3
    <3>2. Len(draft) <= MaxEntries
      BY <2>3, <2>4, LogAssumption
    <3>3. ASSUME NEW k \in DOMAIN draft
          PROVE  draft[k] \in Recorded \cup {i} /\ \A j \in discards : j <= draft[k]
      <4>1. CASE k = Len(list) + 1
        <5>1. \A j \in discards : j <= i
          BY <1>10
        <5> QED BY <2>4, <4>1, <5>1
      <4>2. CASE k \in 1..Len(list)
        BY <2>3, <2>4, <4>2, Zenon
      <4> QED BY <2>4, <2>5, <4>1, <4>2
    <3>4. \A k \in 1..Len(list) : k \in 1..(Len(list) + 1)
      BY <2>4
    <3>5. Range(list) \subseteq Range(draft) /\ i \in Range(draft)
      <4>1. i \in Range(draft)
        <5>1. Len(list) + 1 \in 1..(Len(list) + 1)
          BY <2>4
        <5> QED BY <2>4, <5>1, Zenon DEF Range
      <4>2. Range(list) \subseteq Range(draft)
        BY <2>4, <3>4, Zenon DEF Range
      <4> QED BY <4>1, <4>2
    <3>6. ASSUME NEW e \in Recorded, Len(list) = MaxEntries - 1, \A k \in DOMAIN list : list[k] > e
          PROVE  Len(draft) = MaxEntries /\ \A k \in DOMAIN draft : draft[k] > e
      <4>1. Len(draft) = MaxEntries
        BY <2>4, <3>6, LogAssumption
      <4>2. i > e
        BY <1>3, <1>4
      <4> QED BY <2>4, <2>5, <3>6, <4>1, <4>2, Zenon
    <3>7. ASSUME NEW e \in Recorded \cup {i}
          PROVE  Held(e, draft, MaxEntries, horizon, discards)
      <4>1. CASE e = i
        BY <3>5, <4>1, Zenon DEF Held
      <4>2. CASE e \in Recorded
        <5>1. \/ e \in Range(list) \/ e <= horizon \/ \E j \in discards : j > e
              \/ Len(list) = MaxEntries - 1 /\ \A k \in DOMAIN list : list[k] > e
          BY <2>3, <4>2, Zenon DEF Held
        <5>2. CASE e \in Range(list)
          BY <3>5, <5>2, Zenon DEF Held
        <5>3. CASE Len(list) = MaxEntries - 1 /\ \A k \in DOMAIN list : list[k] > e
          BY <3>6, <4>2, <5>3, Zenon DEF Held
        <5>4. CASE e <= horizon \/ \E j \in discards : j > e
          BY <5>4, Zenon DEF Held
        <5> QED BY <5>1, <5>2, <5>3, <5>4, Zenon
      <4> QED BY <4>1, <4>2
    <3> QED BY <2>4, <3>1, <3>2, <3>3, <3>7, Zenon DEF Keeps
  <2>8. Keeps(log', Recorded', horizon, Clears')
    BY <1>5, <2>1, <2>6, Zenon
  <2>9. logCalls[i].kind # "clear" /\ Keeps(draft, Coming(i)', horizon, Ending(i)')
    BY <1>8, <2>6, <2>7, Zenon
  <2> QED BY <1>1, <2>1, <2>4, <2>8, <2>9, TurnMoves
<1>9. CASE logCalls[i].kind = "prune"
  <2> DEFINE list == Retained(fileRead, MaxEntries)
  <2>1. MaxEntries \in 1..MaxEntries
    BY LogAssumption
  <2>2. /\ list \in Seq(Nat) /\ Ascending(list) /\ Len(list) <= MaxEntries
        /\ \A k \in DOMAIN list : list[k] \in Recorded /\ \A j \in discards : j <= list[k]
        /\ \A e \in Recorded : Held(e, list, MaxEntries, horizon, discards)
    BY <1>3, <1>10, <1>11, <2>1, RetainedKeeps
  <2>3. Keeps(list, Recorded, horizon, discards)
    BY <2>2, Zenon DEF Keeps
  <2>4. Coming(i) = Recorded
    BY <1>9 DEF Coming
  <2>5. CASE list = <<>>
    <3>1. Advance(i, "done", <<>>, blind) /\ log' = <<>>
      BY <1>1, <1>9, <2>5
    <3>2. Recorded' = Recorded /\ Clears' = discards
      <4>2. Recorded' = Coming(i) /\ Clears' = Clears \cup (IF blind THEN {i} ELSE {})
        <5>1. logCalls[i].kind # "clear" /\ <<>> \in Seq(Nat)
          BY <1>9
        <5>2. logCalls[i].at \notin Settled
          BY <1>1
        <5> QED BY <3>1, <5>1, <5>2, WhenDone, Zenon
      <4> QED BY <2>4, <4>2 DEF discards
    <3>3. Keeps(log', Recorded', horizon, Clears')
      BY <2>3, <2>5, <3>1, <3>2, Zenon
    <3> QED BY <1>1, <3>1, <3>3, TurnMoves, EmptyFile DEF Settled
  <2>6. CASE list # <<>>
    <3>1. Advance(i, "drafted", list, blind) /\ log' = log
      BY <1>1, <1>9, <2>6
    <3> HIDE DEF list
    <3>2. /\ Recorded' = Recorded /\ Clears' = Clears /\ Coming(i)' = Recorded
          /\ Ending(i)' = discards
      BY <1>1, <2>2, <2>4, <3>1, NotDone DEF discards
    <3>3. Keeps(log', Recorded', horizon, Clears')
      BY <1>5, <3>1, <3>2, Zenon
    <3>4. logCalls[i].kind # "clear" /\ Keeps(list, Coming(i)', horizon, Ending(i)')
      BY <1>9, <2>3, <3>2, Zenon
    <3> QED BY <1>1, <2>2, <3>1, <3>3, <3>4, TurnMoves
  <2> QED BY <2>5, <2>6
<1> QED BY <1>6, <1>7, <1>8, <1>9 DEF LogKind

LEMMA MoveKeeps == ASSUME LogInv, NEW i \in DOMAIN logCalls, Move(i) PROVE LogInv'
<1>1. /\ logCalls[i].at = "drafted" /\ logCalls[i].at \notin Settled /\ horizon' = horizon
      /\ log' = logCalls[i].draft /\ Advance(i, "done", <<>>, logCalls[i].blind)
      /\ logCalls[i].blind \in BOOLEAN
  <2>1. logCalls[i] \in LogCall
    BY DEF LogInv, LogTypes
  <2> QED BY <2>1 DEF Move, Settled, LogCall
<1>2. logCalls[i].kind # "clear" /\ Keeps(logCalls[i].draft, Coming(i), horizon, Ending(i))
  BY <1>1 DEF LogInv, DraftsInv
<1>3. Recorded' = Coming(i) /\ Clears' = Ending(i)
  <2>2. /\ Recorded' = Coming(i)
        /\ Clears' = Clears \cup (IF logCalls[i].blind THEN {i} ELSE {})
    <3>1. <<>> \in Seq(Nat)
      OBVIOUS
    <3> QED BY <1>1, <1>2, <3>1, WhenDone, Zenon
  <2> QED BY <2>2 DEF Ending
<1>4. Keeps(log', Recorded', horizon, Clears')
  BY <1>1, <1>2, <1>3, Zenon
<1> QED BY <1>1, <1>4, TurnMoves, EmptyFile DEF Settled

LEMMA FailKeeps == ASSUME LogInv, NEW i \in DOMAIN logCalls, OperationFails(i) PROVE LogInv'
<1>1. /\ logCalls[i].at \notin Settled /\ horizon' = horizon /\ log' = log
      /\ Advance(i, "failed", <<>>, logCalls[i].blind) /\ logCalls[i].blind \in BOOLEAN
      /\ \/ logCalls[i].at = "queued" /\ (i > 1 => logCalls[i - 1].at \in Settled)
         \/ logCalls[i].at = "drafted"
  <2>1. logCalls[i] \in LogCall
    BY DEF LogInv, LogTypes
  <2> QED BY <2>1 DEF OperationFails, Settled, LogCall
<1>2. Recorded' = Recorded /\ Clears' = Clears
  BY <1>1, NotDone, EmptyFile
<1>3. Keeps(log', Recorded', horizon, Clears')
  BY <1>1, <1>2, Zenon DEF LogInv
<1> QED BY <1>1, <1>3, TurnMoves, EmptyFile DEF Settled

LEMMA AgeKeeps == ASSUME LogInv, EntriesAge PROVE LogInv'
<1>1. /\ horizon \in Nat /\ horizon' \in Nat /\ horizon <= horizon'
      /\ log' = log /\ logCalls' = logCalls
  BY DEF EntriesAge, LogInv, LogTypes
<1>2. /\ Recorded' = Recorded /\ Clears' = Clears
      /\ \A i : Coming(i)' = Coming(i) /\ Ending(i)' = Ending(i)
  BY <1>1 DEF Recorded, Clears, Coming, Ending
<1>3. Recorded \in SUBSET Nat /\ DOMAIN logCalls \in SUBSET Nat
  BY RecordedIs DEF LogInv, LogTypes
<1>4. LogTypes' /\ InTurn'
  BY <1>1 DEF LogTypes, InTurn, LogInv
<1>5. Keeps(log, Recorded, horizon', Clears)
  BY <1>1, <1>3, KeepsLater DEF LogInv
<1>6. \A i \in DOMAIN logCalls : Coming(i) \in SUBSET Nat
  BY <1>3 DEF Coming
<1>7. \A i \in DOMAIN logCalls :
        logCalls[i].at = "drafted" =>
          logCalls[i].kind # "clear" /\ Keeps(logCalls[i].draft, Coming(i), horizon', Ending(i))
  BY <1>1, <1>6, KeepsLater DEF LogInv, DraftsInv
<1>8. DraftsInv'
  BY <1>1, <1>2, <1>7, Zenon DEF DraftsInv
<1> QED BY <1>1, <1>2, <1>4, <1>5, <1>8, Zenon DEF LogInv

LEMMA DeathKeeps == ASSUME LogInv, ShellDies PROVE LogInv'
<1> DEFINE c(i) == [logCalls[i] EXCEPT !.at = IF @ \in Settled THEN @ ELSE "failed"]
<1>1. logCalls' = [i \in DOMAIN logCalls |-> c(i)] /\ log' = log /\ horizon' = horizon
  BY DEF ShellDies
<1>2. \A i \in DOMAIN logCalls : logCalls[i] \in LogCall
  BY DEF LogInv, LogTypes
<1>3. ASSUME NEW i \in DOMAIN logCalls
      PROVE  /\ c(i) \in LogCall /\ c(i).kind = logCalls[i].kind /\ c(i).blind = logCalls[i].blind
             /\ c(i).at = IF logCalls[i].at \in Settled THEN logCalls[i].at ELSE "failed"
  BY <1>2 DEF LogCall, Settled
<1> HIDE DEF c
<1>4. /\ logCalls' \in Seq(LogCall) /\ DOMAIN logCalls' = DOMAIN logCalls
      /\ \A i \in DOMAIN logCalls : logCalls'[i] = c(i)
  BY <1>1, <1>3 DEF LogInv, LogTypes
<1>5. \A i \in DOMAIN logCalls : logCalls'[i].at \in Settled
  BY <1>3, <1>4 DEF Settled
<1>6. \A i \in DOMAIN logCalls :
        /\ logCalls'[i].kind = logCalls[i].kind /\ logCalls'[i].blind = logCalls[i].blind
        /\ (logCalls'[i].at = "done" <=> logCalls[i].at = "done")
  BY <1>3, <1>4 DEF Settled
<1>7. Recorded' = Recorded /\ Clears' = Clears
  BY <1>4, <1>6, Zenon DEF Recorded, Clears
<1>8. LogTypes' /\ InTurn'
  BY <1>1, <1>4, <1>5 DEF LogTypes, InTurn, LogInv
<1>9. DraftsInv'
  BY <1>4, <1>5 DEF DraftsInv, Settled
<1> QED BY <1>1, <1>7, <1>8, <1>9, Zenon DEF LogInv

LEMMA LogGoesOn == LogInv /\ [LogNext]_logVars => LogInv'
<1> SUFFICES ASSUME LogInv, [LogNext]_logVars PROVE LogInv'
  OBVIOUS
<1>1. CASE UNCHANGED logVars
  BY <1>1 DEF logVars, LogInv, LogTypes, InTurn, DraftsInv, Recorded, Clears, Coming, Ending
<1>2. CASE LogNext
  BY <1>2, CallKeeps, BeginKeeps, MoveKeeps, FailKeeps, AgeKeeps, DeathKeeps, Zenon DEF LogNext
<1> QED BY <1>1, <1>2

LEMMA DiscardedIs == ASSUME NEW e PROVE Cleared(e) \/ Overwritten(e) <=> \E j \in Clears : j > e
BY DEF Cleared, Overwritten, Clears

LEMMA LogIsKept == LogInv => LogRemembers
<1> SUFFICES ASSUME LogInv PROVE LogRemembers
  OBVIOUS
<1>1. /\ log \in Seq(Nat) /\ Ascending(log) /\ Len(log) <= MaxEntries
      /\ \A k \in DOMAIN log : log[k] \in Recorded /\ \A j \in Clears : j <= log[k]
      /\ \A e \in Recorded : Held(e, log, MaxEntries, horizon, Clears)
  BY DEF LogInv, Keeps
<1>2. /\ Recorded \in SUBSET Nat /\ Clears \in SUBSET Nat
      /\ DOMAIN log = 1..Len(log) /\ Len(log) \in Nat
  BY <1>1, RecordedIs DEF LogInv
<1>3. IsFiniteSet(Recorded)
  <2>1. DOMAIN logCalls = 1..Len(logCalls) /\ Len(logCalls) \in Int
    BY DEF LogInv, LogTypes
  <2>2. IsFiniteSet(1..Len(logCalls))
    BY <2>1, FS_Interval
  <2>3. Recorded \in SUBSET (1..Len(logCalls))
    BY <2>1 DEF Recorded
  <2> QED BY <2>2, <2>3, FS_Subset
<1>4. ASSUME NEW e \in Recorded, Len(log) = MaxEntries, \A k \in DOMAIN log : log[k] > e
      PROVE  Cardinality(Younger(e)) >= MaxEntries
  <2> DEFINE S == 1..Len(log)
             T == Younger(e)
             f == [k \in S |-> log[k]]
  <2>1. IsFiniteSet(T)
    <3>1. T \in SUBSET Recorded
      BY DEF Younger
    <3> QED BY <1>3, <3>1, FS_Subset
  <2>2. f \in [S -> T]
    BY <1>1, <1>2, <1>4 DEF Younger
  <2>3. \A a, b \in S : f[a] = f[b] => a = b
    <3> SUFFICES ASSUME NEW a \in S, NEW b \in S, a # b PROVE f[a] # f[b]
      OBVIOUS
    <3>1. \A m, n \in S : m < n => f[m] < f[n]
      BY <1>1, <1>2 DEF Ascending
    <3>2. f[a] \in Nat /\ f[b] \in Nat
      BY <1>1, <1>2
    <3>3. a < b \/ b < a
      BY <1>2
    <3> HIDE DEF f, S
    <3> QED BY <3>1, <3>2, <3>3
  <2>4. Cardinality(S) = Len(log)
    <3>1. \A n \in Nat : Cardinality(1..n) = n
      BY FS_Interval
    <3> QED BY <1>2, <3>1
  <2>5. f \in Injection(S, T)
    <3> HIDE DEF f, S, T
    <3> QED BY <2>2, <2>3 DEF Injection, IsInjective
  <2> HIDE DEF f, S, T
  <2>6. IsFiniteSet(S) /\ Cardinality(S) <= Cardinality(T)
    BY <2>1, <2>5, FS_Injection
  <2>7. Cardinality(T) \in Nat
    BY <2>1, FS_CardinalityType
  <2>8. Cardinality(T) >= MaxEntries
    BY <1>2, <1>4, <2>4, <2>6, <2>7
  <2> QED BY <2>8 DEF T
<1>5. ASSUME NEW e \in Recorded
      PROVE  \/ \E k \in DOMAIN log : log[k] = e
             \/ e <= horizon \/ Cleared(e) \/ Overwritten(e)
             \/ Cardinality(Younger(e)) >= MaxEntries
  <2>1. \/ e \in Range(log) \/ e <= horizon \/ \E j \in Clears : j > e
        \/ Len(log) = MaxEntries /\ \A k \in DOMAIN log : log[k] > e
    BY <1>1, <1>5, Zenon DEF Held
  <2>2. e \in Range(log) => \E k \in DOMAIN log : log[k] = e
    BY Zenon DEF Range
  <2> QED BY <1>4, <1>5, <2>1, <2>2, DiscardedIs, Zenon
<1>6. ASSUME NEW k \in DOMAIN log PROVE log[k] \in Recorded /\ ~Cleared(log[k]) /\ ~Overwritten(log[k])
  <2>1. log[k] \in Recorded /\ \A j \in Clears : ~(j > log[k])
    BY <1>1, <1>2
  <2> QED BY <2>1, DiscardedIs, Zenon
<1>7. \A k \in 2..Len(log) : log[k - 1] < log[k]
  BY <1>1, <1>2, SMTT(60) DEF Ascending
<1> QED BY <1>1, <1>5, <1>6, <1>7 DEF LogRemembers

\* However the operations of the diagnostics file overlap, fail or are cut off, it holds each entry
\* that was recorded, and nothing else, until it is too old, cleared, the oldest of too many, or
\* overwritten by an operation whose own read had failed (readElectronDiagnosticLog's catch).
THEOREM LogIsRemembered == LogSpec => []LogRemembers
<1> QED BY LogBegins, LogGoesOn, LogIsKept, PTL DEF LogSpec
-----------------------------------------------------------------------------
(***************************************************************************)
(* The sum.  The parts that rest satisfy their invariants, too.            *)
(***************************************************************************)
NegotiationRests == part # "negotiation" /\ phase = "idle" /\ answer = NoAnswer
PartsInv ==
  /\ (NegotiationRests \/ AgreementInv) /\ QualityInv /\ HandoffInv /\ ExchangeInv
  /\ EmulationInv /\ ShelfInv /\ HostPagesInv /\ LibraryInv /\ LogInv

LEMMA PartsBegin == PagePartsInit => PartsInv
<1> SUFFICES ASSUME PagePartsInit PROVE PartsInv
  OBVIOUS
<1>1. /\ QualityInit /\ HandoffInit /\ ExchangeInit
      /\ EmulationInit /\ LibraryPagesInit /\ HostPagesInit
      /\ LibraryInit /\ LogInit
  BY DEF PagePartsInit, NoQuality, NoHandoff, NoExchange, NoEmulation, NoHosts
<1>2. NegotiationInit \/ (NoNegotiation /\ part # "negotiation")
  BY DEF PagePartsInit
<1>3. NegotiationRests \/ AgreementInv
  BY <1>2, AgreementBegins DEF NoNegotiation, NegotiationRests
<1>4. EmulationInv /\ ShelfInv /\ HostPagesInv /\ LibraryInv /\ LogInv
  BY <1>1, EmulationBegins, ShelfBegins, HostPagesBegin, LibraryBegins, LogBegins
<1> QED BY <1>1, <1>3, <1>4, QualityBegins, HandoffBegins, ExchangeBegins DEF PartsInv

\* The parts that something is proved about.
ProvedParts ==
  {"negotiation", "quality", "handoff", "exchange", "emulation", "shelves", "hosts",
   "library", "log"}

\* A step of one part is a step of that part, and of no other.
LEMMA StepOfAPart ==
  ASSUME [PagePartsNext]_pagePartsVars
  PROVE  /\ [NegotiationNext]_negotiationVars /\ [QualityNext]_qualityVars
         /\ [HandoffNext]_handoffVars /\ [ExchangeNext]_exchangeVars
         /\ [EmulationNext]_emulationVars /\ [LibraryPagesNext]_libraryPageVars
         /\ [HostPagesNext]_hostPageVars
         /\ [LibraryNext]_libraryVars /\ [LogNext]_logVars
         /\ part # "negotiation" => UNCHANGED negotiationVars /\ UNCHANGED part
<1>1. CASE UNCHANGED pagePartsVars
  BY <1>1 DEF pagePartsVars
<1>2. CASE part = "negotiation" /\ NegotiationNext /\ Others("negotiation")
  BY <1>2 DEF Others
<1>3. CASE part = "quality" /\ QualityNext /\ Others("quality")
  BY <1>3 DEF Others
<1>4. CASE part = "handoff" /\ HandoffNext /\ Others("handoff")
  BY <1>4 DEF Others
<1>5. CASE part = "exchange" /\ ExchangeNext /\ Others("exchange")
  BY <1>5 DEF Others
<1>6. CASE part = "emulation" /\ EmulationNext /\ Others("emulation")
  BY <1>6 DEF Others
<1>7. CASE part = "shelves" /\ LibraryPagesNext /\ Others("shelves")
  BY <1>7 DEF Others
<1>8. CASE part = "hosts" /\ HostPagesNext /\ Others("hosts")
  BY <1>8 DEF Others
<1>10. CASE part = "library" /\ LibraryNext /\ Others("library")
  BY <1>10 DEF Others
<1>11. CASE part = "log" /\ LogNext /\ Others("log")
  BY <1>11 DEF Others
<1>12. CASE part \notin ProvedParts /\ \E p : part = p /\ Others(p)
  BY <1>12 DEF Others, ProvedParts
<1>13. \/ UNCHANGED pagePartsVars
       \/ part = "negotiation" /\ NegotiationNext /\ Others("negotiation")
       \/ part = "quality" /\ QualityNext /\ Others("quality")
       \/ part = "handoff" /\ HandoffNext /\ Others("handoff")
       \/ part = "exchange" /\ ExchangeNext /\ Others("exchange")
       \/ part = "emulation" /\ EmulationNext /\ Others("emulation")
       \/ part = "shelves" /\ LibraryPagesNext /\ Others("shelves")
       \/ part = "hosts" /\ HostPagesNext /\ Others("hosts")
       \/ part = "library" /\ LibraryNext /\ Others("library")
       \/ part = "log" /\ LogNext /\ Others("log")
       \/ part \notin ProvedParts /\ \E p : part = p /\ Others(p)
  BY DEF PagePartsNext, ProvedParts
<1> QED BY <1>1, <1>2, <1>3, <1>4, <1>5, <1>6, <1>7, <1>8, <1>10, <1>11, <1>12, <1>13

LEMMA PartsGoOn == PartsInv /\ [PagePartsNext]_pagePartsVars => PartsInv'
<1> SUFFICES ASSUME PartsInv, [PagePartsNext]_pagePartsVars PROVE PartsInv'
  OBVIOUS
<1>1. QualityInv' /\ HandoffInv' /\ ExchangeInv'
  BY StepOfAPart, QualityGoesOn, HandoffGoesOn, ExchangeGoesOn DEF PartsInv
<1>2. EmulationInv' /\ ShelfInv' /\ HostPagesInv'
  BY StepOfAPart, EmulationGoesOn, ShelfGoesOn, HostPagesGoOn DEF PartsInv
<1>4. LibraryInv' /\ LogInv'
  BY StepOfAPart, LibraryGoesOn, LogGoesOn DEF PartsInv
<1>3. (NegotiationRests \/ AgreementInv)'
  <2>1. CASE NegotiationRests
    BY <2>1, StepOfAPart DEF NegotiationRests, negotiationVars
  <2>2. CASE AgreementInv
    BY <2>2, StepOfAPart, AgreementGoesOn
  <2> QED BY <2>1, <2>2 DEF PartsInv
<1> QED BY <1>1, <1>2, <1>3, <1>4 DEF PartsInv

\* Wherever the two negotiate, change the quality or exchange candidates, they agree: on what both
\* can do, on the profile, on each other's addresses, for any constants.
THEOREM PagesAndHostDoAgree == PagePartsSpec => []PlayerAndHostAgree
<1>1. PartsInv => PlayerAndHostAgree
  <2>1. NegotiationRests => SameAgreement
    BY DEF NegotiationRests, SameAgreement, NoAnswer
  <2> QED BY <2>1, AgreementIsSame, ExchangeArrives
          DEF PartsInv, QualityInv, PlayerAndHostAgree
<1> QED BY <1>1, PartsBegin, PartsGoOn, PTL DEF PagePartsSpec

\* In the sum, too, the quality is steady and what the pages leave is used as it was left for.
THEOREM PagesStayScoped == PagePartsSpec => QualityIsSteady /\ HandoffIsScoped
<1>1. [PagePartsNext]_pagePartsVars => [QualityNext]_qualityVars /\ [HandoffNext]_handoffVars
  BY StepOfAPart
<1> QED BY <1>1, PartsBegin, PartsGoOn, QualityMoves, HandoffBegun, PTL
        DEF PagePartsSpec, PartsInv, QualityIsSteady, HandoffIsScoped

\* What the pages show is what there is, for any numbers of games, plans, hosts and tabs: the
\* game that plays, the shelves of the library, the profiles of hosts.
THEOREM PagesDoShowState == PagePartsSpec => []PagesShowState
<1>1. PartsInv => PagesShowState
  BY EmulationIsShown, ShelfIsShown, HostPagesAreTrue DEF PartsInv, PagesShowState
<1> QED BY <1>1, PartsBegin, PartsGoOn, PTL DEF PagePartsSpec

\* In the sum, too, no update of a game's record is lost without a lapse that NoUpdateLost names,
\* and the diagnostics file remembers, failed reads apart, as LogRemembers says.
THEOREM RecordsAreKept == PagePartsSpec => []RecordsKept
<1>1. PartsInv => RecordsKept
  BY NoneIsLost, LogIsKept DEF PartsInv, RecordsKept
<1> QED BY <1>1, PartsBegin, PartsGoOn, PTL DEF PagePartsSpec
=============================================================================
