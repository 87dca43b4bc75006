-------------------------- MODULE DialoguesProofs --------------------------
(***************************************************************************)
(* What holds of Dialogues for any accounts: on every path through the     *)
(* dialogues what is changed is what the screen and the answers say.       *)
(***************************************************************************)
EXTENDS Dialogues, SequenceTheorems, TLAPS

(* The deletion that "yes" asks for is of the account of the confirmation  *)
(* on the screen, or of one of another router.                             *)
ConfirmMatches ==
    conv = "WAITING_INPUT" /\ data.delete_user_id # NoUser =>
        screen.confirm \in {data.delete_user_id, Unsure}

(* The session of the edit dialogue is of the account of the menu, whatever*)
(* dialogue is open.                                                       *)
MenuMatches == data.editing # NoUser => screen.menu \in {data.editing, Unsure}

(* The row under the stored index is the one of the detail; once an index  *)
(* is stored a detail was shown, so that a new list makes it Unsure.       *)
DetailMatches ==
    /\ conv = "WAITING_HOTSPOT_SEARCH" =>
         /\ data.kick_host_idx # 0 => screen.detail # NoUser
         /\ data.kick_host_idx \in 1 .. Len(Hosts) =>
              screen.detail \in {Hosts[data.kick_host_idx], Unsure}
    /\ conv = "WAITING_USERMAN_SEARCH" =>
         /\ data.kick_um_idx # 0 => screen.detail # NoUser
         /\ data.kick_um_idx \in 1 .. Len(Rows) =>
              screen.detail \in {Rows[data.kick_um_idx], Unsure}

(* What a state may rely on having been answered, by its place in its      *)
(* dialogue.                                                               *)
AddNeeds(s) ==
    CASE s = "WAITING_PASSWORD" -> {"username"}
      [] s = "WAITING_PROFILE" -> {"username", "password"}
      [] s = "WAITING_BYTES_TOTAL" -> {"username", "password", "profile"}
      [] s \in {"WAITING_UPTIME_TYPE", "WAITING_UPTIME_VALUE"} ->
           {"username", "password", "profile", "bytes_total"}
      [] s = "WAITING_COMMENT" -> AddFields
      [] OTHER -> {}

CardNeeds(s) ==
    CASE s = "WAITING_HOTSPOT_CARD_LENGTH" -> {"hs_card_count"}
      [] s = "WAITING_HOTSPOT_CARD_PREFIX" -> {"hs_card_count", "hs_card_length"}
      [] s = "WAITING_HOTSPOT_CARD_PRICE" -> {"hs_card_count", "hs_card_length", "hs_card_prefix"}
      [] s = "WAITING_HOTSPOT_CARD_TYPE" ->
           {"hs_card_count", "hs_card_length", "hs_card_prefix", "hs_card_price"}
      [] s = "WAITING_HOTSPOT_CARD_PROFILE" ->
           {"hs_card_count", "hs_card_length", "hs_card_prefix", "hs_card_price", "hs_card_system"}
      [] s = "WAITING_HOTSPOT_CARD_UPTIME" -> HotspotCardFields \ {"hs_card_uptime", "hs_card_bytes"}
      [] s = "WAITING_HOTSPOT_CARD_BYTES" -> HotspotCardFields \ {"hs_card_bytes"}
      [] s = "WAITING_CARD_PROFILE" -> {"card_type"}
      [] s = "WAITING_CARD_PAYMENT" -> {"card_type", "card_profile"}
      [] s = "WAITING_CARD_TIMESTAMP" -> {"card_type", "card_profile", "card_payment"}
      [] s = "WAITING_CARD_MAC" -> {"card_type", "card_profile", "card_payment", "card_timestamp"}
      [] s = "WAITING_CARD_PREFIX" -> UserManCardFields \ {"card_prefix"}
      [] s = "WAITING_CARD_COUNT" -> UserManCardFields
      [] OTHER -> {}

(* The profile list in a state that offers buttons of it.                  *)
Offers(s, names) ==
    /\ s \in {"WAITING_PROFILE", "WAITING_HOTSPOT_CARD_PROFILE"} => names # "userman"
    /\ s = "WAITING_CARD_PROFILE" => names # "hotspot"

OffersOwn(s, d) == Offers(s, d.profile_names) \/ d.unlisted

Answered(s, d) ==
    /\ d.named => AddNeeds(s) \subseteq d.given
    /\ dialogue = "intact" => CardNeeds(s) \subseteq d.given
    /\ OffersOwn(s, d)

AnswersKept == Answered(conv, data)

Inv == TypeOK /\ ConfirmMatches /\ MenuMatches /\ DetailMatches /\ AnswersKept

-----------------------------------------------------------------------------
(* Operators every handler is built from.                                  *)

(* cleanup_state leaves the edit session, the answers of the add dialogue  *)
(* and the list of profiles.                                               *)
LEMMA CleanedData ==
    ASSUME NEW d \in UserData
    PROVE  /\ Cleaned(d) \in UserData
           /\ Cleaned(d).delete_user_id = NoUser
           /\ Cleaned(d).search_hosts = NoList /\ Cleaned(d).kick_host_idx = 0
           /\ Cleaned(d).search_um_hosts = NoList /\ Cleaned(d).kick_um_idx = 0
           /\ Cleaned(d).editing = d.editing /\ Cleaned(d).named = d.named
           /\ Cleaned(d).profile_names = d.profile_names /\ Cleaned(d).unlisted = d.unlisted
           /\ AddFields \cap Cleaned(d).given = AddFields \cap d.given
<1> DEFINE K == CONVERSATION_USER_DATA_KEYS
<1>1. /\ {"delete_user_id", "search_hosts", "kick_host_idx", "search_um_hosts",
           "kick_um_idx", "add_profile_username", "pdf_option"} \subseteq K
      /\ K \cap AddFields = {}
  BY DEF CONVERSATION_USER_DATA_KEYS, OutlivesCleanup, AddFields, HotspotCardFields, UserManCardFields
<1>2. /\ Popped(d, "delete_user_id") = NoUser
      /\ Popped(d, "search_hosts") = NoList /\ Popped(d, "kick_host_idx") = 0
      /\ Popped(d, "search_um_hosts") = NoList /\ Popped(d, "kick_um_idx") = 0
      /\ Popped(d, "add_profile_username") = NoUser /\ Popped(d, "pdf_option") = "none"
  BY <1>1 DEF Popped, NoData
<1>3. Cleaned(d) = [d EXCEPT !.given = @ \ K, !.delete_user_id = NoUser,
                             !.search_hosts = NoList, !.kick_host_idx = 0,
                             !.search_um_hosts = NoList, !.kick_um_idx = 0,
                             !.add_profile_username = NoUser, !.pdf_option = "none"]
  BY <1>2 DEF Cleaned
<1>4. Cleaned(d).given = d.given \ K
  BY <1>3 DEF UserData
<1>5. Cleaned(d) \in UserData
  <2>1. d.given \ K \in SUBSET (AddFields \cup HotspotCardFields \cup UserManCardFields)
    BY DEF UserData
  <2>2. 0 \in 0 .. 2
    OBVIOUS
  <2> DEFINE c == [d EXCEPT !.given = @ \ K, !.delete_user_id = NoUser,
                            !.search_hosts = NoList, !.kick_host_idx = 0]
  <2> HIDE DEF K
  <2>3. c \in UserData
    BY <2>1, <2>2 DEF UserData
  <2>4. Cleaned(d) = [c EXCEPT !.search_um_hosts = NoList, !.kick_um_idx = 0,
                               !.add_profile_username = NoUser, !.pdf_option = "none"]
    BY <1>3
  <2> HIDE DEF c
  <2> QED
    BY <2>2, <2>3, <2>4 DEF UserData
<1>6. AddFields \cap Cleaned(d).given = AddFields \cap d.given
  BY <1>1, <1>4
<1> QED
  BY <1>3, <1>5, <1>6 DEF UserData
-----------------------------------------------------------------------------
(* Steps that leave what the screen must agree with as it is.              *)

(* d differs from the data in no key that an account is taken from.        *)
Keeps(d) ==
    /\ d \in UserData
    /\ d.editing = data.editing /\ d.delete_user_id = data.delete_user_id
    /\ d.search_hosts = data.search_hosts /\ d.kick_host_idx = data.kick_host_idx
    /\ d.search_um_hosts = data.search_um_hosts /\ d.kick_um_idx = data.kick_um_idx

Observed == selected \in BOOLEAN /\ write.user \in Users \cup {NoUser}

(* The states in which an account is taken from the data.                  *)
ActsOnData == {"WAITING_INPUT", "WAITING_HOTSPOT_SEARCH", "WAITING_USERMAN_SEARCH"}

LEMMA SameKeys ==
    ASSUME Inv
    PROVE  Keeps(data) /\ Answered(conv, data) /\ conv \in States
BY DEF Inv, TypeOK, Keeps, AnswersKept

LEMMA Stores ==
    ASSUME Inv, NEW to \in States, NEW d, Keeps(d), Answered(to, d),
           to = conv \/ to \notin ActsOnData,
           conv' = to, data' = d, UNCHANGED <<screen, dialogue>>, Observed'
    PROVE  Inv'
<1>1. TypeOK'
  BY DEF Inv, TypeOK, Keeps, Observed
<1>2. ConfirmMatches' /\ MenuMatches'
  BY DEF Inv, ConfirmMatches, MenuMatches, Keeps, ActsOnData
<1>3. DetailMatches'
  <2>1. Hosts' = Hosts /\ Rows' = Rows
    BY DEF Keeps, Hosts, Rows
  <2> QED
    BY <2>1 DEF Inv, DetailMatches, Keeps, ActsOnData
<1>4. AnswersKept'
  BY DEF AnswersKept, Answered, OffersOwn
<1> QED
  BY <1>1, <1>2, <1>3, <1>4 DEF Inv

(* The data is cleaned and the conversation stays where it is.             *)
LEMMA Cleans ==
    ASSUME Inv, NEW d \in UserData, d.editing = data.editing, Answered(conv, d),
           data' = Cleaned(d), UNCHANGED conv, CleanedUnder,
           screen' \in {screen, [screen EXCEPT !.confirm = NoUser]}, Observed'
    PROVE  Inv'
<1>1. TypeOK'
  BY CleanedData DEF Inv, TypeOK, Observed, CleanedUnder
<1>2. ConfirmMatches' /\ MenuMatches'
  BY CleanedData DEF Inv, TypeOK, ConfirmMatches, MenuMatches
<1>3. DetailMatches'
  BY CleanedData DEF DetailMatches
<1>4. AnswersKept'
  <2>1. AddNeeds(conv) \subseteq AddFields
    BY DEF AddNeeds, AddFields
  <2>2. Cleaned(d).named => AddNeeds(conv) \subseteq Cleaned(d).given
    BY <2>1, CleanedData DEF Answered
  <2>3. dialogue' = "intact" => CardNeeds(conv) = {}
    <3>1. dialogue' = "intact" => conv = "END"
      BY DEF CleanedUnder
    <3> QED
      BY <3>1 DEF CardNeeds
  <2>4. OffersOwn(conv, Cleaned(d))
    BY CleanedData DEF Answered, OffersOwn
  <2> QED
    BY <2>2, <2>3, <2>4 DEF AnswersKept, Answered, OffersOwn
<1> QED
  BY <1>1, <1>2, <1>3, <1>4 DEF Inv

(* The dialogue is over, whatever becomes of the data.                     *)
LEMMA Ends ==
    ASSUME Inv, NEW d \in UserData, d.editing = data.editing,
           conv' = "END", data' = d, dialogue' \in {"intact", "cleaned"},
           UNCHANGED screen, Observed'
    PROVE  Inv'
<1>1. TypeOK'
  BY DEF Inv, TypeOK, Observed, States
<1>2. ConfirmMatches' /\ MenuMatches' /\ DetailMatches'
  BY DEF Inv, ConfirmMatches, MenuMatches, DetailMatches
<1>3. AnswersKept'
  BY DEF AnswersKept, Answered, OffersOwn, AddNeeds, CardNeeds, Offers
<1> QED
  BY <1>1, <1>2, <1>3 DEF Inv
(* error_handler after d was stored.                                       *)
LEMMA Raises ==
    ASSUME Inv, NEW d, Keeps(d), Answered(conv, d), error_handler(d), UNCHANGED screen, Observed'
    PROVE  Inv'
<1>1. conv \in States
  BY SameKeys
<1>2. CASE data' = d /\ UNCHANGED dialogue
  BY <1>1, <1>2, Stores DEF error_handler
<1>3. CASE data' = Cleaned(d) /\ CleanedUnder
  BY <1>3, Cleans DEF error_handler, Keeps
<1> QED
  BY <1>2, <1>3 DEF error_handler

LEMMA RepliesKeep ==
    ASSUME Inv, NEW to \in States, NEW d, Keeps(d), Answered(conv, d), Answered(to, d),
           to = conv \/ to \notin ActsOnData, Replies(to, d), Observed'
    PROVE  Inv'
BY Stores, Raises DEF Replies, RepliesOr

LEMMA QuietIsObserved ==
    ASSUME Quiet, selected' \in BOOLEAN
    PROVE  Observed'
BY DEF Quiet, Nothing, Observed

LEMMA CallIsObserved ==
    ASSUME NEW u \in Users \cup {NoUser}, NEW op, Calls(op, u), selected' \in BOOLEAN
    PROVE  Observed'
BY DEF Calls, Observed

LEMMA BackSteps ==
    ASSUME Inv, NEW s, NEW to \in States, make_back_step(s, to),
           AddNeeds(to) \subseteq AddNeeds(s), CardNeeds(to) \subseteq CardNeeds(s),
           \A names : Offers(s, names) => Offers(to, names),
           to = s \/ to \notin ActsOnData
    PROVE  Inv'
<1>1. Observed' /\ conv = s
  BY QuietIsObserved DEF make_back_step, Inv, TypeOK, At
<1>2. Answered(to, data)
  BY <1>1, SameKeys DEF Answered, OffersOwn
<1> QED
  BY <1>1, <1>2, SameKeys, RepliesKeep DEF make_back_step

LEMMA Answers ==
    ASSUME Inv, NEW s, NEW key, NEW to \in States, Answer(s, key, to),
           key \in AddFields \cup HotspotCardFields \cup UserManCardFields,
           AddNeeds(to) \subseteq AddNeeds(s) \cup {key},
           CardNeeds(to) \subseteq CardNeeds(s) \cup {key},
           to \notin ActsOnData, \A names : Offers(s, names) => Offers(to, names)
    PROVE  Inv'
<1> DEFINE d == [data EXCEPT !.given = @ \cup {key}]
<1>1. Observed' /\ conv = s
  BY QuietIsObserved DEF Answer, Inv, TypeOK, At
<1>2. /\ Keeps(d) /\ d.given = data.given \cup {key}
      /\ d.named = data.named /\ d.profile_names = data.profile_names /\ d.unlisted = data.unlisted
  BY DEF Inv, TypeOK, Keeps, UserData
<1>3. Answered(s, d) /\ Answered(to, d)
  BY <1>1, <1>2, SameKeys DEF Answered, OffersOwn
<1> HIDE DEF d
<1>4. Replies(to, d)
  BY DEF Answer, d
<1> QED
  BY <1>1, <1>2, <1>3, <1>4, RepliesKeep

LEMMA EndsClean ==
    ASSUME Inv, End, UNCHANGED screen, Observed'
    PROVE  Inv'
<1>1. Cleaned(data) \in UserData /\ Cleaned(data).editing = data.editing
  BY CleanedData DEF Inv, TypeOK
<1> QED
  BY <1>1, Ends DEF End

LEMMA FailsKeeps ==
    ASSUME Inv, NEW s, Fails(s) \/ RouterGone(s)
    PROVE  Inv'
BY EndsClean, QuietIsObserved DEF Fails, RouterGone, Inv, TypeOK

LEMMA LeavesKeeps ==
    ASSUME Inv, NEW s, Leaves(s), selected' \in BOOLEAN
    PROVE  Inv'
BY Ends, QuietIsObserved DEF Leaves, Inv, TypeOK

LEMMA UnchangedKeeps ==
    ASSUME Inv, UNCHANGED <<conv, data, screen, dialogue>>, Observed'
    PROVE  Inv'
BY Stores, SameKeys

-----------------------------------------------------------------------------
(* Profile lists.                                                          *)

LEMMA ListsCached ==
    ASSUME NEW d \in UserData, NEW source \in {"hotspot", "userman"}, NEW router \in BOOLEAN,
           NEW e \in fetch_and_cache_profiles(d, router, source)
    PROVE  /\ e \in UserData
           /\ e.profile_names \in {source, "none"} \/ e.unlisted
           /\ e.given = d.given /\ e.named = d.named
           /\ e.editing = d.editing /\ e.delete_user_id = d.delete_user_id
           /\ e.search_hosts = d.search_hosts /\ e.kick_host_idx = d.kick_host_idx
           /\ e.search_um_hosts = d.search_um_hosts /\ e.kick_um_idx = d.kick_um_idx
<1>1. CASE router
  <2>1. PICK names \in {source, "none"} :
          e = [d EXCEPT !.profile_names = names, !.unlisted = FALSE]
    BY <1>1 DEF fetch_and_cache_profiles, fetch_profiles, get_profiles, get_userman_profiles
  <2> QED
    BY <2>1 DEF UserData
<1>2. CASE ~router
  <2>1. e = [d EXCEPT !.unlisted = TRUE]
    BY <1>2 DEF fetch_and_cache_profiles
  <2> QED
    BY <2>1 DEF UserData
<1> QED
  BY <1>1, <1>2

(* In a state that offers no buttons of another kind.                      *)
LEMMA OffersKeep ==
    ASSUME Inv, NEW s, NEW d, NEW source \in {"hotspot", "userman"}, NEW to \in States,
           OffersProfiles(s, d, source, to), Keeps(d),
           d.named = data.named, data.given \subseteq d.given,
           AddNeeds(to) \subseteq AddNeeds(s) \cup d.given,
           CardNeeds(to) \subseteq CardNeeds(s) \cup d.given,
           to \notin ActsOnData,
           \A names \in {source, "none"} : Offers(s, names) /\ Offers(to, names)
    PROVE  Inv'
<1>1. Observed' /\ conv = s
  BY QuietIsObserved DEF OffersProfiles, At
<1>2. PICK e \in fetch_and_cache_profiles(d, selected', source) : Replies(to, e)
  BY DEF OffersProfiles
<1>3. selected' \in BOOLEAN
  BY DEF OffersProfiles
<1>4. Keeps(e)
  BY <1>3, ListsCached DEF Keeps
<1>5. Answered(s, e) /\ Answered(to, e)
  BY <1>1, <1>3, SameKeys, ListsCached DEF Answered, OffersOwn, Keeps
<1> QED
  BY <1>1, <1>2, <1>4, <1>5, RepliesKeep

LEMMA PicksKeep ==
    ASSUME Inv, NEW s, NEW key, NEW source \in {"hotspot", "userman"}, NEW to \in States,
           PicksProfile(s, key, source, to),
           key \in AddFields \cup HotspotCardFields \cup UserManCardFields,
           \A names \in {"hotspot", "userman"} : Offers(s, names) => names = source,
           AddNeeds(to) \subseteq AddNeeds(s) \cup {key},
           CardNeeds(to) \subseteq CardNeeds(s) \cup {key},
           to \notin ActsOnData, \A names : Offers(to, names)
    PROVE  Inv'
<1> DEFINE d == [data EXCEPT !.given = @ \cup {key}]
<1>1. Observed' /\ conv = s /\ data \in UserData
  BY QuietIsObserved DEF PicksProfile, Inv, TypeOK, At
<1>2. data.profile_names = source \/ data.unlisted
  BY <1>1, SameKeys DEF PicksProfile, resolve_profile_from_callback, Answered, OffersOwn, UserData
<1>3. Replies(to, d)
  BY <1>2 DEF PicksProfile
<1>4. /\ Keeps(d) /\ d.given = data.given \cup {key}
      /\ d.named = data.named /\ d.profile_names = data.profile_names
      /\ d.unlisted = data.unlisted
  BY <1>1 DEF Keeps, UserData
<1>5. Answered(s, d) /\ Answered(to, d)
  BY <1>1, <1>4, SameKeys DEF Answered, OffersOwn
<1> HIDE DEF d
<1> QED
  BY <1>1, <1>3, <1>4, <1>5, RepliesKeep
-----------------------------------------------------------------------------
(* Steps that change what is on the screen.                                *)

LEMMA StartsKeep ==
    ASSUME Inv, NEW to \in States, NEW asFallback, Starts(to, asFallback),
           AddNeeds(to) = {}, CardNeeds(to) = {}, \A names : Offers(to, names)
    PROVE  Inv'
<1> DEFINE d == [Cleaned(data) EXCEPT !.given = {}, !.unlisted = FALSE]
<1>1. Observed' /\ data \in UserData
  BY QuietIsObserved DEF Starts, Inv, TypeOK
<1>2. CASE data' = Cleaned(data) /\ CleanedUnder /\ UNCHANGED <<conv, screen>>
  BY <1>1, <1>2, SameKeys, Cleans
<1>3. CASE /\ conv' = to /\ data' = d
           /\ screen' = [NoScreen EXCEPT !.menu = screen.menu]
           /\ dialogue' = "intact"
  <2>1. /\ d \in UserData /\ d.editing = data.editing
        /\ d.delete_user_id = NoUser /\ d.kick_host_idx = 0 /\ d.kick_um_idx = 0
    BY <1>1, CleanedData DEF UserData
  <2>2. screen'.menu = screen.menu
    BY <1>3 DEF NoScreen
  <2>3. screen' \in [{"confirm", "menu", "detail"} -> Users \cup {NoUser, Unsure}]
    BY <1>3 DEF NoScreen, Inv, TypeOK
  <2> HIDE DEF d
  <2>4. TypeOK'
    BY <1>1, <1>3, <2>1, <2>3 DEF TypeOK, Observed
  <2>5. ConfirmMatches' /\ DetailMatches'
    BY <1>3, <2>1 DEF ConfirmMatches, DetailMatches
  <2>6. MenuMatches'
    BY <1>3, <2>1, <2>2 DEF Inv, MenuMatches
  <2>7. AnswersKept'
    BY <1>3 DEF AnswersKept, Answered, OffersOwn
  <2> QED
    BY <2>4, <2>5, <2>6, <2>7 DEF Inv
<1> QED
  BY <1>2, <1>3 DEF Starts

LEMMA OutsideKeeps ==
    ASSUME Inv, NEW d, Outside(d), d \in {Cleaned(data), NoData}, selected' \in BOOLEAN
    PROVE  Inv'
<1>1. Observed' /\ data \in UserData
  BY QuietIsObserved DEF Outside, Inv, TypeOK
<1>2. CASE d = Cleaned(data)
  BY <1>1, <1>2, SameKeys, Cleans DEF Outside
<1>3. CASE d = NoData
  <2>1. TypeOK'
    BY <1>1, <1>3 DEF Inv, TypeOK, Outside, CleanedUnder, Observed, NoData, UserData
  <2>2. ConfirmMatches' /\ MenuMatches' /\ DetailMatches'
    BY <1>3 DEF ConfirmMatches, MenuMatches, DetailMatches, Outside, NoData
  <2>3. AnswersKept'
    BY <1>3 DEF AnswersKept, Answered, OffersOwn, Offers, Outside, CleanedUnder, NoData, CardNeeds
  <2> QED
    BY <2>1, <2>2, <2>3 DEF Inv
<1> QED
  BY <1>2, <1>3

(* The screen may be of another router: what was shown becomes Unsure.     *)
LEMMA ConnectsKeep ==
    ASSUME Inv, connect_router
    PROVE  Inv'
<1>1. Observed'
  BY DEF connect_router, Quiet, Nothing, Observed
<1>2. DOMAIN screen = {"confirm", "menu", "detail"}
  BY DEF Inv, TypeOK
<1>3. \A kind \in {"confirm", "menu", "detail"} :
        screen'[kind] = IF screen[kind] = NoUser THEN NoUser ELSE Unsure
  BY <1>2 DEF connect_router
<1>4. TypeOK'
  BY <1>1, <1>2 DEF Inv, TypeOK, connect_router, Observed
<1>5. ConfirmMatches' /\ MenuMatches'
  BY <1>3, ScreenAssumption DEF Inv, TypeOK, UserData, ConfirmMatches, MenuMatches, connect_router
<1>6. DetailMatches'
  <2>1. Hosts' = Hosts /\ Rows' = Rows
    BY DEF connect_router, Hosts, Rows
  <2>2. data.kick_host_idx \in 1 .. Len(Hosts) => data.kick_host_idx # 0
    OBVIOUS
  <2>3. data.kick_um_idx \in 1 .. Len(Rows) => data.kick_um_idx # 0
    OBVIOUS
  <2> QED
    BY <1>3, <2>1, <2>2, <2>3, ScreenAssumption DEF Inv, DetailMatches, connect_router
<1>7. AnswersKept'
  BY DEF Inv, AnswersKept, Answered, OffersOwn, connect_router
<1> QED
  BY <1>4, <1>5, <1>6, <1>7 DEF Inv

LEMMA BaseKeeps ==
    ASSUME Inv, BaseNext
    PROVE  Inv'
<1>1. CASE cancel \/ go_back
  BY <1>1, OutsideKeeps DEF cancel, go_back, Inv, TypeOK
<1>2. CASE start
  BY <1>2, OutsideKeeps DEF start, Inv, TypeOK
<1>3. CASE connect_router
  BY <1>3, ConnectsKeep
<1>4. CASE Expire
  BY <1>4, UnchangedKeeps, QuietIsObserved DEF Expire
<1>5. CASE ConversationTimeout
  BY <1>5, Ends, QuietIsObserved DEF ConversationTimeout, Inv, TypeOK
<1>6. CASE HandlerRaises
  BY <1>6, Raises, SameKeys, QuietIsObserved DEF HandlerRaises, Inv, TypeOK
<1> QED
  BY <1>1, <1>2, <1>3, <1>4, <1>5, <1>6 DEF BaseNext
-----------------------------------------------------------------------------
(* The handlers, dialogue by dialogue.                                     *)

(* The places of the add dialogue.                                         *)
AddStates == {"WAITING_USERNAME", "WAITING_PASSWORD", "WAITING_PROFILE", "WAITING_BYTES_TOTAL",
              "WAITING_UPTIME_TYPE", "WAITING_UPTIME_VALUE", "WAITING_COMMENT"}

LEMMA AddPlaces ==
    /\ \A s \in AddStates : s \in States \ ActsOnData /\ CardNeeds(s) = {}
    /\ \A s \in AddStates \ {"WAITING_PROFILE"} : \A names : Offers(s, names)
    /\ \A names : Offers("WAITING_PROFILE", names) <=> names # "userman"
    /\ AddNeeds("WAITING_USERNAME") = {}
    /\ AddNeeds("WAITING_PASSWORD") = {"username"}
    /\ AddNeeds("WAITING_PROFILE") = {"username", "password"}
    /\ AddNeeds("WAITING_BYTES_TOTAL") = {"username", "password", "profile"}
    /\ AddNeeds("WAITING_UPTIME_TYPE") = {"username", "password", "profile", "bytes_total"}
    /\ AddNeeds("WAITING_UPTIME_VALUE") = {"username", "password", "profile", "bytes_total"}
    /\ AddNeeds("WAITING_COMMENT") = AddFields
<1>1. \A s \in AddStates : s \in States \ ActsOnData
  BY DEF AddStates, States, ActsOnData
<1>2. \A s \in AddStates : CardNeeds(s) = {}
  BY DEF AddStates, CardNeeds
<1>3. \A s \in AddStates \ {"WAITING_PROFILE"} : \A names : Offers(s, names)
  BY DEF AddStates, Offers
<1>4. \A names : Offers("WAITING_PROFILE", names) <=> names # "userman"
  BY DEF Offers
<1> QED
  BY <1>1, <1>2, <1>3, <1>4 DEF AddNeeds

LEMMA AddUsernameKeeps ==
    ASSUME Inv, hotspot_add_username
    PROVE  Inv'
<1>1. CASE Fails("WAITING_USERNAME")
  BY <1>1, FailsKeeps
<1>2. CASE /\ At("WAITING_USERNAME")
           /\ Replies("WAITING_PASSWORD",
                      [data EXCEPT !.given = @ \cup {"username"}, !.named = TRUE])
           /\ Quiet
           /\ UNCHANGED selected
  <2> DEFINE d == [data EXCEPT !.given = @ \cup {"username"}, !.named = TRUE]
  <2>1. Observed' /\ conv = "WAITING_USERNAME"
    BY <1>2, QuietIsObserved DEF Inv, TypeOK, At
  <2>2. /\ Keeps(d) /\ d.given = data.given \cup {"username"}
        /\ d.profile_names = data.profile_names /\ d.unlisted = data.unlisted
    BY DEF Inv, TypeOK, Keeps, UserData, AddFields
  <2>3. Answered("WAITING_USERNAME", d) /\ Answered("WAITING_PASSWORD", d)
    BY <2>1, <2>2, SameKeys DEF Answered, OffersOwn, AddNeeds, CardNeeds, Offers
  <2> HIDE DEF d
  <2>4. Replies("WAITING_PASSWORD", d)
    BY <1>2 DEF d
  <2> QED
    BY <2>1, <2>2, <2>3, <2>4, RepliesKeep DEF States, ActsOnData
<1> QED
  BY <1>1, <1>2 DEF hotspot_add_username

LEMMA AddPasswordKeeps ==
    ASSUME Inv, hotspot_add_password
    PROVE  Inv'
<1> DEFINE d == [data EXCEPT !.given = @ \cup {"password"}]
<1>1. /\ Keeps(d) /\ d.given = data.given \cup {"password"}
      /\ d.named = data.named
  BY DEF Inv, TypeOK, Keeps, UserData, AddFields
<1> HIDE DEF d
<1>2. ASSUME OffersProfiles("WAITING_PASSWORD", d, "hotspot", "WAITING_PROFILE")
      PROVE  Inv'
  <2> DEFINE s == "WAITING_PASSWORD"
             to == "WAITING_PROFILE"
  <2>1. to \in States /\ to \notin ActsOnData /\ CardNeeds(to) = {}
    BY AddPlaces DEF AddStates
  <2>2. AddNeeds(to) \subseteq AddNeeds(s) \cup d.given
    BY <1>1, AddPlaces
  <2>3. \A names \in {"hotspot", "none"} : Offers(s, names) /\ Offers(to, names)
    BY AddPlaces DEF AddStates
  <2>4. OffersProfiles(s, d, "hotspot", to)
    BY <1>2
  <2> HIDE DEF s, to
  <2> QED
    BY <1>1, <2>1, <2>2, <2>3, <2>4, OffersKeep
<1> QED
  BY <1>2, FailsKeeps DEF hotspot_add_password, d

LEMMA AddQuestionsKeep ==
    ASSUME Inv,
           \/ hotspot_add_profile \/ hotspot_add_profile_selected
           \/ hotspot_add_bytes \/ skip_bytes
           \/ hotspot_add_uptime_type
           \/ hotspot_add_uptime_value \/ skip_uptime
    PROVE  Inv'
<1> USE AddPlaces DEF AddStates, AddFields
<1>1. CASE hotspot_add_profile
  BY <1>1, Answers DEF hotspot_add_profile
<1>2. CASE hotspot_add_profile_selected
  <2>1. CASE PicksProfile("WAITING_PROFILE", "profile", "hotspot", "WAITING_BYTES_TOTAL")
    <3>1. \A names \in {"hotspot", "userman"} :
             Offers("WAITING_PROFILE", names) => names = "hotspot"
      OBVIOUS
    <3> QED
      BY <2>1, <3>1, PicksKeep
  <2> QED
    BY <1>2, <2>1, FailsKeeps DEF hotspot_add_profile_selected
<1>3. CASE hotspot_add_bytes \/ skip_bytes
  BY <1>3, Answers DEF hotspot_add_bytes, skip_bytes
<1>4. CASE hotspot_add_uptime_type
  BY <1>4, Answers, BackSteps DEF hotspot_add_uptime_type
<1>5. CASE hotspot_add_uptime_value \/ skip_uptime
  BY <1>5, Answers DEF hotspot_add_uptime_value, skip_uptime
<1> QED
  BY <1>1, <1>2, <1>3, <1>4, <1>5

LEMMA AddBackKeeps ==
    ASSUME Inv,
           \/ add_back_to_username \/ add_back_to_password \/ add_back_to_profile
           \/ add_back_to_bytes \/ add_back_to_uptime_from_comment
    PROVE  Inv'
<1> USE AddPlaces DEF AddStates, AddFields
<1>1. CASE add_back_to_username
  BY <1>1, BackSteps DEF add_back_to_username
<1>2. CASE add_back_to_password
  BY <1>2, BackSteps DEF add_back_to_password
<1>3. CASE add_back_to_profile
  BY <1>3, OffersKeep, FailsKeeps, SameKeys DEF add_back_to_profile
<1>4. CASE add_back_to_bytes
  BY <1>4, BackSteps DEF add_back_to_bytes
<1>5. CASE add_back_to_uptime_from_comment
  BY <1>5, BackSteps DEF add_back_to_uptime_from_comment
<1> QED
  BY <1>1, <1>2, <1>3, <1>4, <1>5

LEMMA AddCommentKeeps ==
    ASSUME Inv, hotspot_add_comment
    PROVE  Inv'
<1>1. CASE (~data.named /\ Fails("WAITING_COMMENT")) \/ RouterGone("WAITING_COMMENT")
  BY <1>1, FailsKeeps
<1>2. CASE /\ execute_add_user
           /\ UNCHANGED <<selected, screen>>
           /\ error_handler(data) \/ End
  <2>1. Observed'
    BY <1>2, CallIsObserved DEF execute_add_user, Inv, TypeOK
  <2> QED
    BY <1>2, <2>1, Raises, SameKeys, EndsClean
<1>3. CASE /\ execute_add_user
           /\ UNCHANGED <<selected, screen, dialogue>>
           /\ conv' = "WAITING_USERNAME"
           /\ \/ data' = [Cleaned(data) EXCEPT !.given = {}]
              \/ data' = [data EXCEPT !.given = {}, !.named = FALSE]
  <2>1. Observed'
    BY <1>3, CallIsObserved DEF execute_add_user, Inv, TypeOK
  <2>2. data' \in UserData /\ data'.editing = data.editing
    <3>1. data \in UserData /\ Cleaned(data) \in UserData /\ Cleaned(data).editing = data.editing
      BY CleanedData DEF Inv, TypeOK
    <3>2. CASE data' = [Cleaned(data) EXCEPT !.given = {}]
      BY <3>1, <3>2 DEF UserData
    <3>3. CASE data' = [data EXCEPT !.given = {}, !.named = FALSE]
      BY <3>1, <3>3 DEF UserData
    <3> QED
      BY <1>3, <3>2, <3>3
  <2>3. TypeOK'
    BY <1>3, <2>1, <2>2 DEF Inv, TypeOK, Observed, States
  <2>4. ConfirmMatches' /\ MenuMatches' /\ DetailMatches'
    BY <1>3, <2>2 DEF Inv, ConfirmMatches, MenuMatches, DetailMatches
  <2>5. AnswersKept'
    BY <1>3 DEF AnswersKept, Answered, OffersOwn, AddNeeds, CardNeeds, Offers
  <2> QED
    BY <2>3, <2>4, <2>5 DEF Inv
<1> QED
  BY <1>1, <1>2, <1>3 DEF hotspot_add_comment

LEMMA AddKeeps ==
    ASSUME Inv, AddNext
    PROVE  Inv'
<1>1. CASE hotspot_add_start
  BY <1>1, StartsKeep, AddPlaces DEF hotspot_add_start, AddStates
<1> QED
  BY <1>1, AddUsernameKeeps, AddPasswordKeeps, AddQuestionsKeep, AddBackKeeps, AddCommentKeeps
     DEF AddNext, skip_password, skip_comment
-----------------------------------------------------------------------------
(* States without needs of their own: back buttons and pages within them.  *)
FreeStates == {"END", "WAITING_DELETE_ID", "WAITING_DELETE_SELECT", "WAITING_INPUT",
               "WAITING_EDIT_FIELD", "WAITING_EDIT_VALUE",
               "WAITING_HOTSPOT_SEARCH", "WAITING_USERMAN_SEARCH",
               "WAITING_HOTSPOT_CARD_COUNT", "WAITING_CARD_TYPE",
               "WAITING_USAGE_QUERY", "WAITING_PDF_VALUE", "WAITING_BATCHES_SEARCH",
               "WAITING_SHARE_RECIPIENT", "WAITING_SCHEDULE_TIME"}

LEMMA FreePlaces ==
    /\ \A s \in FreeStates : s \in States /\ AddNeeds(s) = {} /\ CardNeeds(s) = {}
    /\ \A s \in FreeStates : \A names : Offers(s, names)
    /\ \A s \in FreeStates : \A d : Answered(s, d)
<1>1. \A s \in FreeStates : s \in States
  BY DEF FreeStates, States
<1>2. \A s \in FreeStates : AddNeeds(s) = {} /\ CardNeeds(s) = {}
  BY DEF FreeStates, AddNeeds, CardNeeds
<1>3. \A s \in FreeStates : \A names : Offers(s, names)
  BY DEF FreeStates, Offers
<1> QED
  BY <1>1, <1>2, <1>3 DEF Answered, OffersOwn

LEMMA FreeBackSteps ==
    ASSUME Inv, NEW s \in FreeStates, NEW to \in FreeStates, make_back_step(s, to),
           to = s \/ to \notin ActsOnData
    PROVE  Inv'
BY BackSteps, FreePlaces

(* A reply that changes neither data nor screen.                           *)
LEMMA FreeReplies ==
    ASSUME Inv, NEW to \in FreeStates, Replies(to, data), Observed',
           to = conv \/ to \notin ActsOnData
    PROVE  Inv'
BY RepliesKeep, SameKeys, FreePlaces

-----------------------------------------------------------------------------
LEMMA AsksKeeps ==
    ASSUME Inv, NEW s \in FreeStates \ {"WAITING_INPUT"}, NEW u \in Users, AsksConfirmation(s, u)
    PROVE  Inv'
<1> DEFINE d == [data EXCEPT !.delete_user_id = u]
<1>1. Observed' /\ conv = s
  BY QuietIsObserved DEF AsksConfirmation, Inv, TypeOK, At
<1>2. /\ d \in UserData /\ d.editing = data.editing /\ d.delete_user_id = u
      /\ d.search_hosts = data.search_hosts /\ d.kick_host_idx = data.kick_host_idx
      /\ d.search_um_hosts = data.search_um_hosts /\ d.kick_um_idx = data.kick_um_idx
  BY DEF Inv, TypeOK, UserData
<1> HIDE DEF d
<1>3. RepliesOr("WAITING_INPUT", d, Shown("confirm", u), screen)
  BY DEF AsksConfirmation, d
<1>4. CASE conv' = "WAITING_INPUT" /\ data' = d /\ screen' = Shown("confirm", u)
           /\ UNCHANGED dialogue
  <2>1. screen'.confirm = u /\ screen'.menu = screen.menu
    BY <1>4 DEF Shown, Inv, TypeOK
  <2>2. TypeOK'
    BY <1>1, <1>2, <1>4 DEF Inv, TypeOK, Observed, Shown, States
  <2>3. ConfirmMatches' /\ MenuMatches' /\ DetailMatches'
    BY <1>2, <1>4, <2>1 DEF Inv, ConfirmMatches, MenuMatches, DetailMatches
  <2>4. AnswersKept'
    BY <1>4 DEF AnswersKept, Answered, OffersOwn, AddNeeds, CardNeeds, Offers
  <2> QED
    BY <2>2, <2>3, <2>4 DEF Inv
<1>5. CASE UNCHANGED <<conv, screen>> /\ data' = d /\ UNCHANGED dialogue
  <2>1. TypeOK'
    BY <1>1, <1>2, <1>5 DEF Inv, TypeOK, Observed
  <2>2. ConfirmMatches' /\ MenuMatches' /\ DetailMatches'
    <3>1. Hosts' = Hosts /\ Rows' = Rows
      BY <1>2, <1>5 DEF Hosts, Rows
    <3> QED
      BY <1>1, <1>2, <1>5, <3>1 DEF Inv, ConfirmMatches, MenuMatches, DetailMatches
  <2>3. AnswersKept'
    BY <1>1, <1>5, FreePlaces DEF Inv, AnswersKept, Answered, OffersOwn
  <2> QED
    BY <2>1, <2>2, <2>3 DEF Inv
<1>6. CASE UNCHANGED <<conv, screen>> /\ data' = Cleaned(d) /\ CleanedUnder
  BY <1>1, <1>2, <1>6, Cleans, FreePlaces
<1> QED
  BY <1>3, <1>4, <1>5, <1>6 DEF RepliesOr, error_handler

LEMMA DeleteKeeps ==
    ASSUME Inv, DeleteNext
    PROVE  Inv'
<1> USE DEF FreeStates
<1>1. CASE hotspot_delete_start
  BY <1>1, StartsKeep, FreePlaces DEF hotspot_delete_start
<1>2. CASE hotspot_delete_search
  BY <1>2, AsksKeeps, FreeBackSteps, FailsKeeps DEF hotspot_delete_search, ActsOnData
<1>3. ASSUME NEW u \in Users, hotspot_delete_select(u)
      PROVE  Inv'
  BY <1>3, AsksKeeps, FailsKeeps DEF hotspot_delete_select
<1>4. CASE confirm_callback
  <2>1. CASE /\ data.delete_user_id # NoUser
             /\ Calls("delete", data.delete_user_id)
             /\ End \/ error_handler(data)
             /\ UNCHANGED <<selected, screen>>
    <3>1. Observed'
      BY <2>1, CallIsObserved DEF Inv, TypeOK, UserData
    <3> QED
      BY <2>1, <3>1, EndsClean, Raises, SameKeys
  <2> QED
    BY <1>4, <2>1, FailsKeeps DEF confirm_callback
<1>5. CASE handle_page_callback("WAITING_DELETE_SELECT")
  BY <1>5, FreeBackSteps DEF handle_page_callback
<1> QED
  BY <1>1, <1>2, <1>3, <1>4, <1>5 DEF DeleteNext
-----------------------------------------------------------------------------
(* The menu of an account is shown, or the reply raises.                   *)
LEMMA MenuKeeps ==
    ASSUME Inv, NEW u \in Users, NEW d \in UserData, NEW s,
           conv \in {"WAITING_EDIT_FIELD", "WAITING_EDIT_VALUE"},
           d.editing = u,
           s = Shown("menu", Unsure) \/ (s = screen /\ u = data.editing),
           RepliesOr("WAITING_EDIT_VALUE", d, Shown("menu", u), s), Observed'
    PROVE  Inv'
<1>1. /\ Shown("menu", u).menu = u
      /\ Shown("menu", u) \in [{"confirm", "menu", "detail"} -> Users \cup {NoUser, Unsure}]
  BY DEF Shown, Inv, TypeOK
<1>2. /\ s.menu \in {u, Unsure}
      /\ s \in [{"confirm", "menu", "detail"} -> Users \cup {NoUser, Unsure}]
  BY ScreenAssumption DEF Shown, Inv, TypeOK, MenuMatches
<1>3. /\ conv' \in {"WAITING_EDIT_FIELD", "WAITING_EDIT_VALUE"}
      /\ data' \in {d, Cleaned(d)}
      /\ screen' \in {Shown("menu", u), s}
      /\ dialogue' \in {dialogue, "cleaned"}
  BY DEF RepliesOr, error_handler, CleanedUnder
<1>4. data' \in UserData /\ data'.editing = u
  BY <1>3, CleanedData
<1>5. TypeOK'
  BY <1>1, <1>2, <1>3, <1>4 DEF Inv, TypeOK, Observed, States
<1>6. ConfirmMatches' /\ DetailMatches' /\ MenuMatches'
  BY <1>1, <1>2, <1>3, <1>4 DEF ConfirmMatches, DetailMatches, MenuMatches
<1>7. AnswersKept'
  BY <1>3 DEF AnswersKept, Answered, OffersOwn, AddNeeds, CardNeeds, Offers
<1> QED
  BY <1>5, <1>6, <1>7 DEF Inv

LEMMA ShowsKeeps ==
    ASSUME Inv, NEW s \in {"WAITING_EDIT_FIELD", "WAITING_EDIT_VALUE"}, NEW u \in Users,
           ShowsMenu(s, u)
    PROVE  Inv'
<1> DEFINE d == [data EXCEPT !.editing = u]
<1>1. Observed' /\ conv = s
  BY QuietIsObserved DEF ShowsMenu, Inv, TypeOK, At
<1>2. d \in UserData /\ d.editing = u
  BY DEF Inv, TypeOK, UserData
<1> HIDE DEF d
<1>3. RepliesOr("WAITING_EDIT_VALUE", d, Shown("menu", u), Shown("menu", Unsure))
  BY DEF ShowsMenu, d
<1> QED
  BY <1>1, <1>2, <1>3, MenuKeeps

LEMMA EditedIsUser ==
    ASSUME Inv, data.editing # NoUser
    PROVE  data.editing \in Users /\ data \in UserData
BY DEF Inv, TypeOK, UserData

LEMMA ChangesKeep ==
    ASSUME Inv, NEW op, Changes(op)
    PROVE  Inv'
<1>1. data.editing \in Users /\ data \in UserData
  BY EditedIsUser DEF Changes
<1>2. Observed'
  BY <1>1, CallIsObserved DEF Changes, Inv, TypeOK
<1> QED
  BY <1>1, <1>2, MenuKeeps DEF Changes, At

LEMMA EditFieldKeeps ==
    ASSUME Inv, hotspot_edit_field
    PROVE  Inv'
<1> DEFINE d == [data EXCEPT !.field = TRUE]
<1>1. /\ Keeps(d) /\ d.given = data.given /\ d.named = data.named
      /\ d.profile_names = data.profile_names /\ d.unlisted = data.unlisted
  BY DEF Inv, TypeOK, Keeps, UserData
<1> HIDE DEF d
<1>2. CASE /\ At("WAITING_EDIT_VALUE")
           /\ Replies("WAITING_EDIT_VALUE", d)
           /\ \/ Quiet
              \/ data.editing # NoUser /\ Calls("toggle", data.editing)
           /\ UNCHANGED selected
  <2>1. Observed'
    BY <1>2, QuietIsObserved, CallIsObserved, EditedIsUser DEF Inv, TypeOK
  <2>2. conv = "WAITING_EDIT_VALUE"
    BY <1>2 DEF At
  <2> DEFINE to == "WAITING_EDIT_VALUE"
  <2>3. to \in States /\ to \notin ActsOnData
    BY DEF States, ActsOnData
  <2>4. Answered(conv, d) /\ Answered(to, d)
    BY <2>2, FreePlaces DEF FreeStates
  <2>5. Replies(to, d) /\ Keeps(d)
    BY <1>1, <1>2
  <2> HIDE DEF to
  <2> QED
    BY <2>1, <2>3, <2>4, <2>5, RepliesKeep
<1>3. CASE OffersProfiles("WAITING_EDIT_VALUE", d, "hotspot", "WAITING_EDIT_VALUE")
  <2> DEFINE s == "WAITING_EDIT_VALUE"
  <2>1. s \in States /\ s \notin ActsOnData
    BY DEF States, ActsOnData
  <2>2. AddNeeds(s) = {} /\ CardNeeds(s) = {} /\ \A names : Offers(s, names)
    BY FreePlaces DEF FreeStates
  <2>3. OffersProfiles(s, d, "hotspot", s)
    BY <1>3
  <2>4. d.named = data.named /\ data.given \subseteq d.given
    BY <1>1
  <2> HIDE DEF s
  <2> QED
    BY <1>1, <2>1, <2>2, <2>3, <2>4, OffersKeep
<1>4. CASE NotEditable
  BY <1>4, FailsKeeps DEF NotEditable
<1> QED
  BY <1>2, <1>3, <1>4 DEF hotspot_edit_field, d

LEMMA EditKickKeeps ==
    ASSUME Inv, hotspot_edit_kick
    PROVE  Inv'
<1>1. CASE /\ At("WAITING_EDIT_VALUE")
           /\ data.editing # NoUser
           /\ RepliesOr("WAITING_EDIT_VALUE", data, Shown("menu", data.editing), screen)
           /\ kick_user(data.editing)
           /\ UNCHANGED selected
  <2>1. data.editing \in Users /\ data \in UserData
    BY <1>1, EditedIsUser
  <2>2. Observed'
    BY <1>1, <2>1, QuietIsObserved, CallIsObserved DEF kick_user, Inv, TypeOK
  <2> QED
    BY <1>1, <2>1, <2>2, MenuKeeps DEF At
<1> QED
  BY <1>1, FreeBackSteps DEF hotspot_edit_kick, FreeStates

LEMMA EditBackKeeps ==
    ASSUME Inv, edit_back_to_fields
    PROVE  Inv'
<1>1. Observed' /\ conv = "WAITING_EDIT_VALUE"
  BY QuietIsObserved DEF edit_back_to_fields, Inv, TypeOK, At
<1>2. CASE data.editing # NoUser
  BY <1>1, <1>2, EditedIsUser, MenuKeeps DEF edit_back_to_fields
<1>3. CASE data.editing = NoUser
  BY <1>1, <1>3, FreeReplies DEF edit_back_to_fields, FreeStates, ActsOnData
<1> QED
  BY <1>2, <1>3

LEMMA EditKeeps ==
    ASSUME Inv, EditNext
    PROVE  Inv'
<1> USE DEF FreeStates, ActsOnData
<1>1. CASE hotspot_edit_start
  BY <1>1, StartsKeep, FreePlaces DEF hotspot_edit_start
<1>2. CASE hotspot_edit_search
  BY <1>2, ShowsKeeps, FreeBackSteps, FailsKeeps DEF hotspot_edit_search, ListsResults
<1>3. ASSUME NEW u \in Users, hotspot_edit_select(u)
      PROVE  Inv'
  BY <1>3, ShowsKeeps, FailsKeeps DEF hotspot_edit_select
<1>4. CASE hotspot_edit_reset
  BY <1>4, ChangesKeep, FailsKeeps DEF hotspot_edit_reset, NotEditable
<1>5. CASE hotspot_edit_kick \/ hotspot_edit_field
  BY <1>5, EditKickKeeps, EditFieldKeeps
<1>6. CASE edit_profile_selected
  BY <1>6, ChangesKeep, FreeBackSteps, FailsKeeps DEF edit_profile_selected, NotEditable
<1>7. CASE edit_back_to_fields \/ edit_back_search
  BY <1>7, EditBackKeeps, FreeBackSteps DEF edit_back_search
<1>8. CASE hotspot_edit_value
  BY <1>8, ChangesKeep, FreeBackSteps, FailsKeeps
     DEF hotspot_edit_value, _validate_edit_field, NotEditable
<1>9. CASE handle_page_callback("WAITING_EDIT_VALUE")
  BY <1>9, FreeBackSteps DEF handle_page_callback
<1> QED
  BY <1>1, <1>2, <1>3, <1>4, <1>5, <1>6, <1>7, <1>8, <1>9 DEF EditNext
-----------------------------------------------------------------------------
(* The search screens: what is left to show is that index and detail agree.*)
Searches == {"WAITING_HOTSPOT_SEARCH", "WAITING_USERMAN_SEARCH"}

LEMMA DetailKeeps ==
    ASSUME Inv, conv \in Searches, UNCHANGED conv,
           data' \in UserData, data'.editing = data.editing,
           screen' \in [{"confirm", "menu", "detail"} -> Users \cup {NoUser, Unsure}],
           screen'.menu = screen.menu,
           dialogue' \in {dialogue, "cleaned"}, DetailMatches', Observed'
    PROVE  Inv'
<1>1. TypeOK'
  BY DEF Inv, TypeOK, Observed
<1>2. ConfirmMatches' /\ MenuMatches'
  BY DEF Inv, ConfirmMatches, MenuMatches, Searches
<1>3. AnswersKept'
  BY DEF AnswersKept, Answered, OffersOwn, AddNeeds, CardNeeds, Offers, Searches
<1> QED
  BY <1>1, <1>2, <1>3 DEF Inv

(* A handler of a search that stores d and replies; s and t are what the   *)
(* screen is when the reply arrives and when it raises.                    *)
LEMMA SearchReplies ==
    ASSUME Inv, conv \in Searches, NEW d \in UserData, d.editing = data.editing,
           NEW s, NEW t, RepliesOr(conv, d, s, t), Observed',
           \A x \in {s, t} :
               /\ x \in [{"confirm", "menu", "detail"} -> Users \cup {NoUser, Unsure}]
               /\ x.menu = screen.menu
               /\ data' = d /\ screen' = x => DetailMatches'
    PROVE  Inv'
<1>1. /\ data' \in {d, Cleaned(d)} /\ screen' \in {s, t}
      /\ UNCHANGED conv /\ dialogue' \in {dialogue, "cleaned"}
  BY DEF RepliesOr, error_handler, CleanedUnder
<1>2. data' \in UserData /\ data'.editing = data.editing
  BY <1>1, CleanedData
<1>3. CASE data' = d
  BY <1>1, <1>2, <1>3, DetailKeeps
<1>4. CASE data' = Cleaned(d)
  <2>1. DetailMatches'
    BY <1>4, CleanedData DEF DetailMatches
  <2> QED
    BY <1>1, <1>2, <2>1, DetailKeeps
<1> QED
  BY <1>1, <1>3, <1>4

(* Only the open row is forgotten, or the list with it.                    *)
LEMMA IndexForgotten ==
    ASSUME Inv, conv \in Searches, NEW d \in UserData, d.editing = data.editing,
           conv = "WAITING_HOTSPOT_SEARCH" => d.kick_host_idx = 0,
           conv = "WAITING_USERMAN_SEARCH" => d.kick_um_idx = 0,
           Replies(conv, d), Observed'
    PROVE  Inv'
<1>1. screen \in [{"confirm", "menu", "detail"} -> Users \cup {NoUser, Unsure}]
  BY DEF Inv, TypeOK
<1>2. UNCHANGED conv
  BY DEF Replies, RepliesOr, error_handler
<1>3. data' = d => DetailMatches'
  BY <1>2 DEF DetailMatches, Searches
<1> QED
  BY <1>1, <1>3, SearchReplies DEF Replies

LEMMA ResultRow ==
    ASSUME NEW r \in Results, NEW i \in 1 .. Len(r)
    PROVE  r[i] \in Users
<1>1. CASE r = <<>>
  BY <1>1
<1>2. CASE \E u \in Users : r = <<u>>
  BY <1>2
<1>3. CASE r \in Users \X Users
  <2>1. PICK u \in Users, v \in Users : r = <<u, v>>
    BY <1>3
  <2>2. Len(r) = 2 /\ r[1] = u /\ r[2] = v
    BY <2>1
  <2>3. i = 1 \/ i = 2
    BY <2>2
  <2> QED
    BY <2>2, <2>3
<1> QED
  BY <1>1, <1>2, <1>3 DEF Results

LEMMA HostRow ==
    ASSUME Inv, NEW i \in 1 .. Len(Hosts)
    PROVE  Hosts[i] \in Users
<1>1. Hosts \in Results
  BY DEF Inv, TypeOK, UserData, Hosts, Results
<1> QED
  BY <1>1, ResultRow

LEMMA HostQueryKeeps ==
    ASSUME Inv, hotspot_search_query
    PROVE  Inv'
<1>1. ASSUME At("WAITING_HOTSPOT_SEARCH"), Quiet, UNCHANGED selected, NEW r \in Results,
             RepliesOr("WAITING_HOTSPOT_SEARCH", [data EXCEPT !.search_hosts = r],
                       Requeried, Requeried)
      PROVE  Inv'
  <2> DEFINE d == [data EXCEPT !.search_hosts = r]
  <2>1. Observed' /\ conv = "WAITING_HOTSPOT_SEARCH" /\ conv \in Searches
    BY <1>1, QuietIsObserved DEF Inv, TypeOK, At, Searches
  <2>2. d \in UserData /\ d.editing = data.editing /\ d.kick_host_idx = data.kick_host_idx
    BY DEF Inv, TypeOK, UserData
  <2>3. /\ Requeried \in [{"confirm", "menu", "detail"} -> Users \cup {NoUser, Unsure}]
        /\ Requeried.menu = screen.menu
        /\ Requeried.detail = IF screen.detail = NoUser THEN NoUser ELSE Unsure
    BY DEF Requeried, Inv, TypeOK
  <2> HIDE DEF d
  <2>4. UNCHANGED conv
    BY <1>1, <2>1 DEF RepliesOr, error_handler
  <2>5. data' = d /\ screen' = Requeried => DetailMatches'
    <3>1. data.kick_host_idx # 0 => screen.detail # NoUser
      BY <2>1 DEF Inv, DetailMatches
    <3>2. \A n : data.kick_host_idx \in 1 .. n => data.kick_host_idx # 0
      OBVIOUS
    <3> QED
      BY <2>1, <2>2, <2>3, <2>4, <3>1, <3>2, ScreenAssumption DEF DetailMatches
  <2>6. RepliesOr(conv, d, Requeried, Requeried)
    BY <1>1, <2>1 DEF d
  <2> QED
    BY <2>1, <2>2, <2>3, <2>5, <2>6, SearchReplies
<1> QED
  BY <1>1, FailsKeeps DEF hotspot_search_query, Found

LEMMA ShowHostKeeps ==
    ASSUME Inv, NEW i \in 1 .. 2, hotspot_show_host(i)
    PROVE  Inv'
<1>1. CASE /\ At("WAITING_HOTSPOT_SEARCH")
           /\ i <= Len(Hosts)
           /\ data' = [data EXCEPT !.kick_host_idx = i]
           /\ screen' = Shown("detail", Hosts[i])
           /\ Quiet
           /\ UNCHANGED <<selected, conv, dialogue>>
  <2>1. Observed' /\ conv = "WAITING_HOTSPOT_SEARCH" /\ conv \in Searches
    BY <1>1, QuietIsObserved DEF Inv, TypeOK, At, Searches
  <2>2. /\ data' \in UserData /\ data'.editing = data.editing /\ data'.kick_host_idx = i
        /\ data'.search_hosts = data.search_hosts
    BY <1>1 DEF Inv, TypeOK, UserData
  <2>3. Hosts' = Hosts
    BY <2>2 DEF Hosts
  <2>4. Hosts \in Results
    BY DEF Inv, TypeOK, UserData, Hosts, Results
  <2>5. Hosts[i] \in Users
    <3>1. Len(Hosts) \in Nat
      BY <2>4 DEF Results
    <3> QED
      BY <1>1, <3>1, HostRow
  <2>6. /\ screen' \in [{"confirm", "menu", "detail"} -> Users \cup {NoUser, Unsure}]
        /\ screen'.menu = screen.menu /\ screen'.detail = Hosts[i]
    BY <1>1, <2>5 DEF Shown, Inv, TypeOK
  <2>7. DetailMatches'
    BY <1>1, <2>1, <2>2, <2>3, <2>5, <2>6, ScreenAssumption DEF DetailMatches
  <2> QED
    BY <1>1, <2>1, <2>2, <2>6, <2>7, DetailKeeps
<1> QED
  BY <1>1, FailsKeeps DEF hotspot_show_host

LEMMA HostBackKeeps ==
    ASSUME Inv, hotspot_search_back
    PROVE  Inv'
<1>1. Observed' /\ conv = "WAITING_HOTSPOT_SEARCH" /\ data \in UserData
  BY QuietIsObserved DEF hotspot_search_back, Inv, TypeOK, At
<1>2. PICK d : /\ Replies("WAITING_HOTSPOT_SEARCH", d)
               /\ \/ d = data
                  \/ d = [data EXCEPT !.kick_host_idx = 0]
                  \/ d = [data EXCEPT !.search_hosts = NoList] /\ data.kick_host_idx = 0
  BY DEF hotspot_search_back
<1>3. CASE d = data
  BY <1>1, <1>2, <1>3, FreeReplies DEF FreeStates
<1>4. CASE d # data
  <2>1. d \in UserData /\ d.editing = data.editing /\ d.kick_host_idx = 0
    BY <1>1, <1>2, <1>4 DEF UserData
  <2> QED
    BY <1>1, <1>2, <2>1, IndexForgotten DEF Searches
<1> QED
  BY <1>3, <1>4

LEMMA SearchKeeps ==
    ASSUME Inv, SearchNext
    PROVE  Inv'
<1> USE DEF FreeStates, ActsOnData
<1>1. CASE hotspot_search_start
  BY <1>1, StartsKeep, FreePlaces DEF hotspot_search_start
<1>2. CASE hotspot_search_query \/ (\E i \in 1 .. 2 : hotspot_show_host(i))
  BY <1>2, HostQueryKeeps, ShowHostKeeps
<1>3. CASE hotspot_search_page_handler
  BY <1>3, FreeBackSteps DEF hotspot_search_page_handler
<1>4. CASE hotspot_host_action
  <2>1. CASE /\ data.kick_host_idx \in 1 .. Len(Hosts)
             /\ kick_host(Hosts[data.kick_host_idx])
             /\ End
             /\ UNCHANGED <<selected, screen>>
    <3>1. Observed'
      BY <2>1, HostRow, QuietIsObserved, CallIsObserved DEF kick_host, Inv, TypeOK
    <3> QED
      BY <2>1, <3>1, EndsClean
  <2> QED
    BY <1>4, <2>1, FailsKeeps DEF hotspot_host_action
<1>5. CASE hotspot_search_back
  BY <1>5, HostBackKeeps
<1>6. CASE block_mac_handler
  <2>1. CASE block_mac /\ (End \/ error_handler(data)) /\ UNCHANGED <<selected, screen>>
    <3>1. Observed'
      BY <2>1, QuietIsObserved, CallIsObserved DEF block_mac, Inv, TypeOK
    <3> QED
      BY <2>1, <3>1, EndsClean, Raises, SameKeys
  <2> QED
    BY <1>6, <2>1, LeavesKeeps DEF block_mac_handler
<1>7. CASE unblock_mac_handler
  <2>1. Observed' /\ UNCHANGED <<conv, data, screen, dialogue>>
    BY <1>7, QuietIsObserved, CallIsObserved DEF unblock_mac_handler, unblock_mac, Inv, TypeOK
  <2> QED
    BY <2>1, UnchangedKeeps
<1>8. CASE show_blocked_list
  BY <1>8, FreeBackSteps, FailsKeeps DEF show_blocked_list
<1> QED
  BY <1>1, <1>2, <1>3, <1>4, <1>5, <1>6, <1>7, <1>8 DEF SearchNext
-----------------------------------------------------------------------------
LEMMA RowsAreResults ==
    ASSUME Inv
    PROVE  Rows \in Results /\ Len(Rows) \in Nat /\ \A i \in 1 .. Len(Rows) : Rows[i] \in Users
<1>1. Rows \in Results
  BY DEF Inv, TypeOK, UserData, Rows, Results
<1>2. Len(Rows) \in Nat
  BY <1>1 DEF Results
<1> QED
  BY <1>1, <1>2, ResultRow

LEMMA OneRow ==
    ASSUME NEW u \in Users, NEW r \in Seq(Users), Len(r) = 1, r[1] = u
    PROVE  r = <<u>>
<1> DEFINE one == <<u>>
<1>1. one \in Seq(Users) /\ Len(one) = 1 /\ one[1] = u
  OBVIOUS
<1> HIDE DEF one
<1>2. r = one
  BY <1>1, SeqEqual
<1> QED
  BY <1>2 DEF one

(* The list without the row that was deleted.                              *)
LEMMA RowRemoved ==
    ASSUME NEW r \in Results, NEW i \in 1 .. Len(r)
    PROVE  RemoveAt(r, i) \in Results
<1>1. CASE r = <<>>
  BY <1>1
<1>2. CASE \E u \in Users : r = <<u>>
  <2>1. PICK u \in Users : r = <<u>>
    BY <1>2
  <2>2. i = 1
    BY <2>1
  <2>3. RemoveAt(<<u>>, 1) = <<>>
    BY DEF RemoveAt
  <2> QED
    BY <2>1, <2>2, <2>3 DEF Results
<1>3. CASE r \in Users \X Users
  <2>1. PICK u \in Users, v \in Users : r = <<u, v>>
    BY <1>3
  <2>2. i = 1 \/ i = 2
    BY <2>1
  <2>3. r \in Seq(Users) /\ Len(r) = 2 /\ r[1] = u /\ r[2] = v
    BY <2>1
  <2>4. RemoveAt(r, 1) = <<v>>
    <3>1. RemoveAt(r, 1) = SubSeq(r, 1, 0) \o SubSeq(r, 2, 2)
      BY <2>3 DEF RemoveAt
    <3>2. SubSeq(r, 1, 0) = <<>>
      BY SubSeqEmpty
    <3>3. SubSeq(r, 2, 2) \in Seq(Users) /\ Len(SubSeq(r, 2, 2)) = 1 /\ SubSeq(r, 2, 2)[1] = v
      BY <2>3, SubSeqProperties
    <3>4. SubSeq(r, 2, 2) = <<v>>
      BY <3>3, OneRow
    <3>5. <<>> \o <<v>> = <<v>>
      OBVIOUS
    <3> QED
      BY <3>1, <3>2, <3>4, <3>5
  <2>5. RemoveAt(r, 2) = <<u>>
    <3>1. RemoveAt(r, 2) = SubSeq(r, 1, 1) \o SubSeq(r, 3, 2)
      BY <2>3 DEF RemoveAt
    <3>2. SubSeq(r, 3, 2) = <<>>
      BY SubSeqEmpty
    <3>3. SubSeq(r, 1, 1) \in Seq(Users) /\ Len(SubSeq(r, 1, 1)) = 1 /\ SubSeq(r, 1, 1)[1] = u
      BY <2>3, SubSeqProperties
    <3>4. SubSeq(r, 1, 1) = <<u>>
      BY <3>3, OneRow
    <3>5. <<u>> \o <<>> = <<u>>
      OBVIOUS
    <3> QED
      BY <3>1, <3>2, <3>4, <3>5
  <2> QED
    BY <2>2, <2>4, <2>5 DEF Results
<1> QED
  BY <1>1, <1>2, <1>3 DEF Results

LEMMA RowsQueryKeeps ==
    ASSUME Inv, userman_search_query
    PROVE  Inv'
<1>1. ASSUME At(S), Quiet, UNCHANGED selected, NEW r \in Results,
             RepliesOr(S, [data EXCEPT !.search_um_hosts = r], RowsReplaced, RowsReplaced)
      PROVE  Inv'
  <2> DEFINE d == [data EXCEPT !.search_um_hosts = r]
  <2>1. Observed' /\ conv = S /\ conv = "WAITING_USERMAN_SEARCH" /\ conv \in Searches
    BY <1>1, QuietIsObserved DEF Inv, TypeOK, At, Searches, S
  <2>2. d \in UserData /\ d.editing = data.editing /\ d.kick_um_idx = data.kick_um_idx
    BY DEF Inv, TypeOK, UserData
  <2>3. /\ RowsReplaced \in [{"confirm", "menu", "detail"} -> Users \cup {NoUser, Unsure}]
        /\ RowsReplaced.menu = screen.menu
        /\ RowsReplaced.detail = IF screen.detail = NoUser THEN NoUser ELSE Unsure
    BY DEF RowsReplaced, Inv, TypeOK
  <2> HIDE DEF d
  <2>4. RepliesOr(conv, d, RowsReplaced, RowsReplaced)
    BY <1>1, <2>1 DEF d
  <2>5. UNCHANGED conv
    BY <2>4 DEF RepliesOr, error_handler
  <2>6. data' = d /\ screen' = RowsReplaced => DetailMatches'
    <3>1. data.kick_um_idx # 0 => screen.detail # NoUser
      BY <2>1 DEF Inv, DetailMatches
    <3>2. \A n : data.kick_um_idx \in 1 .. n => data.kick_um_idx # 0
      OBVIOUS
    <3> QED
      BY <2>1, <2>2, <2>3, <2>5, <3>1, <3>2, ScreenAssumption DEF DetailMatches
  <2> QED
    BY <2>1, <2>2, <2>3, <2>4, <2>6, SearchReplies
<1> QED
  BY <1>1, FailsKeeps DEF userman_search_query

LEMMA SelectKeeps ==
    ASSUME Inv, NEW i \in 1 .. 2, userman_search_select(i)
    PROVE  Inv'
<1> DEFINE d == [data EXCEPT !.kick_um_idx = i]
<1>1. Observed' /\ conv = S /\ conv = "WAITING_USERMAN_SEARCH" /\ conv \in Searches
  BY QuietIsObserved DEF userman_search_select, Inv, TypeOK, At, Searches, S
<1>2. /\ d \in UserData /\ d.editing = data.editing /\ d.kick_um_idx = i
      /\ d.search_um_hosts = data.search_um_hosts
  BY DEF Inv, TypeOK, UserData
<1>3. Rows[i] \in Users
  BY RowsAreResults DEF userman_search_select
<1>4. ASSUME NEW u \in {Rows[i], Unsure}
      PROVE  /\ Shown("detail", u) \in [{"confirm", "menu", "detail"} -> Users \cup {NoUser, Unsure}]
             /\ Shown("detail", u).menu = screen.menu /\ Shown("detail", u).detail = u
  BY <1>3 DEF Shown, Inv, TypeOK
<1> HIDE DEF d
<1>5. RepliesOr(conv, d, Shown("detail", Rows[i]), Shown("detail", Unsure))
  BY <1>1 DEF userman_search_select, d
<1>6. UNCHANGED conv
  BY <1>5 DEF RepliesOr, error_handler
<1>7. ASSUME NEW u \in {Rows[i], Unsure}, data' = d, screen' = Shown("detail", u)
      PROVE  DetailMatches'
  <2>1. Rows' = Rows
    BY <1>2, <1>7 DEF Rows
  <2> QED
    BY <1>1, <1>2, <1>3, <1>4, <1>6, <1>7, <2>1, ScreenAssumption DEF DetailMatches
<1>8. \A x \in {Shown("detail", Rows[i]), Shown("detail", Unsure)} :
          /\ x \in [{"confirm", "menu", "detail"} -> Users \cup {NoUser, Unsure}]
          /\ x.menu = screen.menu
          /\ data' = d /\ screen' = x => DetailMatches'
  BY <1>4, <1>7
<1> QED
  BY <1>1, <1>2, <1>5, <1>8, SearchReplies

LEMMA ListReplaced ==
    ASSUME NEW d \in UserData, NEW r \in Results \cup {NoList}, NEW e,
           e = [d EXCEPT !.search_um_hosts = r, !.kick_um_idx = 0]
    PROVE  e \in UserData /\ e.editing = d.editing /\ e.kick_um_idx = 0
<1> DEFINE c == [d EXCEPT !.search_um_hosts = r]
<1>1. c \in UserData /\ c.editing = d.editing
  BY DEF UserData
<1>2. e = [c EXCEPT !.kick_um_idx = 0]
  OBVIOUS
<1> HIDE DEF c
<1> QED
  BY <1>1, <1>2 DEF UserData

LEMMA SelectedIsUser ==
    ASSUME Inv, Selected
    PROVE  Rows[data.kick_um_idx] \in Users
BY RowsAreResults DEF Selected

(* An action that leaves list and index as they are.                       *)
LEMMA ActsKeep ==
    ASSUME Inv, NEW op, Acts(op, data, screen)
    PROVE  Inv'
<1>1. Observed' /\ conv = S
  BY SelectedIsUser, CallIsObserved DEF Acts, Inv, TypeOK, At
<1>2. Replies(S, data)
  BY DEF Acts, Replies
<1> QED
  BY <1>1, <1>2, FreeReplies DEF FreeStates, S

LEMMA DeleteRowKeeps ==
    ASSUME Inv, DeleteRow
    PROVE  Inv'
<1> DEFINE d == [data EXCEPT !.search_um_hosts = RemoveAt(Rows, data.kick_um_idx), !.kick_um_idx = 0]
<1>1. /\ Observed' /\ conv = S /\ conv = "WAITING_USERMAN_SEARCH" /\ conv \in Searches
      /\ Selected
  BY SelectedIsUser, CallIsObserved DEF DeleteRow, Acts, Inv, TypeOK, At, Searches, S
<1>2. RemoveAt(Rows, data.kick_um_idx) \in Results
  BY <1>1, RowsAreResults, RowRemoved DEF Selected
<1>3. d \in UserData /\ d.editing = data.editing /\ d.kick_um_idx = 0
  BY <1>2, ListReplaced DEF Inv, TypeOK
<1>4. /\ Shown("detail", NoUser) \in [{"confirm", "menu", "detail"} -> Users \cup {NoUser, Unsure}]
      /\ Shown("detail", NoUser).menu = screen.menu
      /\ screen \in [{"confirm", "menu", "detail"} -> Users \cup {NoUser, Unsure}]
  BY DEF Shown, Inv, TypeOK
<1> HIDE DEF d
<1>5. RepliesOr(conv, d, Shown("detail", NoUser), screen)
  BY <1>1 DEF DeleteRow, Acts, d
<1>6. UNCHANGED conv
  BY <1>5 DEF RepliesOr, error_handler
<1>7. data' = d => DetailMatches'
  BY <1>1, <1>3, <1>6 DEF DetailMatches
<1> QED
  BY <1>1, <1>3, <1>4, <1>5, <1>7, SearchReplies

LEMMA RowsBackKeeps ==
    ASSUME Inv, userman_search_back
    PROVE  Inv'
<1>1. Observed' /\ conv = S /\ conv = "WAITING_USERMAN_SEARCH" /\ data \in UserData
  BY QuietIsObserved DEF userman_search_back, Inv, TypeOK, At, S
<1>2. PICK d : /\ Replies(S, d)
               /\ \/ d = [data EXCEPT !.kick_um_idx = 0]
                  \/ d = [data EXCEPT !.search_um_hosts = NoList, !.kick_um_idx = 0]
  BY DEF userman_search_back
<1>3. d \in UserData /\ d.editing = data.editing /\ d.kick_um_idx = 0
  <2>1. CASE d = [data EXCEPT !.kick_um_idx = 0]
    BY <1>1, <2>1 DEF UserData
  <2>2. CASE d = [data EXCEPT !.search_um_hosts = NoList, !.kick_um_idx = 0]
    BY <1>1, <2>2, ListReplaced
  <2> QED
    BY <1>2, <2>1, <2>2
<1> QED
  BY <1>1, <1>2, <1>3, IndexForgotten DEF Searches

LEMMA AddProfileKeeps ==
    ASSUME Inv, userman_search_add_profile
    PROVE  Inv'
<1>1. ASSUME At(S), Selected, Quiet, UNCHANGED selected,
             Replies(S, [data EXCEPT !.add_profile_username = Rows[data.kick_um_idx]])
      PROVE  Inv'
  <2> DEFINE d == [data EXCEPT !.add_profile_username = Rows[data.kick_um_idx]]
  <2>1. Observed' /\ conv = S
    BY <1>1, QuietIsObserved DEF Inv, TypeOK, At
  <2>2. Keeps(d)
    BY <1>1, SelectedIsUser DEF Inv, TypeOK, UserData, Keeps
  <2> HIDE DEF d
  <2>3. Replies(S, d)
    BY <1>1 DEF d
  <2> QED
    BY <2>1, <2>2, <2>3, RepliesKeep, FreePlaces DEF FreeStates, S
<1> QED
  BY <1>1, LeavesKeeps DEF userman_search_add_profile, Inv, TypeOK

LEMMA ProfileSelectedKeeps ==
    ASSUME Inv, userman_search_add_profile_selected
    PROVE  Inv'
<1>1. ASSUME At(S), UNCHANGED <<selected, screen>>, data.add_profile_username # NoUser,
             Calls("um link", data.add_profile_username),
             \/ /\ data' = [data EXCEPT !.add_profile_username = NoUser]
                /\ UNCHANGED <<conv, dialogue>>
             \/ error_handler(data)
      PROVE  Inv'
  <2> DEFINE d == [data EXCEPT !.add_profile_username = NoUser]
  <2>1. Observed' /\ conv = S
    BY <1>1, CallIsObserved DEF Inv, TypeOK, At, UserData
  <2>2. Keeps(d)
    BY DEF Inv, TypeOK, UserData, Keeps
  <2> HIDE DEF d
  <2>3. CASE data' = d /\ UNCHANGED <<conv, dialogue>>
    BY <1>1, <2>1, <2>2, <2>3, Stores, FreePlaces DEF FreeStates, S
  <2>4. CASE error_handler(data)
    BY <1>1, <2>1, <2>4, Raises, SameKeys
  <2> QED
    BY <1>1, <2>3, <2>4 DEF d
<1> QED
  BY <1>1, LeavesKeeps DEF userman_search_add_profile_selected, Inv, TypeOK

LEMMA UserManSearchKeeps ==
    ASSUME Inv, UserManSearchNext
    PROVE  Inv'
<1> USE DEF FreeStates, ActsOnData, S
<1>1. CASE userman_search_start
  BY <1>1, StartsKeep, FreePlaces DEF userman_search_start
<1>2. CASE userman_search_query \/ (\E i \in 1 .. 2 : userman_search_select(i))
  BY <1>2, RowsQueryKeeps, SelectKeeps
<1>3. CASE userman_search_page_handler
  BY <1>3, FreeBackSteps DEF userman_search_page_handler
<1>4. CASE userman_search_action
  BY <1>4, ActsKeep, DeleteRowKeeps, FailsKeeps DEF userman_search_action
<1>5. CASE userman_search_back
  BY <1>5, RowsBackKeeps
<1>6. CASE userman_search_add_profile \/ userman_search_add_profile_selected
  BY <1>6, AddProfileKeeps, ProfileSelectedKeeps
<1> QED
  BY <1>1, <1>2, <1>3, <1>4, <1>5, <1>6 DEF UserManSearchNext
-----------------------------------------------------------------------------
(* The places of the two dialogues that make cards.                        *)
HotspotCardStates ==
    {"WAITING_HOTSPOT_CARD_COUNT", "WAITING_HOTSPOT_CARD_LENGTH", "WAITING_HOTSPOT_CARD_PREFIX",
     "WAITING_HOTSPOT_CARD_PRICE", "WAITING_HOTSPOT_CARD_TYPE", "WAITING_HOTSPOT_CARD_PROFILE",
     "WAITING_HOTSPOT_CARD_UPTIME", "WAITING_HOTSPOT_CARD_BYTES"}

LEMMA HotspotCardPlaces ==
    /\ \A s \in HotspotCardStates : s \in States \ ActsOnData /\ AddNeeds(s) = {}
    /\ \A s \in HotspotCardStates \ {"WAITING_HOTSPOT_CARD_PROFILE"} : \A names : Offers(s, names)
    /\ \A names : Offers("WAITING_HOTSPOT_CARD_PROFILE", names) <=> names # "userman"
    /\ CardNeeds("WAITING_HOTSPOT_CARD_COUNT") = {}
    /\ CardNeeds("WAITING_HOTSPOT_CARD_LENGTH") = {"hs_card_count"}
    /\ CardNeeds("WAITING_HOTSPOT_CARD_PREFIX") = {"hs_card_count", "hs_card_length"}
    /\ CardNeeds("WAITING_HOTSPOT_CARD_PRICE") =
         {"hs_card_count", "hs_card_length", "hs_card_prefix"}
    /\ CardNeeds("WAITING_HOTSPOT_CARD_TYPE") =
         {"hs_card_count", "hs_card_length", "hs_card_prefix", "hs_card_price"}
    /\ CardNeeds("WAITING_HOTSPOT_CARD_PROFILE") =
         {"hs_card_count", "hs_card_length", "hs_card_prefix", "hs_card_price", "hs_card_system"}
    /\ CardNeeds("WAITING_HOTSPOT_CARD_UPTIME") =
         HotspotCardFields \ {"hs_card_uptime", "hs_card_bytes"}
    /\ CardNeeds("WAITING_HOTSPOT_CARD_BYTES") = HotspotCardFields \ {"hs_card_bytes"}
<1>1. \A s \in HotspotCardStates : s \in States \ ActsOnData
  BY DEF HotspotCardStates, States, ActsOnData
<1>2. \A s \in HotspotCardStates : AddNeeds(s) = {}
  BY DEF HotspotCardStates, AddNeeds
<1>3. \A s \in HotspotCardStates \ {"WAITING_HOTSPOT_CARD_PROFILE"} : \A names : Offers(s, names)
  BY DEF HotspotCardStates, Offers
<1>4. \A names : Offers("WAITING_HOTSPOT_CARD_PROFILE", names) <=> names # "userman"
  BY DEF Offers
<1> QED
  BY <1>1, <1>2, <1>3, <1>4 DEF CardNeeds

UserManCardStates ==
    {"WAITING_CARD_TYPE", "WAITING_CARD_PROFILE", "WAITING_CARD_PAYMENT",
     "WAITING_CARD_TIMESTAMP", "WAITING_CARD_MAC", "WAITING_CARD_PREFIX", "WAITING_CARD_COUNT"}

LEMMA UserManCardPlaces ==
    /\ \A s \in UserManCardStates : s \in States \ ActsOnData /\ AddNeeds(s) = {}
    /\ \A s \in UserManCardStates \ {"WAITING_CARD_PROFILE"} : \A names : Offers(s, names)
    /\ \A names : Offers("WAITING_CARD_PROFILE", names) <=> names # "hotspot"
    /\ CardNeeds("WAITING_CARD_TYPE") = {}
    /\ CardNeeds("WAITING_CARD_PROFILE") = {"card_type"}
    /\ CardNeeds("WAITING_CARD_PAYMENT") = {"card_type", "card_profile"}
    /\ CardNeeds("WAITING_CARD_TIMESTAMP") = {"card_type", "card_profile", "card_payment"}
    /\ CardNeeds("WAITING_CARD_MAC") =
         {"card_type", "card_profile", "card_payment", "card_timestamp"}
    /\ CardNeeds("WAITING_CARD_PREFIX") = UserManCardFields \ {"card_prefix"}
    /\ CardNeeds("WAITING_CARD_COUNT") = UserManCardFields
<1>1. \A s \in UserManCardStates : s \in States \ ActsOnData
  BY DEF UserManCardStates, States, ActsOnData
<1>2. \A s \in UserManCardStates : AddNeeds(s) = {}
  BY DEF UserManCardStates, AddNeeds
<1>3. \A s \in UserManCardStates \ {"WAITING_CARD_PROFILE"} : \A names : Offers(s, names)
  BY DEF UserManCardStates, Offers
<1>4. \A names : Offers("WAITING_CARD_PROFILE", names) <=> names # "hotspot"
  BY DEF Offers
<1> QED
  BY <1>1, <1>2, <1>3, <1>4 DEF CardNeeds

(* A key is added to the answers and nothing else changes.                 *)
LEMMA KeyGiven ==
    ASSUME Inv, NEW key \in AddFields \cup HotspotCardFields \cup UserManCardFields, NEW d,
           d = [data EXCEPT !.given = @ \cup {key}]
    PROVE  /\ Keeps(d) /\ d.given = data.given \cup {key}
           /\ d.named = data.named /\ d.profile_names = data.profile_names /\ d.unlisted = data.unlisted
BY DEF Inv, TypeOK, Keeps, UserData

LEMMA HotspotCardTypeKeeps ==
    ASSUME Inv, hotspot_cards_type_selected
    PROVE  Inv'
<1> DEFINE d == [data EXCEPT !.given = @ \cup {"hs_card_system"}]
<1>1. /\ Keeps(d) /\ d.given = data.given \cup {"hs_card_system"}
      /\ d.named = data.named
  BY KeyGiven DEF HotspotCardFields
<1> HIDE DEF d
<1>2. CASE OffersProfiles("WAITING_HOTSPOT_CARD_TYPE", d, "hotspot", "WAITING_HOTSPOT_CARD_PROFILE")
  BY <1>1, <1>2, OffersKeep, HotspotCardPlaces DEF HotspotCardStates
<1> QED
  BY <1>2, FailsKeeps DEF hotspot_cards_type_selected, d

LEMMA HotspotCardBytesKeeps ==
    ASSUME Inv, hotspot_cards_bytes
    PROVE  Inv'
<1> DEFINE d == [data EXCEPT !.given = @ \cup {"hs_card_bytes"}]
<1>1. /\ Keeps(d) /\ d.given = data.given \cup {"hs_card_bytes"}
      /\ d.named = data.named /\ d.profile_names = data.profile_names /\ d.unlisted = data.unlisted
  BY KeyGiven DEF HotspotCardFields
<1> HIDE DEF d
<1>2. CASE _create_cards(d)
  <2>1. Observed'
    BY <1>2, CallIsObserved DEF _create_cards, Inv, TypeOK
  <2>2. Cleaned(d) \in UserData /\ Cleaned(d).editing = data.editing
    BY <1>1, CleanedData DEF Keeps
  <2>3. Answered(conv, d)
    BY <1>1, SameKeys DEF Answered, OffersOwn
  <2> QED
    BY <1>1, <1>2, <2>1, <2>2, <2>3, Ends, Raises DEF _create_cards
<1> QED
  BY <1>2, FailsKeeps DEF hotspot_cards_bytes, d

LEMMA HotspotCardQuestionsKeep ==
    ASSUME Inv,
           \/ hotspot_cards_count \/ hotspot_cards_length
           \/ hotspot_cards_prefix \/ hotspot_cards_price
           \/ hotspot_cards_profile_selected
           \/ hotspot_cards_uptime_type \/ hotspot_cards_skip_uptime_type
           \/ hotspot_cards_uptime_value
    PROVE  Inv'
<1> USE HotspotCardPlaces DEF HotspotCardStates, HotspotCardFields
<1>1. CASE hotspot_cards_count
  BY <1>1, Answers DEF hotspot_cards_count
<1>2. CASE hotspot_cards_length
  BY <1>2, Answers DEF hotspot_cards_length
<1>3. CASE hotspot_cards_prefix
  BY <1>3, Answers DEF hotspot_cards_prefix
<1>4. CASE hotspot_cards_price
  BY <1>4, Answers DEF hotspot_cards_price
<1>5. CASE hotspot_cards_profile_selected
  <2>1. CASE PicksProfile("WAITING_HOTSPOT_CARD_PROFILE", "hs_card_profile", "hotspot",
                          "WAITING_HOTSPOT_CARD_UPTIME")
    <3>1. \A names \in {"hotspot", "userman"} :
             Offers("WAITING_HOTSPOT_CARD_PROFILE", names) => names = "hotspot"
      OBVIOUS
    <3> QED
      BY <2>1, <3>1, PicksKeep
  <2> QED
    BY <1>5, <2>1, FailsKeeps DEF hotspot_cards_profile_selected
<1>6. CASE hotspot_cards_uptime_type
  BY <1>6, BackSteps DEF hotspot_cards_uptime_type
<1>7. CASE hotspot_cards_skip_uptime_type
  BY <1>7, Answers DEF hotspot_cards_skip_uptime_type
<1>8. CASE hotspot_cards_uptime_value
  BY <1>8, Answers DEF hotspot_cards_uptime_value
<1> QED
  BY <1>1, <1>2, <1>3, <1>4, <1>5, <1>6, <1>7, <1>8

LEMMA HotspotCardBackKeeps ==
    ASSUME Inv,
           \/ hs_back_to_length \/ hs_back_to_prefix \/ hs_back_to_type
           \/ hs_back_to_profile \/ hs_back_to_uptime
    PROVE  Inv'
<1> USE HotspotCardPlaces DEF HotspotCardStates, HotspotCardFields
<1>1. CASE hs_back_to_length
  BY <1>1, BackSteps DEF hs_back_to_length
<1>2. CASE hs_back_to_prefix
  BY <1>2, BackSteps DEF hs_back_to_prefix
<1>3. CASE hs_back_to_type
  BY <1>3, BackSteps DEF hs_back_to_type
<1>4. ASSUME NEW s \in {"WAITING_HOTSPOT_CARD_PROFILE", "WAITING_HOTSPOT_CARD_UPTIME"},
             OffersProfiles(s, data, "hotspot", "WAITING_HOTSPOT_CARD_PROFILE")
      PROVE  Inv'
  BY <1>4, OffersKeep, SameKeys
<1>5. CASE hs_back_to_profile
  BY <1>4, <1>5, FailsKeeps DEF hs_back_to_profile
<1>6. CASE hs_back_to_uptime
  BY <1>6, BackSteps DEF hs_back_to_uptime
<1> QED
  BY <1>1, <1>2, <1>3, <1>5, <1>6

LEMMA HotspotCardsKeep ==
    ASSUME Inv, HotspotCardsNext
    PROVE  Inv'
<1>1. CASE hotspot_cards_start
  BY <1>1, StartsKeep, HotspotCardPlaces DEF hotspot_cards_start, HotspotCardStates
<1> QED
  BY <1>1, HotspotCardTypeKeeps, HotspotCardBytesKeeps, HotspotCardQuestionsKeep,
     HotspotCardBackKeeps
     DEF HotspotCardsNext, hotspot_cards_skip_prefix, hotspot_cards_skip_price,
         hotspot_cards_skip_uptime, hotspot_cards_skip_bytes
LEMMA CardTypeKeeps ==
    ASSUME Inv, userman_card_type_selected
    PROVE  Inv'
<1> DEFINE d == [data EXCEPT !.given = @ \cup {"card_type"}]
<1>1. /\ Keeps(d) /\ d.given = data.given \cup {"card_type"}
      /\ d.named = data.named
  BY KeyGiven DEF UserManCardFields
<1>2. Observed' /\ conv = "WAITING_CARD_TYPE"
  BY QuietIsObserved DEF userman_card_type_selected, At
<1> HIDE DEF d
<1>3. PICK e \in fetch_and_cache_profiles(d, selected', "userman") :
          \/ Replies("WAITING_CARD_PROFILE", e)
          \/ /\ \/ conv' = "END" /\ data' = Cleaned(e) /\ dialogue' = "intact"
                \/ error_handler(e)
             /\ UNCHANGED screen
  BY DEF userman_card_type_selected, d
<1>4. /\ Keeps(e) /\ e.given = d.given /\ e.named = d.named
      /\ e.profile_names \in {"userman", "none"} \/ e.unlisted
  <2>1. selected' \in BOOLEAN
    BY DEF userman_card_type_selected
  <2> QED
    BY <1>1, <2>1, ListsCached DEF Keeps
<1>5. Answered("WAITING_CARD_TYPE", e) /\ Answered("WAITING_CARD_PROFILE", e)
  BY <1>1, <1>4, UserManCardPlaces DEF Answered, OffersOwn, UserManCardStates
<1>6. CASE Replies("WAITING_CARD_PROFILE", e)
  BY <1>2, <1>4, <1>5, <1>6, RepliesKeep, UserManCardPlaces DEF UserManCardStates
<1>7. CASE conv' = "END" /\ data' = Cleaned(e) /\ dialogue' = "intact" /\ UNCHANGED screen
  <2>1. Cleaned(e) \in UserData /\ Cleaned(e).editing = data.editing
    BY <1>4, CleanedData DEF Keeps
  <2> QED
    BY <1>2, <1>7, <2>1, Ends
<1>8. CASE error_handler(e) /\ UNCHANGED screen
  BY <1>2, <1>4, <1>5, <1>8, Raises
<1> QED
  BY <1>3, <1>6, <1>7, <1>8

LEMMA CardQuestionsKeep ==
    ASSUME Inv,
           \/ userman_card_profile_selected \/ userman_card_payment_selected
           \/ userman_card_timestamp_selected \/ userman_card_timestamp_custom
           \/ userman_card_mac_selected \/ userman_card_prefix
    PROVE  Inv'
<1> USE UserManCardPlaces DEF UserManCardStates, UserManCardFields
<1>1. CASE userman_card_profile_selected
  <2>1. CASE PicksProfile("WAITING_CARD_PROFILE", "card_profile", "userman",
                          "WAITING_CARD_PAYMENT")
    <3>1. \A names \in {"hotspot", "userman"} :
             Offers("WAITING_CARD_PROFILE", names) => names = "userman"
      OBVIOUS
    <3> QED
      BY <2>1, <3>1, PicksKeep
  <2> QED
    BY <1>1, <2>1, FailsKeeps DEF userman_card_profile_selected
<1>2. CASE userman_card_payment_selected
  BY <1>2, Answers DEF userman_card_payment_selected
<1>3. CASE userman_card_timestamp_selected \/ userman_card_timestamp_custom
  BY <1>3, Answers, BackSteps DEF userman_card_timestamp_selected, userman_card_timestamp_custom
<1>4. CASE userman_card_mac_selected
  BY <1>4, Answers DEF userman_card_mac_selected
<1>5. CASE userman_card_prefix
  BY <1>5, Answers DEF userman_card_prefix
<1> QED
  BY <1>1, <1>2, <1>3, <1>4, <1>5

LEMMA CardCountKeeps ==
    ASSUME Inv, userman_card_count
    PROVE  Inv'
<1>1. CASE /\ Calls("userman cards", NoUser)
           /\ End \/ error_handler(data)
           /\ UNCHANGED <<selected, screen>>
  <2>1. Observed'
    BY <1>1, CallIsObserved DEF Inv, TypeOK
  <2> QED
    BY <1>1, <2>1, EndsClean, Raises, SameKeys
<1> QED
  BY <1>1, FailsKeeps DEF userman_card_count

LEMMA CardBackKeeps ==
    ASSUME Inv,
           \/ userman_back_to_type \/ userman_back_to_profile \/ userman_back_to_timestamp
           \/ userman_back_to_payment \/ userman_back_to_mac \/ userman_back_to_prefix
    PROVE  Inv'
<1> USE UserManCardPlaces DEF UserManCardStates, UserManCardFields
<1>1. CASE userman_back_to_type
  BY <1>1, BackSteps DEF userman_back_to_type
<1>2. CASE userman_back_to_profile
  BY <1>2, OffersKeep, SameKeys DEF userman_back_to_profile
<1>3. CASE userman_back_to_timestamp
  BY <1>3, BackSteps DEF userman_back_to_timestamp
<1>4. CASE userman_back_to_payment
  BY <1>4, BackSteps DEF userman_back_to_payment
<1>5. CASE userman_back_to_mac
  BY <1>5, BackSteps DEF userman_back_to_mac
<1>6. CASE userman_back_to_prefix
  BY <1>6, BackSteps DEF userman_back_to_prefix
<1> QED
  BY <1>1, <1>2, <1>3, <1>4, <1>5, <1>6

LEMMA UserManCardsKeep ==
    ASSUME Inv, UserManCardsNext
    PROVE  Inv'
<1>1. CASE userman_cards_start
  BY <1>1, StartsKeep, UserManCardPlaces DEF userman_cards_start, UserManCardStates
<1> QED
  BY <1>1, CardTypeKeeps, CardQuestionsKeep, CardCountKeeps, CardBackKeeps
     DEF UserManCardsNext, userman_card_skip_prefix

-----------------------------------------------------------------------------
(* The prompt withdraws the confirmation that is on the screen.            *)
LEMMA PdfOptionKeeps ==
    ASSUME Inv, pdf_settings_option
    PROVE  Inv'
<1> DEFINE d == [Cleaned(data) EXCEPT !.pdf_option = "asked"]
           s == [screen EXCEPT !.confirm = NoUser]
<1>1. Observed' /\ conv \in {"END", "WAITING_PDF_VALUE"} /\ data \in UserData
  BY QuietIsObserved DEF pdf_settings_option, Inv, TypeOK
<1>2. d \in UserData /\ d.editing = data.editing
  BY <1>1, CleanedData DEF UserData
<1>3. /\ s \in [{"confirm", "menu", "detail"} -> Users \cup {NoUser, Unsure}]
      /\ s.menu = screen.menu
      /\ screen \in [{"confirm", "menu", "detail"} -> Users \cup {NoUser, Unsure}]
  BY DEF Inv, TypeOK
<1> HIDE DEF d, s
<1>4. /\ conv' \in {"END", "WAITING_PDF_VALUE"}
      /\ data' \in {d, Cleaned(d)}
      /\ screen' \in {s, screen}
      /\ dialogue' \in {dialogue, "cleaned"}
  BY <1>1 DEF pdf_settings_option, RepliesOr, error_handler, CleanedUnder, d, s
<1>5. data' \in UserData /\ data'.editing = data.editing
  BY <1>2, <1>4, CleanedData
<1>6. TypeOK'
  BY <1>1, <1>3, <1>4, <1>5 DEF Inv, TypeOK, Observed, States
<1>7. ConfirmMatches' /\ DetailMatches' /\ MenuMatches'
  BY <1>3, <1>4, <1>5 DEF Inv, ConfirmMatches, DetailMatches, MenuMatches
<1>8. AnswersKept'
  BY <1>4 DEF AnswersKept, Answered, OffersOwn, AddNeeds, CardNeeds, Offers
<1> QED
  BY <1>6, <1>7, <1>8 DEF Inv

LEMMA PdfValueKeeps ==
    ASSUME Inv, pdf_settings_value
    PROVE  Inv'
<1>1. CASE /\ IF data.pdf_option = "none" THEN Quiet ELSE Calls("pdf setting", NoUser)
           /\ End \/ error_handler(data)
           /\ UNCHANGED <<selected, screen>>
  <2>1. Observed'
    BY <1>1, QuietIsObserved, CallIsObserved DEF Inv, TypeOK
  <2> QED
    BY <1>1, <2>1, EndsClean, Raises, SameKeys
<1> QED
  BY <1>1, FreeBackSteps DEF pdf_settings_value, FreeStates

(* Outside the conversation, nothing of which changes.                     *)
LEMMA AsidesKeep ==
    ASSUME Inv, usage_select_callback \/ pdf_toggle_qr \/ mark_batch_paid_handler
    PROVE  Inv'
<1>1. Observed' /\ UNCHANGED <<conv, data, screen, dialogue>>
  BY CallIsObserved DEF usage_select_callback, pdf_toggle_qr, mark_batch_paid_handler, Inv, TypeOK
<1> QED
  BY <1>1, UnchangedKeeps

LEMMA BatchSearchKeeps ==
    ASSUME Inv, batches_search_start
    PROVE  Inv'
<1>1. Observed'
  BY QuietIsObserved DEF batches_search_start, Inv, TypeOK
<1> QED
  BY <1>1, FreeReplies DEF batches_search_start, FreeStates, ActsOnData

LEMMA ShareKeeps ==
    ASSUME Inv, share_card_start \/ share_card_send
    PROVE  Inv'
<1> USE DEF FreeStates, ActsOnData
<1>1. CASE share_card_start
  BY <1>1, FreeReplies, QuietIsObserved DEF share_card_start, Inv, TypeOK
<1>2. CASE share_card_send
  <2>1. CASE Replies("END", data) /\ Calls("share card", NoUser) /\ UNCHANGED selected
    BY <2>1, FreeReplies, CallIsObserved DEF Inv, TypeOK
  <2> QED
    BY <1>2, <2>1, FreeBackSteps, LeavesKeeps DEF share_card_send, Inv, TypeOK
<1> QED
  BY <1>1, <1>2

LEMMA ScreensKeep ==
    ASSUME Inv, ScreensNext
    PROVE  Inv'
<1> USE DEF FreeStates, ActsOnData
<1>1. CASE usage_start
  BY <1>1, StartsKeep, FreePlaces, EndsClean, QuietIsObserved DEF usage_start, Inv, TypeOK
<1>2. CASE usage_query
  BY <1>2, FreeBackSteps, LeavesKeeps DEF usage_query, Inv, TypeOK
<1>3. CASE usage_select_callback \/ pdf_toggle_qr \/ mark_batch_paid_handler
  BY <1>3, AsidesKeep
<1>4. CASE pdf_settings_option \/ pdf_settings_value
  BY <1>4, PdfOptionKeeps, PdfValueKeeps
<1>5. CASE batches_command \/ hotspot_stats
  BY <1>5, OutsideKeeps DEF batches_command, hotspot_stats, Inv, TypeOK
<1>6. CASE batches_search_start
  BY <1>6, BatchSearchKeeps
<1>7. CASE batches_search_query
  BY <1>7, FreeBackSteps, LeavesKeeps DEF batches_search_query, Inv, TypeOK
<1>8. CASE share_card_start \/ share_card_send
  BY <1>8, ShareKeeps
<1>9. CASE schedule_enable
  BY <1>9, StartsKeep, FreePlaces DEF schedule_enable
<1>10. CASE schedule_set
  BY <1>10, FreeBackSteps, FailsKeeps DEF schedule_set
<1> QED
  BY <1>1, <1>2, <1>3, <1>4, <1>5, <1>6, <1>7, <1>8, <1>9, <1>10 DEF ScreensNext

-----------------------------------------------------------------------------
LEMMA InitInv == Init => Inv
<1> SUFFICES ASSUME Init PROVE Inv
  OBVIOUS
<1>1. TypeOK
  <2>1. NoData \in UserData
    <3>1. {} \in SUBSET (AddFields \cup HotspotCardFields \cup UserManCardFields) /\ 0 \in 0 .. 2
      OBVIOUS
    <3> QED
      BY <3>1 DEF NoData, UserData
  <2>2. NoScreen \in [{"confirm", "menu", "detail"} -> Users \cup {NoUser, Unsure}]
    BY DEF NoScreen
  <2>3. "END" \in States
    BY DEF States
  <2> QED
    BY <2>1, <2>2, <2>3 DEF Init, TypeOK, Nothing
<1>2. ConfirmMatches /\ MenuMatches /\ DetailMatches
  BY DEF Init, ConfirmMatches, MenuMatches, DetailMatches, NoData
<1>3. AnswersKept
  BY DEF Init, AnswersKept, Answered, OffersOwn, AddNeeds, CardNeeds, Offers
<1> QED
  BY <1>1, <1>2, <1>3 DEF Inv

LEMMA NextInv == Inv /\ [Next]_vars => Inv'
<1> SUFFICES ASSUME Inv, [Next]_vars PROVE Inv'
  OBVIOUS
<1>1. CASE UNCHANGED vars
  BY <1>1, UnchangedKeeps DEF vars, Inv, TypeOK, Observed
<1> QED
  BY <1>1, BaseKeeps, AddKeeps, DeleteKeeps, EditKeeps, SearchKeeps, HotspotCardsKeep,
     UserManCardsKeep, UserManSearchKeeps, ScreensKeep DEF Next

LEMMA Invariance == Spec => []Inv
BY InitInv, NextInv, PTL DEF Spec

(* The variables of the dialogues have their types, for any accounts: a    *)
(* clean-up resets each key to what its readers take for absent, and no    *)
(* path leaves the states of the conversation.                             *)
THEOREM DialoguesTypeCorrect == Spec => []TypeOK
BY Invariance, PTL DEF Inv
-----------------------------------------------------------------------------
(* What a step asks of a router or of the database, against screen and     *)
(* answers: the four action properties.                                    *)
AsShown ==
    /\ write'.op = "delete" => screen.confirm \in {write'.user, Unsure}
    /\ write'.op \in {"reset", "kick", "toggle", "profile", "edit"} =>
         screen.menu \in {write'.user, Unsure}
    /\ write'.op \in {"kick host", "um kick", "um reset", "um toggle", "um delete"} =>
         screen.detail \in {write'.user, Unsure}
    /\ write'.op = "add" => AddFields \subseteq data.given
    /\ write'.op = "hotspot cards" =>
         HotspotCardFields \ {"hs_card_bytes"} \subseteq data.given \/ dialogue # "intact"
    /\ write'.op = "userman cards" =>
         UserManCardFields \subseteq data.given \/ dialogue # "intact"

LEMMA QuietAsShown == Quiet => AsShown
BY DEF Quiet, Nothing, AsShown

(* Changes that no property is about.                                      *)
LEMMA OtherAsShown ==
    ASSUME NEW op \in {"block", "unblock", "um link", "usage report", "pdf setting",
                       "share card", "batch payment"},
           NEW u, Calls(op, u)
    PROVE  AsShown
BY DEF Calls, AsShown

LEMMA BaseAsShown == BaseNext => AsShown
BY QuietAsShown
   DEF BaseNext, cancel, go_back, start, Outside, connect_router, Expire, ConversationTimeout,
       HandlerRaises

LEMMA AddAsShown ==
    ASSUME Inv, AddNext
    PROVE  AsShown
<1>1. CASE hotspot_add_comment
  <2>1. CASE At("WAITING_COMMENT") /\ execute_add_user
    <3>1. AddFields \subseteq data.given
      BY <2>1, AddPlaces, SameKeys DEF At, execute_add_user, Answered
    <3> QED
      BY <2>1, <3>1 DEF execute_add_user, Calls, AsShown
  <2> QED
    BY <1>1, <2>1, QuietAsShown DEF hotspot_add_comment, Fails, RouterGone
<1>2. CASE hotspot_add_start \/ hotspot_add_username \/ hotspot_add_password
  BY <1>2, QuietAsShown
     DEF hotspot_add_start, hotspot_add_username, hotspot_add_password, Starts, OffersProfiles, Fails
<1>3. CASE \/ hotspot_add_profile \/ hotspot_add_profile_selected
           \/ hotspot_add_bytes \/ skip_bytes \/ hotspot_add_uptime_type
           \/ hotspot_add_uptime_value \/ skip_uptime
  BY <1>3, QuietAsShown
     DEF hotspot_add_profile, hotspot_add_profile_selected, hotspot_add_bytes, skip_bytes,
         hotspot_add_uptime_type, hotspot_add_uptime_value, skip_uptime,
         Answer, PicksProfile, make_back_step, Fails
<1>4. CASE \/ add_back_to_username \/ add_back_to_password \/ add_back_to_profile
           \/ add_back_to_bytes \/ add_back_to_uptime_from_comment
  BY <1>4, QuietAsShown
     DEF add_back_to_username, add_back_to_password, add_back_to_profile, add_back_to_bytes,
         add_back_to_uptime_from_comment, make_back_step, OffersProfiles, Fails
<1> QED
  BY <1>1, <1>2, <1>3, <1>4 DEF AddNext, skip_password, skip_comment

LEMMA DeleteAsShown ==
    ASSUME Inv, DeleteNext
    PROVE  AsShown
<1>1. CASE confirm_callback
  <2>1. CASE /\ At("WAITING_INPUT")
             /\ data.delete_user_id # NoUser
             /\ Calls("delete", data.delete_user_id)
    BY <2>1 DEF Inv, ConfirmMatches, At, Calls, AsShown
  <2> QED
    BY <1>1, <2>1, QuietAsShown DEF confirm_callback, Fails, RouterGone
<1> QED
  BY <1>1, QuietAsShown
     DEF DeleteNext, hotspot_delete_start, hotspot_delete_search, hotspot_delete_select,
         handle_page_callback, AsksConfirmation, Starts, make_back_step, Fails, RouterGone

LEMMA EditedAsShown ==
    ASSUME Inv, data.editing # NoUser,
           NEW op \in {"reset", "kick", "toggle", "profile", "edit"}, Calls(op, data.editing)
    PROVE  AsShown
BY DEF Inv, MenuMatches, Calls, AsShown

LEMMA EditAsShownStep ==
    ASSUME Inv, EditNext
    PROVE  AsShown
<1>1. CASE hotspot_edit_reset \/ edit_profile_selected \/ hotspot_edit_value
  BY <1>1, EditedAsShown, QuietAsShown
     DEF hotspot_edit_reset, edit_profile_selected, hotspot_edit_value, _validate_edit_field,
         Changes, NotEditable, make_back_step, Fails, RouterGone
<1>2. CASE hotspot_edit_kick
  BY <1>2, EditedAsShown, QuietAsShown DEF hotspot_edit_kick, kick_user, make_back_step
<1>3. CASE hotspot_edit_field
  BY <1>3, EditedAsShown, QuietAsShown
     DEF hotspot_edit_field, NotEditable, OffersProfiles, Fails, RouterGone
<1>4. CASE hotspot_edit_start \/ hotspot_edit_search \/ (\E u \in Users : hotspot_edit_select(u))
  BY <1>4, QuietAsShown
     DEF hotspot_edit_start, hotspot_edit_search, hotspot_edit_select, ShowsMenu, ListsResults,
         Starts, make_back_step, Fails, RouterGone
<1> QED
  BY <1>1, <1>2, <1>3, <1>4, QuietAsShown
     DEF EditNext, edit_back_to_fields, edit_back_search, handle_page_callback, make_back_step

LEMMA SearchAsShown ==
    ASSUME Inv, SearchNext
    PROVE  AsShown
<1>1. CASE hotspot_host_action
  <2>1. CASE /\ At("WAITING_HOTSPOT_SEARCH")
             /\ data.kick_host_idx \in 1 .. Len(Hosts)
             /\ Calls("kick host", Hosts[data.kick_host_idx])
    BY <2>1 DEF Inv, DetailMatches, At, Calls, AsShown
  <2> QED
    BY <1>1, <2>1, QuietAsShown DEF hotspot_host_action, kick_host, Fails, RouterGone
<1>2. CASE block_mac_handler \/ unblock_mac_handler
  BY <1>2, OtherAsShown, QuietAsShown
     DEF block_mac_handler, block_mac, unblock_mac_handler, unblock_mac, Leaves
<1> QED
  BY <1>1, <1>2, QuietAsShown
     DEF SearchNext, hotspot_search_start, hotspot_search_query, hotspot_show_host,
         hotspot_search_page_handler, hotspot_search_back, show_blocked_list,
         Starts, make_back_step, Fails, RouterGone

LEMMA HotspotCardsAsShown ==
    ASSUME Inv, HotspotCardsNext
    PROVE  AsShown
<1>1. CASE hotspot_cards_bytes
  <2>1. CASE /\ At("WAITING_HOTSPOT_CARD_BYTES")
             /\ Calls("hotspot cards", NoUser)
    <3>1. HotspotCardFields \ {"hs_card_bytes"} \subseteq data.given \/ dialogue # "intact"
      BY <2>1, HotspotCardPlaces, SameKeys DEF At, Answered
    <3> QED
      BY <2>1, <3>1 DEF Calls, AsShown
  <2> QED
    BY <1>1, <2>1, QuietAsShown DEF hotspot_cards_bytes, _create_cards, RouterGone
<1>2. CASE \/ hotspot_cards_start \/ hotspot_cards_count \/ hotspot_cards_length
           \/ hotspot_cards_prefix \/ hotspot_cards_price
           \/ hotspot_cards_type_selected \/ hotspot_cards_profile_selected
  BY <1>2, QuietAsShown
     DEF hotspot_cards_start, hotspot_cards_count, hotspot_cards_length, hotspot_cards_prefix,
         hotspot_cards_price, hotspot_cards_type_selected, hotspot_cards_profile_selected,
         Starts, Answer, OffersProfiles, PicksProfile, Fails
<1>3. CASE \/ hotspot_cards_uptime_type \/ hotspot_cards_skip_uptime_type
           \/ hotspot_cards_uptime_value
  BY <1>3, QuietAsShown
     DEF hotspot_cards_uptime_type, hotspot_cards_skip_uptime_type, hotspot_cards_uptime_value,
         Answer, make_back_step
<1>4. CASE \/ hs_back_to_length \/ hs_back_to_prefix \/ hs_back_to_type
           \/ hs_back_to_profile \/ hs_back_to_uptime
  BY <1>4, QuietAsShown
     DEF hs_back_to_length, hs_back_to_prefix, hs_back_to_type, hs_back_to_profile,
         hs_back_to_uptime, make_back_step, OffersProfiles, Fails
<1> QED
  BY <1>1, <1>2, <1>3, <1>4
     DEF HotspotCardsNext, hotspot_cards_skip_prefix, hotspot_cards_skip_price,
         hotspot_cards_skip_uptime, hotspot_cards_skip_bytes

LEMMA UserManCardsAsShown ==
    ASSUME Inv, UserManCardsNext
    PROVE  AsShown
<1>1. CASE userman_card_count
  <2>1. CASE /\ At("WAITING_CARD_COUNT")
             /\ Calls("userman cards", NoUser)
    <3>1. UserManCardFields \subseteq data.given \/ dialogue # "intact"
      BY <2>1, UserManCardPlaces, SameKeys DEF At, Answered
    <3> QED
      BY <2>1, <3>1 DEF Calls, AsShown
  <2> QED
    BY <1>1, <2>1, QuietAsShown DEF userman_card_count, Fails
<1>2. CASE \/ userman_cards_start \/ userman_card_type_selected
           \/ userman_card_profile_selected \/ userman_card_payment_selected
           \/ userman_card_timestamp_selected \/ userman_card_timestamp_custom
           \/ userman_card_mac_selected \/ userman_card_prefix
  BY <1>2, QuietAsShown
     DEF userman_cards_start, userman_card_type_selected, userman_card_profile_selected,
         userman_card_payment_selected, userman_card_timestamp_selected,
         userman_card_timestamp_custom, userman_card_mac_selected, userman_card_prefix,
         Starts, Answer, PicksProfile, make_back_step, Fails
<1>3. CASE \/ userman_back_to_type \/ userman_back_to_profile \/ userman_back_to_timestamp
           \/ userman_back_to_payment \/ userman_back_to_mac \/ userman_back_to_prefix
  BY <1>3, QuietAsShown
     DEF userman_back_to_type, userman_back_to_profile, userman_back_to_timestamp,
         userman_back_to_payment, userman_back_to_mac, userman_back_to_prefix,
         make_back_step, OffersProfiles
<1> QED
  BY <1>1, <1>2, <1>3 DEF UserManCardsNext, userman_card_skip_prefix

LEMMA UserManSearchAsShown ==
    ASSUME Inv, UserManSearchNext
    PROVE  AsShown
<1>1. ASSUME At(S), Selected, NEW op \in {"um kick", "um reset", "um toggle", "um delete"},
             Calls(op, Rows[data.kick_um_idx])
      PROVE  AsShown
  BY <1>1 DEF Inv, DetailMatches, At, S, Selected, Calls, AsShown
<1>2. CASE userman_search_action
  BY <1>1, <1>2, QuietAsShown DEF userman_search_action, DeleteRow, Acts, Fails, RouterGone
<1>3. CASE userman_search_add_profile_selected
  BY <1>3, OtherAsShown, QuietAsShown DEF userman_search_add_profile_selected, Leaves
<1> QED
  BY <1>2, <1>3, QuietAsShown
     DEF UserManSearchNext, userman_search_start, userman_search_query,
         userman_search_page_handler, userman_search_select, userman_search_back,
         userman_search_add_profile, Starts, make_back_step, Leaves, RouterGone

LEMMA ScreensAsShown ==
    ASSUME ScreensNext
    PROVE  AsShown
<1>1. CASE \/ usage_select_callback \/ pdf_settings_value \/ pdf_toggle_qr
           \/ mark_batch_paid_handler \/ share_card_send
  BY <1>1, OtherAsShown, QuietAsShown
     DEF usage_select_callback, pdf_settings_value, pdf_toggle_qr, mark_batch_paid_handler,
         share_card_send, make_back_step, Leaves
<1>2. CASE usage_start \/ usage_query \/ pdf_settings_option
  BY <1>2, QuietAsShown
     DEF usage_start, usage_query, pdf_settings_option, Starts, make_back_step, Leaves
<1> QED
  BY <1>1, <1>2, QuietAsShown
     DEF ScreensNext, batches_command, batches_search_start, batches_search_query,
         share_card_start, schedule_enable, schedule_set, hotspot_stats,
         Starts, make_back_step, Leaves, Fails, Outside

LEMMA StepsAsShown ==
    ASSUME Inv, Next
    PROVE  AsShown
BY BaseAsShown, AddAsShown, DeleteAsShown, EditAsShownStep, SearchAsShown, HotspotCardsAsShown,
   UserManCardsAsShown, UserManSearchAsShown, ScreensAsShown DEF Next

(* Whatever interrupts the dialogue of a deletion, "yes" deletes the       *)
(* account of the confirmation on the screen.                              *)
THEOREM DeletionsConfirmed == Spec => DeleteAsConfirmed
<1>1. Inv /\ [Next]_vars =>
        [write'.op = "delete" => screen.confirm \in {write'.user, Unsure}]_vars
  BY StepsAsShown DEF AsShown
<1> QED
  BY <1>1, Invariance, PTL DEF Spec, DeleteAsConfirmed

(* A change of the edit dialogue is of the account whose menu was shown    *)
(* last, though its session outlives the dialogue.                         *)
THEOREM EditsShown == Spec => EditAsShown
<1>1. Inv /\ [Next]_vars =>
        [write'.op \in {"reset", "kick", "toggle", "profile", "edit"} =>
           screen.menu \in {write'.user, Unsure}]_vars
  BY StepsAsShown DEF AsShown
<1> QED
  BY <1>1, Invariance, PTL DEF Spec, EditAsShown

(* An action of a search screen is of the account whose detail was shown   *)
(* last, whatever rows were deleted and lists replaced since.              *)
THEOREM SearchesShown == Spec => SearchActsAsShown
<1>1. Inv /\ [Next]_vars =>
        [write'.op \in {"kick host", "um kick", "um reset", "um toggle", "um delete"} =>
           screen.detail \in {write'.user, Unsure}]_vars
  BY StepsAsShown DEF AsShown
<1> QED
  BY <1>1, Invariance, PTL DEF Spec, SearchActsAsShown

(* Accounts and batches are created from answers to all of their questions *)
(* along every path, the profile being of the kind that was offered unless *)
(* an expired session left the question without profiles.                  *)
THEOREM CreationsEntered == Spec => CreatedAsEntered
<1>1. Inv /\ [Next]_vars =>
        [/\ write'.op = "add" => AddFields \subseteq data.given
         /\ write'.op = "hotspot cards" =>
              HotspotCardFields \ {"hs_card_bytes"} \subseteq data.given \/ dialogue # "intact"
         /\ write'.op = "userman cards" =>
              UserManCardFields \subseteq data.given \/ dialogue # "intact"]_vars
  BY StepsAsShown DEF AsShown
<1> QED
  BY <1>1, Invariance, PTL DEF Spec, CreatedAsEntered

=============================================================================
