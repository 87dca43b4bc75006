--------------------------- MODULE AccountsProofs ---------------------------
(***************************************************************************)
(* What holds of Accounts for any names, batches and numbers of accounts.  *)
(***************************************************************************)
EXTENDS Accounts, SequenceTheorems, TLAPS

(* The steps of _create_user after user/add.                               *)
Making == at \in {"log", "attach", "verify"}

(* Where a command can be: only a batch is under way between idle points,  *)
(* each table has its own steps, and a card that is being made has a name, *)
(* not marked as taken, of an account this batch added.                    *)
BatchState ==
    /\ Making => IsUserMan
    /\ at = "change" => IsUserMan
    /\ Making => /\ name \in Names \ existing
                 /\ left > 0
                 /\ \E a \in added : a.name = name

CardType == [name : Names, linked : BOOLEAN]

LEMMA CardInType ==
    ASSUME NEW n \in Names, NEW b \in BOOLEAN
    PROVE  /\ Card(n, b) \in CardType
           /\ Card(n, b).name = n /\ Card(n, b).linked = b
BY DEF Card, CardType

LEMMA NewRow ==
    ASSUME TypeOK, NEW n \in Names, last < MaxAccounts
    PROVE  New(n) \in Rows /\ New(n).id = last + 1 /\ New(n).name = n
BY MaxAccountsAssumption DEF TypeOK, New, Rows, Ids

(* What the table becomes keeps its type.                                  *)
LEMMA AddsType ==
    ASSUME TypeOK, NEW n \in Names, Adds(n)
    PROVE  /\ users' \in SUBSET Rows /\ last' \in 0 .. MaxAccounts /\ linked' = linked
           /\ New(n) \in Rows /\ last' \in Ids
BY NewRow, MaxAccountsAssumption DEF TypeOK, Adds, Ids

LEMMA RemovesType ==
    ASSUME TypeOK, NEW u \in users, Removes(u)
    PROVE  users' \in SUBSET Rows /\ last' = last /\ linked' \in SUBSET Names
BY DEF TypeOK, Removes

LEMMA ChangedRow ==
    ASSUME TypeOK, NEW u \in users, NEW v \in Changed(u)
    PROVE  v \in Rows /\ v.id = u.id
BY DEF TypeOK, Changed, Rows

LEMMA ReplacesType ==
    ASSUME TypeOK, NEW u \in users, NEW v \in Rows, Replaces(u, v)
    PROVE  /\ users' \in SUBSET Rows /\ last' = last
           /\ linked' \in SUBSET Names /\ everLinked' \in SUBSET Names
<1>1. v.name \in Names
  BY DEF Rows
<1>2. linked' \in SUBSET Names
  BY <1>1 DEF TypeOK, Replaces
<1> QED
  BY <1>2 DEF TypeOK, Replaces

-----------------------------------------------------------------------------
(* The type invariant.  Only the router's steps change its table ...       *)
TableType ==
    /\ users \in SUBSET Rows
    /\ last \in 0 .. MaxAccounts
    /\ linked \in SUBSET Names

(* ... the cache holds one of its earlier contents, or nothing ...         *)
ListType ==
    /\ users_cache \in {NoList} \cup SUBSET Rows
    /\ confirmed \in [Ids -> Rows \cup {Gone, Unknown}]

(* ... and the rest belongs to the command.                                *)
CommandType ==
    /\ at \in {"idle", "add", "log", "attach", "verify", "change", "save", "send"}
    /\ name \in Names \cup {NoName}
    /\ uid \in 0 .. MaxAccounts
    /\ left \in 0 .. MaxCount
    /\ existing \in SUBSET Names

BatchType ==
    /\ cards \in Seq(CardType)
    /\ kept \in SUBSET {"saved", "sent"}
    /\ added \in SUBSET Rows
    /\ lost \in SUBSET Rows
    /\ everLinked \in SUBSET Names
    /\ trouble \in SUBSET {"log", "save", "send"}

LEMMA TypeParts ==
    TypeOK <=> /\ table \in {"hotspot", "userman"}
               /\ TableType /\ ListType /\ CommandType /\ BatchType
BY DEF TypeOK, TableType, ListType, CommandType, BatchType, CardType

Inv == TypeOK /\ BatchState

LEMMA InvOfParts ==
    ASSUME table' \in {"hotspot", "userman"}, TableType', ListType', CommandType', BatchType',
           BatchState'
    PROVE  Inv'
BY DEF Inv, TypeOK, TableType, ListType, CommandType, BatchType, CardType

LEMMA InvInit == Init => Inv
<1> SUFFICES ASSUME Init PROVE Inv
  OBVIOUS
<1>1. TableType /\ ListType /\ CommandType
  BY MaxAccountsAssumption, MaxCountAssumption
  DEF Init, TableType, ListType, CommandType
<1>2. BatchType
  BY EmptySeq DEF Init, BatchType
<1>3. BatchState
  BY DEF Init, BatchState, Making
<1> QED
  BY <1>1, <1>2, <1>3, TypeParts DEF Init, Inv

(* A step that leaves the command and its batch alone.                     *)
LEMMA CommandKept ==
    ASSUME Inv, UNCHANGED <<table, command, added, lost, trouble>>,
           everLinked' \in SUBSET Names
    PROVE  CommandType' /\ BatchType' /\ BatchState' /\ table' \in {"hotspot", "userman"}
BY TypeParts DEF Inv, command, CommandType, BatchType, BatchState, Making, IsUserMan

(* A step that ends the command, or moves it on.                           *)
LEMMA EndsType ==
    ASSUME Inv, Ends, UNCHANGED table
    PROVE  CommandType' /\ BatchState'
BY MaxCountAssumption, MaxAccountsAssumption
DEF Ends, CommandType, BatchState, Making, Inv, TypeOK

LEMMA GoesToType ==
    ASSUME Inv, NEW s \in {"save", "send"}, GoesTo(s), UNCHANGED table
    PROVE  CommandType' /\ BatchState'
BY DEF GoesTo, CommandType, BatchState, Making, Inv, TypeOK

LEMMA BeginsType ==
    ASSUME BatchBegins
    PROVE  BatchType' /\ at = "idle"
BY EmptySeq DEF BatchBegins, BatchType, Idle

(* The two steps that hand the cards over.                                 *)
LEMMA HandOverType ==
    ASSUME Inv, UNCHANGED <<table, router, users_cache, cards, added, lost, everLinked, confirmed>>,
           kept' \in SUBSET {"saved", "sent"}, trouble' \in SUBSET {"log", "save", "send"},
           CommandType', BatchState'
    PROVE  Inv'
<1>1. BatchType'
  BY TypeParts DEF BatchType, Inv
<1>2. TableType' /\ ListType'
  BY TypeParts DEF router, TableType, ListType, Inv
<1> QED
  BY <1>1, <1>2, InvOfParts, TypeParts DEF Inv

LEMMA KeptType ==
    ASSUME Inv
    PROVE  /\ kept \in SUBSET {"saved", "sent"}
           /\ trouble \in SUBSET {"log", "save", "send"}
BY TypeParts DEF Inv, BatchType

(* What others do on the router (OthersAdd, OthersRemove, OthersChange).   *)
LEMMA RouterInv == ASSUME Inv, RouterNext PROVE Inv'
<1> USE DEF history
<1>1. CASE OthersAdd
  <2>1. PICK n \in Names : Adds(n)
    BY <1>1 DEF OthersAdd
  <2>2. TableType'
    BY <2>1, AddsType, TypeParts DEF Inv, TableType
  <2>3. ListType'
    BY <1>1, TypeParts DEF OthersAdd, ListType, Inv
  <2>4. everLinked' \in SUBSET Names /\ UNCHANGED <<table, command, added, lost, trouble>>
    BY <1>1, TypeParts DEF OthersAdd, Inv, BatchType
  <2> QED
    BY <2>2, <2>3, <2>4, CommandKept, InvOfParts
<1>2. CASE OthersRemove
  <2>1. PICK u \in users : Removes(u) /\ Confirms(u.id, Unknown)
    BY <1>2 DEF OthersRemove
  <2>2. TableType'
    BY <2>1, RemovesType, TypeParts DEF Inv, TableType
  <2>3. ListType'
    BY <1>2, <2>1, TypeParts DEF OthersRemove, Confirms, ListType, Inv
  <2>4. everLinked' \in SUBSET Names /\ UNCHANGED <<table, command, added, lost, trouble>>
    BY <1>2, TypeParts DEF OthersRemove, Inv, BatchType
  <2> QED
    BY <2>2, <2>3, <2>4, CommandKept, InvOfParts
<1>3. CASE OthersChange
  <2>1. PICK u \in users : \E v \in Changed(u) : Replaces(u, v) /\ Confirms(u.id, Unknown)
    BY <1>3 DEF OthersChange
  <2>a. PICK v \in Changed(u) : Replaces(u, v) /\ Confirms(u.id, Unknown)
    BY <2>1
  <2>2. TableType' /\ everLinked' \in SUBSET Names
    BY <2>a, ChangedRow, ReplacesType, TypeParts DEF Inv, TableType
  <2>3. ListType'
    BY <1>3, <2>a, TypeParts DEF OthersChange, Confirms, ListType, Inv
  <2>4. UNCHANGED <<table, command, added, lost, trouble>>
    BY <1>3 DEF OthersChange
  <2> QED
    BY <2>2, <2>3, <2>4, CommandKept, InvOfParts
<1>4. CASE CacheExpires
  <2>1. TableType' /\ ListType'
    BY <1>4, TypeParts DEF CacheExpires, router, TableType, ListType, Inv
  <2>2. everLinked' \in SUBSET Names /\ UNCHANGED <<table, command, added, lost, trouble>>
    BY <1>4, TypeParts DEF CacheExpires, Inv, BatchType
  <2> QED
    BY <2>1, <2>2, CommandKept, InvOfParts
<1> QED
  BY <1>1, <1>2, <1>3, <1>4 DEF RouterNext

LEMMA RouterParts ==
    ASSUME Inv, UNCHANGED router
    PROVE  TableType'
BY TypeParts DEF Inv, router, TableType

LEMMA AllUsersType == ASSUME Inv PROVE AllUsers \in SUBSET Rows
BY TypeParts DEF Inv, AllUsers, ListType, TableType

(* The changes of hotspot accounts, one call each.                         *)
LEMMA InvalidatesType ==
    ASSUME Inv, NEW i, NEW what \in Rows \cup {Gone}, InvalidatesOr(i, what),
           TableType', everLinked' \in SUBSET Names
    PROVE  Inv'
<1>1. ListType'
  BY TypeParts DEF InvalidatesOr, Confirms, ListType, Inv
<1>2. UNCHANGED <<table, command, added, lost, trouble>>
  BY DEF InvalidatesOr
<1> QED
  BY <1>1, <1>2, CommandKept, InvOfParts

(* Reading the list, of either table.                                      *)
LEMMA ReadsListType == ASSUME Inv, ReadsList PROVE Inv'
<1>1. ListType'
  BY AllUsersType, TypeParts DEF ReadsList, ListType, Inv
<1>2. /\ UNCHANGED <<table, command, added, lost, trouble>>
      /\ UNCHANGED router /\ everLinked' = everLinked
  BY DEF ReadsList, history
<1>3. everLinked' \in SUBSET Names
  BY <1>2, TypeParts DEF Inv, BatchType
<1> QED
  BY <1>1, <1>2, <1>3, RouterParts, CommandKept, InvOfParts

LEMMA HotspotChangeInv ==
    ASSUME Inv, add_user \/ edit_user \/ delete_user \/ reset_user_counters \/ list_users
    PROVE  Inv'
<1>1. everLinked \in SUBSET Names
  BY TypeParts DEF Inv, BatchType
<1>2. CASE add_user
  <2>1. PICK n \in Names : Adds(n) /\ InvalidatesOr(last', New(n)) /\ UNCHANGED everLinked
    BY <1>2 DEF add_user
  <2>2. TableType' /\ New(n) \in Rows
    BY <2>1, AddsType, TypeParts DEF Inv, TableType
  <2> QED
    BY <1>1, <2>1, <2>2, InvalidatesType
<1>3. CASE edit_user
  <2>1. PICK u \in users : \E v \in Changed(u) : Replaces(u, v) /\ InvalidatesOr(u.id, v)
    BY <1>3 DEF edit_user
  <2>2. PICK v \in Changed(u) : Replaces(u, v) /\ InvalidatesOr(u.id, v)
    BY <2>1
  <2>3. v \in Rows /\ TableType' /\ everLinked' \in SUBSET Names
    BY <2>2, ChangedRow, ReplacesType, TypeParts DEF Inv, TableType
  <2> QED
    BY <2>2, <2>3, InvalidatesType
<1>4. CASE delete_user
  <2>1. PICK u \in users : Removes(u) /\ InvalidatesOr(u.id, Gone) /\ UNCHANGED everLinked
    BY <1>4 DEF delete_user
  <2>2. TableType'
    BY <2>1, RemovesType, TypeParts DEF Inv, TableType
  <2> QED
    BY <1>1, <2>1, <2>2, InvalidatesType
<1>5. CASE reset_user_counters
  <2>1. ListType' /\ UNCHANGED <<table, command, added, lost, trouble>> /\ everLinked' = everLinked
        /\ UNCHANGED router
    BY <1>5, TypeParts DEF reset_user_counters, history, Inv, ListType
  <2> QED
    BY <1>1, <2>1, RouterParts, CommandKept, InvOfParts
<1>6. CASE list_users
  BY <1>6, ReadsListType DEF list_users
<1> QED
  BY <1>2, <1>3, <1>4, <1>5, <1>6

(* A card appended to the batch keeps its type.                            *)
LEMMA CardAppended ==
    ASSUME Inv, NEW n \in Names, NEW b \in BOOLEAN, cards' = Append(cards, Card(n, b))
    PROVE  cards' \in Seq(CardType)
BY CardInType, AppendProperties, TypeParts DEF Inv, BatchType

LEMMA HotspotBatchInv ==
    ASSUME Inv, cards_prepare \/ cards_add \/ cards_made
                \/ _create_cards_save \/ _create_cards_send
    PROVE  Inv'
<1> USE DEF history
<1>1. CASE cards_prepare
  <2>1. BatchType' /\ at = "idle"
    BY <1>1, BeginsType DEF cards_prepare
  <2>2. ListType' /\ TableType' /\ table' = table
    BY <1>1, AllUsersType, RouterParts, TypeParts DEF cards_prepare, ListType, Inv
  <2>3. CommandType' /\ BatchState'
    BY <1>1, TypeParts DEF cards_prepare, CommandType, BatchState, Making, Inv
  <2> QED
    BY <2>1, <2>2, <2>3, InvOfParts, TypeParts DEF Inv
<1>2. CASE cards_add
  <2>1. PICK n \in existing : AddsCard(n) /\ existing' = existing \ {n}
    BY <1>2 DEF cards_add
  <2>2. n \in Names
    BY TypeParts DEF Inv, CommandType
  <2>3. CommandType' /\ BatchState' /\ table' = table
    BY <1>2, <2>1, TypeParts DEF cards_add, CommandType, BatchState, Making, Inv
  <2>4. users_cache' = users_cache /\ kept' = kept /\ UNCHANGED <<everLinked, trouble>>
    BY <1>2 DEF cards_add
  <2>5. CASE UNCHANGED <<router, added, lost, cards, confirmed>>
    <3>1. ListType' /\ BatchType'
      BY <2>4, <2>5, TypeParts DEF ListType, BatchType, Inv
    <3> QED
      BY <2>3, <2>5, <3>1, RouterParts, InvOfParts, TypeParts DEF Inv
  <2>6. CASE Adds(n) /\ added' = added \cup {New(n)}
    <3>1. TableType' /\ New(n) \in Rows /\ added' \in SUBSET Rows
      BY <2>2, <2>6, AddsType, TypeParts DEF Inv, TableType, BatchType
    <3>2. CASE cards' = Append(cards, Card(n, FALSE)) /\ Confirms(last', New(n)) /\ UNCHANGED lost
      <4>1. ListType'
        BY <2>4, <3>1, <3>2, TypeParts DEF Confirms, ListType, Inv
      <4>2. BatchType'
        BY <2>2, <2>4, <3>1, <3>2, CardAppended, TypeParts DEF BatchType, Inv
      <4> QED
        BY <2>3, <3>1, <4>1, <4>2, InvOfParts, TypeParts DEF Inv
    <3>3. CASE lost' = lost \cup {New(n)} /\ UNCHANGED <<cards, confirmed>>
      <4>1. ListType' /\ BatchType'
        BY <2>4, <3>1, <3>3, TypeParts DEF ListType, BatchType, Inv
      <4> QED
        BY <2>3, <3>1, <4>1, InvOfParts, TypeParts DEF Inv
    <3> QED
      BY <2>1, <2>6, <3>2, <3>3, <2>5 DEF AddsCard
  <2> QED
    BY <2>1, <2>5, <2>6 DEF AddsCard
<1>3. CASE cards_made
  <2>1. CommandType' /\ BatchState' /\ table' = table
    BY <1>3, EndsType, GoesToType DEF cards_made
  <2>2. ListType' /\ BatchType' /\ UNCHANGED router
    BY <1>3, TypeParts DEF cards_made, invalidate_users_cache, ListType, BatchType, Inv
  <2> QED
    BY <2>1, <2>2, RouterParts, InvOfParts, TypeParts DEF Inv
<1>4. CASE _create_cards_save
  <2>1. GoesTo("send") /\ table' = table
    BY <1>4 DEF _create_cards_save, SaveOr
  <2>2. /\ kept' \in SUBSET {"saved", "sent"} /\ trouble' \in SUBSET {"log", "save", "send"}
        /\ UNCHANGED <<table, router, users_cache, cards, added, lost, everLinked, confirmed>>
    BY <1>4, KeptType DEF _create_cards_save, SaveOr
  <2> QED
    BY <2>1, <2>2, GoesToType, HandOverType
<1>5. CASE _create_cards_send
  <2>1. Ends /\ table' = table
    BY <1>5 DEF _create_cards_send, SendOr
  <2>2. /\ kept' \in SUBSET {"saved", "sent"} /\ trouble' \in SUBSET {"log", "save", "send"}
        /\ UNCHANGED <<table, router, users_cache, cards, added, lost, everLinked, confirmed>>
    BY <1>5, KeptType DEF _create_cards_send, SendOr
  <2> QED
    BY <2>1, <2>2, EndsType, HandOverType
<1> QED
  BY <1>1, <1>2, <1>3, <1>4, <1>5

(* A card that is dropped, and one that is made (_create_user).            *)
LEMMA DroppedType ==
    ASSUME Inv, Making \/ left > 0, Dropped, UNCHANGED table
    PROVE  CommandType' /\ BatchState'
<1>1. left \in 1 .. MaxCount
  BY MaxCountAssumption, TypeParts DEF Inv, BatchState, CommandType
<1> QED
  BY <1>1, MaxCountAssumption, TypeParts
  DEF Dropped, CommandType, BatchState, Making, Inv

LEMMA MadeType ==
    ASSUME Inv, Making, NEW b \in BOOLEAN, Made(b), UNCHANGED table
    PROVE  CommandType' /\ BatchState' /\ cards' \in Seq(CardType)
<1>1. left \in 1 .. MaxCount /\ name \in Names
  BY MaxCountAssumption, TypeParts DEF Inv, BatchState, CommandType
<1>2. cards' \in Seq(CardType)
  BY <1>1, CardAppended DEF Made
<1>3. CommandType' /\ BatchState'
  BY <1>1, MaxCountAssumption, TypeParts
  DEF Made, CommandType, BatchState, Making, Inv
<1> QED
  BY <1>2, <1>3

LEMMA LinksType ==
    ASSUME Inv, LinksOrNot
    PROVE  TableType' /\ everLinked' \in SUBSET Names
BY TypeParts DEF LinksOrNot, Links, router, Inv, TableType, BatchType, Taken, Rows

LEMMA CardAddInv == ASSUME Inv, um_card_add PROVE Inv'
<1>1. /\ IsUserMan /\ at = "add" /\ left > 0
      /\ UNCHANGED <<table, cards, kept, everLinked, trouble>>
  BY DEF um_card_add, CardsLeft
<1>2. CASE Dropped /\ UNCHANGED <<router, users_cache, added, lost, confirmed>>
  <2>1. CommandType' /\ BatchState'
    BY <1>1, <1>2, DroppedType
  <2>2. ListType' /\ BatchType'
    BY <1>1, <1>2, TypeParts DEF ListType, BatchType, Inv
  <2> QED
    BY <1>1, <1>2, <2>1, <2>2, RouterParts, InvOfParts, TypeParts DEF Inv
<1>3. ASSUME NEW n \in Names \ existing, Adds(n), added' = added \cup {New(n)},
             \/ /\ users_cache' = NoList
                /\ Confirms(last', New(n))
                /\ at' = "log" /\ name' = n
                /\ UNCHANGED <<uid, left, existing, lost>>
             \/ Dropped /\ lost' = lost \cup {New(n)} /\ UNCHANGED <<users_cache, confirmed>>
      PROVE  Inv'
  <2>1. TableType' /\ New(n) \in Rows /\ New(n).name = n /\ added' \in SUBSET Rows
    BY <1>3, AddsType, TypeParts DEF Inv, TableType, BatchType, New
  <2>2. CASE /\ users_cache' = NoList
             /\ Confirms(last', New(n))
             /\ at' = "log" /\ name' = n
             /\ UNCHANGED <<uid, left, existing, lost>>
    <3>1. ListType'
      BY <2>1, <2>2, TypeParts DEF Confirms, ListType, Inv
    <3>2. CommandType' /\ BatchType'
      BY <1>1, <2>1, <2>2, TypeParts DEF CommandType, BatchType, Inv
    <3>3. BatchState'
      BY <1>1, <1>3, <2>1, <2>2 DEF BatchState, Making, IsUserMan
    <3> QED
      BY <1>1, <2>1, <3>1, <3>2, <3>3, InvOfParts, TypeParts DEF Inv
  <2>3. CASE Dropped /\ lost' = lost \cup {New(n)} /\ UNCHANGED <<users_cache, confirmed>>
    <3>1. CommandType' /\ BatchState'
      BY <1>1, <2>3, DroppedType
    <3>2. ListType' /\ BatchType'
      BY <1>1, <2>1, <2>3, TypeParts DEF ListType, BatchType, Inv
    <3> QED
      BY <1>1, <2>1, <3>1, <3>2, InvOfParts, TypeParts DEF Inv
  <2> QED
    BY <1>3, <2>2, <2>3
<1> QED
  BY <1>2, <1>3 DEF um_card_add

LEMMA UserManBatchInv ==
    ASSUME Inv, um_cards_begin \/ um_card_add \/ um_card_log \/ um_card_attach
                \/ um_card_verify \/ um_cards_made \/ um_cards_send \/ um_cards_save
    PROVE  Inv'
<1> USE DEF history
<1>1. CASE um_cards_begin
  <2>1. BatchType' /\ at = "idle"
    BY <1>1, BeginsType DEF um_cards_begin
  <2>2. ListType' /\ UNCHANGED router /\ table' = table
    BY <1>1, TypeParts DEF um_cards_begin, ListType, Inv
  <2>3. existing' \in SUBSET Names
    BY <1>1, TypeParts DEF um_cards_begin, Inv, TableType, Taken, Rows
  <2>4. CommandType' /\ BatchState'
    BY <1>1, <2>3, MaxCountAssumption, TypeParts
    DEF um_cards_begin, CommandType, BatchState, Making, Inv
  <2> QED
    BY <2>1, <2>2, <2>4, RouterParts, InvOfParts, TypeParts DEF Inv
<1>2. CASE um_card_add
  BY <1>2, CardAddInv
<1>3. CASE um_card_log
  <2>1. Making /\ UNCHANGED <<table, router, users_cache, cards, kept, added, lost,
                             everLinked, confirmed>>
    BY <1>3 DEF um_card_log, Making
  <2>2. CASE GoesTo("attach") /\ UNCHANGED trouble
    BY <2>1, <2>2, RouterParts, InvOfParts, TypeParts
    DEF GoesTo, Inv, ListType, CommandType, BatchType, BatchState, Making, IsUserMan
  <2>3. CASE trouble' = trouble \cup {"log"} /\ Dropped
    <3>1. CommandType' /\ BatchState'
      BY <2>1, <2>3, DroppedType
    <3>2. ListType' /\ BatchType'
      BY <2>1, <2>3, TypeParts DEF Inv, ListType, BatchType
    <3> QED
      BY <2>1, <3>1, <3>2, RouterParts, InvOfParts, TypeParts DEF Inv
  <2> QED
    BY <1>3, <2>2, <2>3 DEF um_card_log
<1>4. CASE um_card_attach
  <2>1. Making /\ UNCHANGED <<table, users_cache, kept, added, lost, trouble, confirmed>>
    BY <1>4 DEF um_card_attach, _attach_profile, Making
  <2>2. TableType' /\ everLinked' \in SUBSET Names
    BY <1>4, LinksType DEF um_card_attach, _attach_profile
  <2>3. ListType'
    BY <2>1, TypeParts DEF Inv, ListType
  <2>4. CASE at' = "verify" /\ UNCHANGED <<name, uid, left, existing, cards>>
    <3>1. CommandType' /\ BatchType' /\ BatchState'
      BY <2>1, <2>2, <2>4, TypeParts
      DEF Inv, CommandType, BatchType, BatchState, Making, IsUserMan
    <3> QED
      BY <2>1, <2>2, <2>3, <3>1, InvOfParts, TypeParts DEF Inv
  <2>5. CASE Made(FALSE)
    <3>1. CommandType' /\ BatchState' /\ cards' \in Seq(CardType)
      BY <2>1, <2>5, MadeType
    <3>2. BatchType'
      BY <2>1, <2>2, <3>1, TypeParts DEF Inv, BatchType
    <3> QED
      BY <2>1, <2>2, <2>3, <3>1, <3>2, InvOfParts, TypeParts DEF Inv
  <2> QED
    BY <1>4, <2>4, <2>5 DEF um_card_attach, _attach_profile
<1>5. CASE um_card_verify
  <2>1. Making /\ UNCHANGED <<table, router, users_cache, kept, history, confirmed>>
    BY <1>5 DEF um_card_verify, Making
  <2>a. Made(name \in linked) \/ Made(FALSE)
    BY <1>5 DEF um_card_verify, _verify_profile_link
  <2>b. (name \in linked) \in BOOLEAN
    OBVIOUS
  <2>2. PICK b \in BOOLEAN : Made(b)
    BY <2>a, <2>b
  <2>3. CommandType' /\ BatchState' /\ cards' \in Seq(CardType)
    BY <2>1, <2>2, MadeType
  <2>4. ListType' /\ BatchType'
    BY <2>1, <2>3, TypeParts DEF Inv, ListType, BatchType
  <2> QED
    BY <2>1, <2>3, <2>4, RouterParts, InvOfParts, TypeParts DEF Inv
<1>6. CASE um_cards_made
  <2>1. CommandType' /\ BatchState'
    BY <1>6, EndsType, GoesToType DEF um_cards_made
  <2>2. /\ kept' \in SUBSET {"saved", "sent"} /\ trouble' \in SUBSET {"log", "save", "send"}
        /\ UNCHANGED <<table, router, users_cache, cards, added, lost, everLinked, confirmed>>
    BY <1>6, KeptType DEF um_cards_made
  <2> QED
    BY <2>1, <2>2, HandOverType
<1>7. CASE um_cards_send
  <2>1. CommandType' /\ BatchState'
    BY <1>7, EndsType, GoesToType DEF um_cards_send, SendOr
  <2>2. /\ kept' \in SUBSET {"saved", "sent"} /\ trouble' \in SUBSET {"log", "save", "send"}
        /\ UNCHANGED <<table, router, users_cache, cards, added, lost, everLinked, confirmed>>
    BY <1>7, KeptType DEF um_cards_send, SendOr
  <2> QED
    BY <2>1, <2>2, HandOverType
<1>8. CASE um_cards_save
  <2>1. CommandType' /\ BatchState'
    BY <1>8, EndsType DEF um_cards_save, SaveOr
  <2>2. /\ kept' \in SUBSET {"saved", "sent"} /\ trouble' \in SUBSET {"log", "save", "send"}
        /\ UNCHANGED <<table, router, users_cache, cards, added, lost, everLinked, confirmed>>
    BY <1>8, KeptType DEF um_cards_save, SaveOr
  <2> QED
    BY <2>1, <2>2, HandOverType
<1> QED
  BY <1>1, <1>2, <1>3, <1>4, <1>5, <1>6, <1>7, <1>8

LEMMA UserManChangeInv ==
    ASSUME Inv, um_list_users \/ _get_user_id \/ um_change \/ add_profile_to_user
    PROVE  Inv'
<1> USE DEF history
<1>1. CASE um_list_users
  BY <1>1, ReadsListType DEF um_list_users
<1>2. CASE _get_user_id
  <2>1. /\ IsUserMan /\ at = "idle" /\ at' = "change"
        /\ UNCHANGED <<table, router, name, left, existing, cards, kept, history, confirmed>>
    BY <1>2 DEF _get_user_id, Idle
  <2>2. uid' \in 0 .. MaxAccounts /\ users_cache' \in {NoList} \cup SUBSET Rows
    BY <1>2, AllUsersType, MaxAccountsAssumption, TypeParts
    DEF _get_user_id, Found, Inv, TableType, ListType, Rows, Ids
  <2>3. ListType' /\ CommandType' /\ BatchType' /\ BatchState'
    BY <2>1, <2>2, TypeParts
    DEF Inv, ListType, CommandType, BatchType, BatchState, Making, IsUserMan
  <2> QED
    BY <2>1, <2>3, RouterParts, InvOfParts, TypeParts DEF Inv
<1>3. CASE um_change
  <2>1. CommandType' /\ BatchState'
        /\ UNCHANGED <<table, users_cache, cards, kept, added, lost, trouble>>
    BY <1>3, EndsType DEF um_change
  <2>2. CASE UNCHANGED <<router, everLinked, confirmed>>
    <3>1. ListType' /\ BatchType'
      BY <2>1, <2>2, TypeParts DEF Inv, ListType, BatchType
    <3> QED
      BY <2>1, <2>2, <3>1, RouterParts, InvOfParts, TypeParts DEF Inv
  <2>3. ASSUME NEW u \in users, Confirms(u.id, Unknown),
               (Removes(u) /\ UNCHANGED everLinked) \/ Replaces(u, [u EXCEPT !.disabled = ~ @])
        PROVE  Inv'
    <3>1. [u EXCEPT !.disabled = ~ @] \in Changed(u)
      BY DEF Changed
    <3>2. TableType' /\ everLinked' \in SUBSET Names
      BY <2>3, <3>1, ChangedRow, RemovesType, ReplacesType, TypeParts
      DEF Inv, TableType, BatchType
    <3>3. ListType' /\ BatchType'
      BY <2>1, <2>3, <3>2, TypeParts DEF Confirms, Inv, ListType, BatchType
    <3> QED
      BY <2>1, <3>2, <3>3, InvOfParts, TypeParts DEF Inv
  <2>4. ASSUME NEW u \in users, Unlinks(u.name), UNCHANGED <<everLinked, confirmed>>
        PROVE  Inv'
    <3>1. TableType' /\ ListType' /\ BatchType'
      BY <2>1, <2>4, TypeParts DEF Unlinks, Inv, TableType, ListType, BatchType
    <3> QED
      BY <2>1, <3>1, InvOfParts, TypeParts DEF Inv
  <2> QED
    BY <1>3, <2>2, <2>3, <2>4 DEF um_change
<1>4. CASE add_profile_to_user
  <2>1. UNCHANGED <<table, users_cache, command, added, lost, trouble, confirmed>>
        /\ \E n \in Names : Links(n)
    BY <1>4 DEF add_profile_to_user
  <2>2. TableType' /\ everLinked' \in SUBSET Names
    BY <2>1, TypeParts DEF Links, Inv, TableType, BatchType
  <2>3. ListType'
    BY <2>1, TypeParts DEF Inv, ListType
  <2> QED
    BY <2>1, <2>2, <2>3, CommandKept, InvOfParts
<1> QED
  BY <1>1, <1>2, <1>3, <1>4

LEMMA InvNext == Inv /\ [Next]_vars => Inv'
<1> SUFFICES ASSUME Inv, [Next]_vars PROVE Inv'
  OBVIOUS
<1>1. CASE UNCHANGED vars
  BY <1>1, TypeParts, InvOfParts
  DEF vars, Inv, TableType, ListType, CommandType, BatchType, BatchState, Making, IsUserMan
<1> QED
  BY <1>1, RouterInv, HotspotChangeInv, HotspotBatchInv, UserManBatchInv, UserManChangeInv
  DEF Next, HotspotUsersNext, UserManagerUsersNext

LEMMA InvAlways == Spec => []Inv
BY InvInit, InvNext, PTL DEF Spec

(* The table, the cache and the running command have their types for any   *)
(* names, bounds and behaviour of the router's other administrators.       *)
THEOREM AccountsTypeCorrect == Spec => []TypeOK
<1>1. Inv => TypeOK
  BY DEF Inv
<1> QED
  BY <1>1, InvAlways, PTL

-----------------------------------------------------------------------------
(* Cards.  Only accounts of the table are linked, an account in the making *)
(* is linked only by what happens meanwhile (its name was free when it was *)
(* added), and the names a batch has cards for are apart from the ones it  *)
(* will still use.                                                         *)
LinkedTaken == linked \subseteq Taken

NewlyLinked == Making => (name \in linked => name \in everLinked)

NamesApart ==
    /\ IsHotspot /\ at = "add" => \A i \in 1 .. Len(cards) : cards[i].name \notin existing
    /\ IsUserMan /\ (Making \/ at = "add") => \A i \in 1 .. Len(cards) : cards[i].name \in existing

CardInv == CardsAreOurs /\ LinkedTaken /\ NewlyLinked /\ NamesApart

LEMMA CardInvInit == Init => CardInv
BY DEF Init, CardInv, CardsAreOurs, LinkedTaken, NewlyLinked, NamesApart, Making

(* LinkedTaken through the changes of the table.                           *)
LEMMA AddsLinked ==
    ASSUME TypeOK, LinkedTaken, NEW n \in Names, Adds(n)
    PROVE  LinkedTaken' /\ n \notin linked'
BY DEF LinkedTaken, Adds, Taken

LEMMA RemovesLinked == ASSUME LinkedTaken, NEW u \in users, Removes(u) PROVE LinkedTaken'
BY DEF LinkedTaken, Removes, Taken

LEMMA ReplacesLinked ==
    ASSUME LinkedTaken, NEW u \in users, NEW v, Replaces(u, v)
    PROVE  /\ LinkedTaken'
           /\ everLinked \subseteq everLinked' /\ linked' \subseteq everLinked'
BY DEF LinkedTaken, Replaces, Taken

LEMMA LinksLinked ==
    ASSUME LinkedTaken, NEW n, Links(n)
    PROVE  /\ LinkedTaken' /\ everLinked' = everLinked \cup {n} /\ linked' = linked \cup {n}
BY DEF LinkedTaken, Links, Taken

(* A step that makes no card.                                              *)
LEMMA CardsStay ==
    ASSUME CardInv, UNCHANGED cards, added \subseteq added', everLinked \subseteq everLinked'
    PROVE  CardsAreOurs'
BY DEF CardInv, CardsAreOurs

LEMMA CommandStays ==
    ASSUME CardInv, UNCHANGED <<table, command, added>>, everLinked \subseteq everLinked',
           LinkedTaken', Making => (name \in linked' => name \in everLinked')
    PROVE  CardInv'
BY CardsStay DEF CardInv, command, NewlyLinked, NamesApart, Making, IsHotspot, IsUserMan

LEMMA RouterCards == ASSUME Inv, CardInv, RouterNext PROVE CardInv'
<1> USE DEF history
<1>1. CASE OthersAdd
  <2>1. PICK n \in Names : Adds(n)
    BY <1>1 DEF OthersAdd
  <2>2. LinkedTaken' /\ linked' = linked
    BY <2>1, AddsLinked DEF Inv, CardInv, Adds
  <2> QED
    BY <1>1, <2>2, CommandStays DEF OthersAdd, CardInv, NewlyLinked
<1>2. CASE OthersRemove
  <2>1. PICK u \in users : Removes(u)
    BY <1>2 DEF OthersRemove
  <2>2. LinkedTaken' /\ linked' \subseteq linked
    BY <2>1, RemovesLinked DEF CardInv, Removes
  <2> QED
    BY <1>2, <2>2, CommandStays DEF OthersRemove, CardInv, NewlyLinked
<1>3. CASE OthersChange
  <2>1. PICK u \in users : \E v \in Changed(u) : Replaces(u, v)
    BY <1>3 DEF OthersChange
  <2>2. LinkedTaken' /\ everLinked \subseteq everLinked' /\ linked' \subseteq everLinked'
    BY <2>1, ReplacesLinked DEF CardInv
  <2> QED
    BY <1>3, <2>2, CommandStays DEF OthersChange
<1>4. CASE CacheExpires
  <2>1. LinkedTaken'
    BY <1>4 DEF CacheExpires, router, CardInv, LinkedTaken, Taken
  <2> QED
    BY <1>4, <2>1, CommandStays DEF CacheExpires, router, CardInv, NewlyLinked
<1> QED
  BY <1>1, <1>2, <1>3, <1>4 DEF RouterNext

(* The commands of one call.                                               *)
LEMMA CallCards ==
    ASSUME Inv, CardInv,
           \/ add_user \/ edit_user \/ delete_user \/ reset_user_counters \/ list_users
           \/ um_list_users \/ add_profile_to_user
    PROVE  CardInv'
<1> USE DEF history
<1>1. at = "idle" /\ UNCHANGED <<table, command, added>>
  BY DEF add_user, edit_user, delete_user, reset_user_counters, list_users, um_list_users,
         add_profile_to_user, InvalidatesOr, ReadsList, Idle
<1>2. LinkedTaken' /\ everLinked \subseteq everLinked'
  <2>1. CASE add_user
    BY <2>1, AddsLinked DEF add_user, Inv, CardInv
  <2>2. CASE edit_user
    BY <2>2, ReplacesLinked DEF edit_user, CardInv
  <2>3. CASE delete_user
    BY <2>3, RemovesLinked DEF delete_user, CardInv
  <2>4. CASE reset_user_counters \/ list_users \/ um_list_users
    BY <2>4 DEF reset_user_counters, list_users, um_list_users, ReadsList, router, CardInv,
                LinkedTaken, Taken
  <2>5. CASE add_profile_to_user
    BY <2>5, LinksLinked DEF add_profile_to_user, CardInv
  <2> QED
    BY <2>1, <2>2, <2>3, <2>4, <2>5
<1> QED
  BY <1>1, <1>2, CommandStays DEF Making

LEMMA BeginsCards ==
    ASSUME BatchBegins, LinkedTaken', at' = "add"
    PROVE  CardInv'
BY DEF BatchBegins, CardInv, CardsAreOurs, NewlyLinked, NamesApart, Making

(* The last steps of a batch: nothing is made any more.                    *)
LEMMA HandOverCards ==
    ASSUME CardInv, UNCHANGED <<router, cards, added, everLinked>>,
           at' \in {"idle", "save", "send"}
    PROVE  CardInv'
BY CardsStay DEF CardInv, router, LinkedTaken, Taken, NewlyLinked, NamesApart, Making

(* A card of an account this batch added, under a name no card has yet.    *)
LEMMA CardAppendedOurs ==
    ASSUME Inv, CardInv, NEW n \in Names, NEW b \in BOOLEAN,
           cards' = Append(cards, Card(n, b)),
           \E a \in added' : a.name = n, b => n \in everLinked',
           \A i \in 1 .. Len(cards) : cards[i].name # n,
           added \subseteq added', everLinked \subseteq everLinked'
    PROVE  /\ CardsAreOurs'
           /\ \A i \in 1 .. Len(cards') :
                 cards'[i].name = n \/ \E j \in 1 .. Len(cards) : cards'[i].name = cards[j].name
<1>1. /\ Len(cards) \in Nat /\ Len(cards') = Len(cards) + 1
      /\ \A i \in 1 .. Len(cards) : cards'[i] = cards[i]
      /\ cards'[Len(cards) + 1] = Card(n, b)
  BY CardInType, AppendProperties, LenProperties, TypeParts DEF Inv, BatchType
<1>2. Card(n, b).name = n /\ Card(n, b).linked = b
  BY CardInType
<1>3. ASSUME NEW i \in 1 .. Len(cards')
      PROVE  /\ \E a \in added' : a.name = cards'[i].name
             /\ cards'[i].linked => cards'[i].name \in everLinked'
             /\ cards'[i].name = n \/ \E j \in 1 .. Len(cards) : cards'[i].name = cards[j].name
  <2>1. CASE i \in 1 .. Len(cards)
    BY <1>1, <2>1 DEF CardInv, CardsAreOurs
  <2>2. CASE i = Len(cards) + 1
    BY <1>1, <1>2, <2>2
  <2> QED
    BY <1>1, <2>1, <2>2
<1>4. ASSUME NEW i \in 1 .. Len(cards'), NEW j \in 1 .. Len(cards'), i # j
      PROVE  cards'[i].name # cards'[j].name
  BY <1>1, <1>2, <1>4 DEF CardInv, CardsAreOurs
<1> QED
  BY <1>3, <1>4 DEF CardsAreOurs

LEMMA HotspotBatchCards ==
    ASSUME Inv, CardInv, cards_prepare \/ cards_add \/ cards_made
                         \/ _create_cards_save \/ _create_cards_send
    PROVE  CardInv'
<1> USE DEF history
<1>1. CASE cards_prepare
  BY <1>1, BeginsCards DEF cards_prepare, router, CardInv, LinkedTaken, Taken
<1>2. CASE cards_add
  <2>1. PICK n \in existing : AddsCard(n) /\ existing' = existing \ {n}
    BY <1>2 DEF cards_add
  <2>2. /\ IsHotspot /\ at = "add" /\ n \in Names
        /\ UNCHANGED <<table, at, name, everLinked>>
    BY <1>2, TypeParts DEF cards_add, Inv, CommandType
  <2>3. NewlyLinked'
    BY <2>2 DEF NewlyLinked, Making
  <2>4. LinkedTaken' /\ added \subseteq added'
    BY <2>1, <2>2, AddsLinked DEF AddsCard, router, CardInv, LinkedTaken, Taken, Inv
  <2>5. CASE cards' = cards
    <3>1. NamesApart'
      BY <2>1, <2>2, <2>5 DEF CardInv, NamesApart, IsHotspot, IsUserMan, Making
    <3> QED
      BY <2>2, <2>3, <2>4, <2>5, <3>1, CardsStay DEF CardInv
  <2>6. CASE cards' = Append(cards, Card(n, FALSE)) /\ added' = added \cup {New(n)}
    <3>1. \A i \in 1 .. Len(cards) : cards[i].name \notin existing
      BY <2>2 DEF CardInv, NamesApart
    <3>a. New(n) \in added' /\ New(n).name = n
      BY <2>6 DEF New
    <3>2. \E a \in added' : a.name = n
      BY <3>a
    <3>3. /\ CardsAreOurs'
          /\ \A i \in 1 .. Len(cards') :
                cards'[i].name = n \/ \E j \in 1 .. Len(cards) : cards'[i].name = cards[j].name
      BY <2>1, <2>2, <2>4, <2>6, <3>1, <3>2, CardAppendedOurs
    <3>4. NamesApart'
      BY <2>1, <2>2, <3>1, <3>3 DEF NamesApart, IsHotspot, IsUserMan, Making
    <3> QED
      BY <2>3, <2>4, <3>3, <3>4 DEF CardInv
  <2> QED
    BY <2>1, <2>5, <2>6 DEF AddsCard
<1>3. CASE cards_made
  BY <1>3, HandOverCards DEF cards_made, Ends, GoesTo
<1>4. CASE _create_cards_save
  BY <1>4, HandOverCards DEF _create_cards_save, SaveOr, GoesTo
<1>5. CASE _create_cards_send
  BY <1>5, HandOverCards DEF _create_cards_send, SendOr, Ends
<1> QED
  BY <1>1, <1>2, <1>3, <1>4, <1>5

(* _create_user's two ends.                                                *)
LEMMA DroppedCards ==
    ASSUME CardInv, IsUserMan, Making \/ at = "add", Dropped, UNCHANGED <<table, cards>>,
           LinkedTaken', added \subseteq added', everLinked \subseteq everLinked'
    PROVE  CardInv'
BY CardsStay DEF Dropped, CardInv, NewlyLinked, NamesApart, Making, IsHotspot, IsUserMan

LEMMA MadeCards ==
    ASSUME Inv, CardInv, Making, NEW b \in BOOLEAN, Made(b), UNCHANGED <<table, added>>,
           LinkedTaken', everLinked \subseteq everLinked', b => name \in everLinked'
    PROVE  CardInv'
<1>1. /\ IsUserMan /\ name \in Names \ existing /\ \E a \in added' : a.name = name
  BY DEF Inv, BatchState
<1>2. \A i \in 1 .. Len(cards) : cards[i].name \in existing
  BY <1>1 DEF CardInv, NamesApart
<1>3. cards' = Append(cards, Card(name, b)) /\ existing' = existing \cup {name} /\ at' = "add"
  BY DEF Made
<1>4. /\ CardsAreOurs'
      /\ \A i \in 1 .. Len(cards') :
            cards'[i].name = name \/ \E j \in 1 .. Len(cards) : cards'[i].name = cards[j].name
  BY <1>1, <1>2, <1>3, CardAppendedOurs
<1>5. NamesApart' /\ NewlyLinked'
  BY <1>1, <1>2, <1>3, <1>4 DEF NamesApart, NewlyLinked, Making, IsHotspot, IsUserMan
<1> QED
  BY <1>4, <1>5 DEF CardInv

LEMMA UserManBatchCards ==
    ASSUME Inv, CardInv,
           um_cards_begin \/ um_card_add \/ um_card_log \/ um_card_attach
           \/ um_card_verify \/ um_cards_made \/ um_cards_send \/ um_cards_save
    PROVE  CardInv'
<1> USE DEF history
<1>1. CASE um_cards_begin
  BY <1>1, BeginsCards DEF um_cards_begin, router, CardInv, LinkedTaken, Taken
<1>2. CASE um_card_add
  <2>1. /\ IsUserMan /\ at = "add" /\ UNCHANGED <<table, cards, everLinked>>
    BY <1>2 DEF um_card_add
  <2>2. CASE Dropped /\ UNCHANGED <<router, added>>
    BY <2>1, <2>2, DroppedCards DEF router, CardInv, LinkedTaken, Taken
  <2>3. ASSUME NEW n \in Names \ existing, Adds(n), added' = added \cup {New(n)},
               \/ at' = "log" /\ name' = n /\ UNCHANGED existing
               \/ Dropped
        PROVE  CardInv'
    <3>1. LinkedTaken' /\ n \notin linked'
      BY <2>3, AddsLinked DEF Inv, CardInv
    <3>2. CASE at' = "log" /\ name' = n /\ UNCHANGED existing
      BY <2>1, <2>3, <3>1, <3>2, CardsStay
      DEF CardInv, NewlyLinked, NamesApart, Making, IsHotspot, IsUserMan
    <3>3. CASE Dropped
      BY <2>1, <2>3, <3>1, <3>3, DroppedCards
    <3> QED
      BY <2>3, <3>2, <3>3
  <2> QED
    BY <1>2, <2>2, <2>3 DEF um_card_add
<1>3. CASE um_card_log
  <2>1. /\ IsUserMan /\ Making
        /\ UNCHANGED <<table, router, cards, added, everLinked>>
    BY <1>3 DEF um_card_log, Making
  <2>2. LinkedTaken'
    BY <2>1 DEF router, CardInv, LinkedTaken, Taken
  <2>3. CASE GoesTo("attach")
    BY <2>1, <2>2, <2>3, CardsStay
    DEF GoesTo, router, CardInv, NewlyLinked, NamesApart, Making, IsHotspot, IsUserMan
  <2>4. CASE Dropped
    BY <2>1, <2>2, <2>4, DroppedCards
  <2> QED
    BY <1>3, <2>3, <2>4 DEF um_card_log
<1>4. CASE um_card_attach
  <2>1. /\ Making /\ IsUserMan /\ LinksOrNot /\ UNCHANGED <<table, added>>
    BY <1>4 DEF um_card_attach, _attach_profile, Making
  <2>2. LinkedTaken' /\ everLinked \subseteq everLinked'
        /\ (name \in linked' => name \in everLinked')
    BY <2>1, LinksLinked DEF LinksOrNot, router, CardInv, LinkedTaken, Taken, NewlyLinked
  <2>3. CASE at' = "verify" /\ UNCHANGED <<name, uid, left, existing, cards>>
    BY <2>1, <2>2, <2>3, CardsStay
    DEF CardInv, NewlyLinked, NamesApart, Making, IsHotspot, IsUserMan
  <2>4. CASE Made(FALSE)
    BY <2>1, <2>2, <2>4, MadeCards
  <2> QED
    BY <1>4, <2>3, <2>4 DEF um_card_attach, _attach_profile
<1>5. CASE um_card_verify
  <2>1. /\ Making /\ UNCHANGED <<table, router, added, everLinked>>
    BY <1>5 DEF um_card_verify, Making
  <2>2. Made(name \in linked) \/ Made(FALSE)
    BY <1>5 DEF um_card_verify, _verify_profile_link
  <2>3. (name \in linked) \in BOOLEAN
    OBVIOUS
  <2>4. PICK b \in BOOLEAN : Made(b) /\ (b => name \in linked)
    BY <2>2, <2>3
  <2>5. LinkedTaken' /\ (b => name \in everLinked')
    BY <2>1, <2>4 DEF router, CardInv, LinkedTaken, Taken, NewlyLinked
  <2> QED
    BY <2>1, <2>4, <2>5, MadeCards
<1>6. CASE um_cards_made
  BY <1>6, HandOverCards DEF um_cards_made, Ends, GoesTo
<1>7. CASE um_cards_send
  BY <1>7, HandOverCards DEF um_cards_send, SendOr, Ends, GoesTo
<1>8. CASE um_cards_save
  BY <1>8, HandOverCards DEF um_cards_save, SaveOr, Ends
<1> QED
  BY <1>1, <1>2, <1>3, <1>4, <1>5, <1>6, <1>7, <1>8

LEMMA UserManChangeCards ==
    ASSUME Inv, CardInv, _get_user_id \/ um_change
    PROVE  CardInv'
<1> USE DEF history
<1>1. CASE _get_user_id
  <2>1. /\ at = "idle" /\ at' = "change" /\ UNCHANGED <<router, cards, added, everLinked>>
    BY <1>1 DEF _get_user_id, Idle
  <2> QED
    BY <2>1, CardsStay DEF CardInv, router, LinkedTaken, Taken, NewlyLinked, NamesApart, Making
<1>2. CASE um_change
  <2>1. /\ at' = "idle" /\ UNCHANGED <<cards, added>>
    BY <1>2 DEF um_change, Ends
  <2>2. LinkedTaken' /\ everLinked \subseteq everLinked'
    BY <1>2, RemovesLinked, ReplacesLinked DEF um_change, Unlinks, router, CardInv, LinkedTaken, Taken
  <2> QED
    BY <2>1, <2>2, CardsStay DEF CardInv, NewlyLinked, NamesApart, Making
<1> QED
  BY <1>1, <1>2

LEMMA CardInvNext == Inv /\ CardInv /\ [Next]_vars => CardInv'
<1> SUFFICES ASSUME Inv, CardInv, [Next]_vars PROVE CardInv'
  OBVIOUS
<1>1. CASE UNCHANGED vars
  BY <1>1, CardsStay
  DEF vars, CardInv, LinkedTaken, Taken, NewlyLinked, NamesApart, Making, IsHotspot, IsUserMan
<1> QED
  BY <1>1, RouterCards, CallCards, HotspotBatchCards, UserManBatchCards, UserManChangeCards
  DEF Next, HotspotUsersNext, UserManagerUsersNext

(* No card is handed over for an account of somebody else, or twice, and   *)
(* none claims a profile that was never linked, whatever others do to the  *)
(* table while a batch of any size is made.                                *)
THEOREM CardsSafe == Spec => []CardsAreOurs
<1>1. CardInv => CardsAreOurs
  BY DEF CardInv
<1> QED
  BY <1>1, InvInit, InvNext, CardInvInit, CardInvNext, PTL DEF Spec

-----------------------------------------------------------------------------
(* No card is forgotten.  An account a batch added has its card, or a      *)
(* reason not to, or it is the one in the making; a batch is over only     *)
(* after both of the calls that keep it were tried.                        *)
Covered ==
    \A a \in added : \/ HasCard(a)
                     \/ a \in lost
                     \/ IsUserMan /\ "log" \in trouble
                     \/ Making /\ a.name = name

HandedOver ==
    /\ IsHotspot /\ at = "send" => "saved" \in kept \/ "save" \in trouble
    /\ IsUserMan /\ at = "save" => "sent" \in kept
    /\ at \in {"idle", "change"} =>
          \/ cards = <<>>
          \/ kept # {}
          \/ IsHotspot /\ {"save", "send"} \subseteq trouble
          \/ IsUserMan /\ trouble \cap {"log", "send"} # {}

KeptInv == Covered /\ HandedOver

LEMMA KeptInvInit == Init => KeptInv
BY DEF Init, KeptInv, Covered, HandedOver

LEMMA KeptInvKeeps == ASSUME Inv, KeptInv PROVE CardsKept
<1> SUFFICES ASSUME at = "idle", NEW a \in added
             PROVE  \/ HasCard(a) /\ kept # {}
                    \/ a \in lost
                    \/ IsHotspot /\ {"save", "send"} \subseteq trouble
                    \/ IsUserMan /\ trouble \cap {"log", "send"} # {}
  BY DEF CardsKept, Idle
<1>1. ~Making
  BY DEF Making
<1>2. HasCard(a) => cards # <<>>
  BY EmptySeq DEF HasCard
<1> QED
  BY <1>1, <1>2 DEF KeptInv, Covered, HandedOver

(* A step that leaves the batch alone.                                     *)
LEMMA BatchStays ==
    ASSUME KeptInv, UNCHANGED <<table, cards, kept, added, lost, trouble, name>>,
           at' = at \/ (at = "idle" /\ at' = "change") \/ (at = "change" /\ at' = "idle")
    PROVE  KeptInv'
BY DEF KeptInv, Covered, HandedOver, HasCard, Making, IsHotspot, IsUserMan

LEMMA BeginsKept ==
    ASSUME BatchBegins, at' = "add"
    PROVE  KeptInv'
BY DEF BatchBegins, KeptInv, Covered, HandedOver

(* A card that is made keeps the others.                                   *)
LEMMA HasCardKept ==
    ASSUME Inv, NEW n \in Names, NEW b \in BOOLEAN, cards' = Append(cards, Card(n, b))
    PROVE  /\ \A a : HasCard(a) => HasCard(a)'
           /\ \A a : a.name = n => HasCard(a)'
<1>1. /\ Len(cards) \in Nat /\ Len(cards') = Len(cards) + 1
      /\ \A i \in 1 .. Len(cards) : cards'[i] = cards[i]
      /\ cards'[Len(cards) + 1].name = n
  BY CardInType, AppendProperties, LenProperties, TypeParts DEF Inv, BatchType
<1> QED
  BY <1>1 DEF HasCard

(* The last steps: which of the two calls that keep the batch failed.      *)
LEMMA HandOverKept ==
    ASSUME KeptInv, at \in {"add", "save", "send"}, UNCHANGED <<table, cards, added, lost>>,
           trouble \subseteq trouble', HandedOver'
    PROVE  KeptInv'
BY DEF KeptInv, Covered, HasCard, Making, IsUserMan

LEMMA HotspotBatchKept ==
    ASSUME Inv, KeptInv, cards_prepare \/ cards_add \/ cards_made
                         \/ _create_cards_save \/ _create_cards_send
    PROVE  KeptInv'
<1> USE DEF history
<1>1. CASE cards_prepare
  BY <1>1, BeginsKept DEF cards_prepare
<1>2. CASE cards_add
  <2>1. PICK n \in existing : AddsCard(n)
    BY <1>2 DEF cards_add
  <2>2. /\ IsHotspot /\ at = "add" /\ n \in Names
        /\ UNCHANGED <<table, at, name, kept, trouble>>
    BY <1>2, TypeParts DEF cards_add, Inv, CommandType
  <2>3. ~Making /\ ~IsUserMan /\ HandedOver'
    BY <2>2 DEF Making, HandedOver, IsHotspot, IsUserMan
  <2>4. CASE UNCHANGED <<added, lost, cards>>
    BY <2>2, <2>4, BatchStays
  <2>5. CASE added' = added \cup {New(n)} /\ cards' = Append(cards, Card(n, FALSE)) /\ lost' = lost
    <3>1. New(n).name = n
      BY DEF New
    <3>2. \A a \in added' : HasCard(a)' \/ a \in lost'
      BY <2>2, <2>3, <2>5, <3>1, HasCardKept DEF KeptInv, Covered
    <3> QED
      BY <2>3, <3>2 DEF KeptInv, Covered
  <2>6. CASE added' = added \cup {New(n)} /\ lost' = lost \cup {New(n)} /\ cards' = cards
    <3>1. \A a \in added' : HasCard(a)' \/ a \in lost'
      BY <2>3, <2>6 DEF KeptInv, Covered, HasCard
    <3> QED
      BY <2>3, <3>1 DEF KeptInv, Covered
  <2> QED
    BY <2>1, <2>4, <2>5, <2>6 DEF AddsCard
<1>3. CASE cards_made
  <2>1. HandedOver'
    BY <1>3 DEF cards_made, Ends, GoesTo, HandedOver, IsHotspot, IsUserMan
  <2> QED
    BY <1>3, <2>1, HandOverKept DEF cards_made
<1>4. CASE _create_cards_save
  <2>1. HandedOver'
    BY <1>4 DEF _create_cards_save, SaveOr, GoesTo, HandedOver, IsHotspot, IsUserMan
  <2> QED
    BY <1>4, <2>1, HandOverKept DEF _create_cards_save, SaveOr
<1>5. CASE _create_cards_send
  <2>1. HandedOver'
    BY <1>5 DEF _create_cards_send, SendOr, Ends, KeptInv, HandedOver, IsHotspot, IsUserMan
  <2> QED
    BY <1>5, <2>1, HandOverKept DEF _create_cards_send, SendOr
<1> QED
  BY <1>1, <1>2, <1>3, <1>4, <1>5

(* A card that is made is the one in the making.                           *)
LEMMA MadeKept ==
    ASSUME Inv, KeptInv, Making, NEW b \in BOOLEAN, Made(b),
           UNCHANGED <<table, added, lost, trouble>>
    PROVE  KeptInv'
<1>1. name \in Names
  BY DEF Inv, BatchState
<1>2. cards' = Append(cards, Card(name, b)) /\ at' = "add"
  BY DEF Made
<1>3. /\ \A a : HasCard(a) => HasCard(a)'
      /\ \A a : a.name = name => HasCard(a)'
  BY <1>1, <1>2, HasCardKept
<1>4. Covered'
  BY <1>3 DEF KeptInv, Covered, IsUserMan
<1> QED
  BY <1>2, <1>4 DEF KeptInv, HandedOver

LEMMA UserManBatchKept ==
    ASSUME Inv, KeptInv,
           um_cards_begin \/ um_card_add \/ um_card_log \/ um_card_attach
           \/ um_card_verify \/ um_cards_made \/ um_cards_send \/ um_cards_save
    PROVE  KeptInv'
<1> USE DEF history
<1>1. CASE um_cards_begin
  BY <1>1, BeginsKept DEF um_cards_begin
<1>2. CASE um_card_add
  <2>1. /\ at = "add" /\ ~Making /\ UNCHANGED <<table, cards, kept, trouble>>
        /\ at' \in {"add", "log"}
    BY <1>2 DEF um_card_add, Making, Dropped
  <2>2. HandedOver'
    BY <2>1 DEF HandedOver
  <2>3. CASE UNCHANGED <<added, lost>>
    <3>1. Covered'
      BY <2>1, <2>3 DEF KeptInv, Covered, HasCard, IsUserMan
    <3> QED
      BY <2>2, <3>1 DEF KeptInv
  <2>4. ASSUME NEW n, added' = added \cup {New(n)},
               \/ at' = "log" /\ name' = n /\ lost' = lost
               \/ lost' = lost \cup {New(n)}
        PROVE  KeptInv'
    <3>1. New(n).name = n
      BY DEF New
    <3>2. Covered'
      BY <2>1, <2>4, <3>1 DEF KeptInv, Covered, HasCard, IsUserMan, Making
    <3> QED
      BY <2>2, <3>2 DEF KeptInv
  <2> QED
    BY <1>2, <2>3, <2>4 DEF um_card_add
<1>3. CASE um_card_log
  <2>1. /\ IsUserMan /\ Making /\ UNCHANGED <<table, cards, kept, added, lost>>
        /\ at' \in {"add", "attach"}
    BY <1>3 DEF um_card_log, Making, GoesTo, Dropped
  <2>2. HandedOver'
    BY <2>1 DEF HandedOver
  <2>3. Covered'
    BY <1>3, <2>1 DEF um_card_log, GoesTo, KeptInv, Covered, HasCard, IsUserMan, Making
  <2> QED
    BY <2>2, <2>3 DEF KeptInv
<1>4. CASE um_card_attach
  <2>1. /\ Making /\ UNCHANGED <<table, kept, added, lost, trouble>>
    BY <1>4 DEF um_card_attach, _attach_profile, Making
  <2>2. CASE Made(FALSE)
    BY <2>1, <2>2, MadeKept
  <2>3. CASE at' = "verify" /\ UNCHANGED <<name, cards>>
    BY <2>1, <2>3 DEF KeptInv, Covered, HandedOver, HasCard, Making, IsUserMan
  <2> QED
    BY <1>4, <2>2, <2>3 DEF um_card_attach, _attach_profile
<1>5. CASE um_card_verify
  <2>1. Making /\ UNCHANGED <<table, added, lost, trouble>>
    BY <1>5 DEF um_card_verify, Making
  <2>2. Made(name \in linked) \/ Made(FALSE)
    BY <1>5 DEF um_card_verify, _verify_profile_link
  <2>3. (name \in linked) \in BOOLEAN
    OBVIOUS
  <2> QED
    BY <2>1, <2>2, <2>3, MadeKept
<1>6. CASE um_cards_made
  <2>1. HandedOver' /\ trouble \subseteq trouble'
    BY <1>6 DEF um_cards_made, Ends, GoesTo, HandedOver, IsHotspot, IsUserMan
  <2> QED
    BY <1>6, <2>1, HandOverKept DEF um_cards_made
<1>7. CASE um_cards_send
  <2>1. HandedOver' /\ trouble \subseteq trouble'
    BY <1>7 DEF um_cards_send, SendOr, Ends, GoesTo, HandedOver, IsHotspot, IsUserMan
  <2> QED
    BY <1>7, <2>1, HandOverKept DEF um_cards_send, SendOr
<1>8. CASE um_cards_save
  <2>1. HandedOver' /\ trouble \subseteq trouble'
    BY <1>8 DEF um_cards_save, SaveOr, Ends, KeptInv, HandedOver, IsHotspot, IsUserMan
  <2> QED
    BY <1>8, <2>1, HandOverKept DEF um_cards_save, SaveOr
<1> QED
  BY <1>1, <1>2, <1>3, <1>4, <1>5, <1>6, <1>7, <1>8

LEMMA KeptInvNext == Inv /\ KeptInv /\ [Next]_vars => KeptInv'
<1> SUFFICES ASSUME Inv, KeptInv, [Next]_vars PROVE KeptInv'
  OBVIOUS
<1> USE DEF history, command
<1>1. CASE UNCHANGED vars
  BY <1>1, BatchStays DEF vars
<1>2. CASE RouterNext
  BY <1>2, BatchStays DEF RouterNext, OthersAdd, OthersRemove, OthersChange, CacheExpires
<1>3. CASE add_user \/ edit_user \/ delete_user \/ reset_user_counters \/ list_users
  BY <1>3, BatchStays
  DEF add_user, edit_user, delete_user, reset_user_counters, list_users, InvalidatesOr, ReadsList
<1>4. CASE um_list_users \/ _get_user_id \/ add_profile_to_user
  BY <1>4, BatchStays DEF um_list_users, _get_user_id, add_profile_to_user, ReadsList, Idle
<1>5. CASE um_change
  <2>1. /\ at = "change" /\ at' = "idle" /\ UNCHANGED <<table, cards, kept, added, lost, trouble>>
    BY <1>5 DEF um_change, Ends
  <2> QED
    BY <2>1 DEF KeptInv, Covered, HandedOver, HasCard, Making, IsHotspot, IsUserMan
<1> QED
  BY <1>1, <1>2, <1>3, <1>4, <1>5, HotspotBatchKept, UserManBatchKept
  DEF Next, HotspotUsersNext, UserManagerUsersNext

(* Of whatever a batch adds to the router the cards are kept, unless a     *)
(* reply or the calls that keep them are lost, in any order of failures.   *)
THEOREM CardsRetained == Spec => []CardsKept
BY InvInit, InvNext, KeptInvInit, KeptInvNext, KeptInvKeeps, PTL DEF Spec

-----------------------------------------------------------------------------
(* The list in the cache.  Ids are unique and not used again, so what was  *)
(* confirmed of an account is about its row; the router's table shows it,  *)
(* and so does the list in the cache, except while a batch of hotspot      *)
(* cards is adding accounts, which ends with an invalidation.              *)
OwnId(c, i) == c \in Rows => c.id = i

IdsOnce ==
    /\ \A u \in users : u.id <= last
    /\ \A u, v \in users : u.id = v.id => u = v
    /\ \A i \in Ids : i > last => confirmed[i] = Unknown
    /\ \A i \in Ids : OwnId(confirmed[i], i)

ShownIn(c, i, rows) ==
    /\ c = Gone => \A u \in rows : u.id # i
    /\ c \in Rows => c \in rows

Shows(rows) == \A i \in Ids : ShownIn(confirmed[i], i, rows)

Same(i) == confirmed'[i] = confirmed[i]

ListShows == users_cache # NoList /\ ~(IsHotspot /\ at = "add") => Shows(users_cache)

ListInv == IdsOnce /\ Shows(users) /\ ListShows

LEMMA ListInvInit == Init => ListInv
BY ConfirmedAssumption DEF Init, ListInv, IdsOnce, Shows, ListShows, OwnId, ShownIn

LEMMA ListInvShows == ListInv => OwnChangesShown
<1> SUFFICES ASSUME ListInv, at = "idle", users_cache # NoList, NEW i \in Ids
             PROVE  ShownIn(confirmed[i], i, users_cache)
  BY Zenon DEF OwnChangesShown, Idle, ShownIn
<1>1. Shows(users_cache)
  BY DEF ListInv, ListShows
<1> QED
  BY <1>1, Zenon DEF Shows

(* What the table becomes, and what is confirmed of the account.           *)
LEMMA AddsShown ==
    ASSUME Inv, IdsOnce, Shows(users), NEW n \in Names, Adds(n),
           \/ UNCHANGED confirmed
           \/ Confirms(last', New(n)) \/ Confirms(last', Unknown)
    PROVE  IdsOnce' /\ Shows(users)'
<1>1. /\ users' = users \cup {New(n)} /\ last' = last + 1 /\ last \in Nat
      /\ New(n) \in Rows /\ New(n).id = last + 1 /\ last + 1 \in Ids
      /\ users \subseteq Rows /\ confirmed \in [Ids -> Rows \cup {Gone, Unknown}]
  BY AddsType, NewRow, TypeParts, MaxAccountsAssumption
  DEF Adds, Inv, TableType, ListType
<1>2. \A i \in Ids : i \in Nat
  BY DEF Ids
<1>3. \A u \in users : u.id \in Nat /\ u.id # last + 1 /\ u.id <= last + 1
  BY <1>1 DEF IdsOnce, Rows, Ids
<1>4. confirmed[last + 1] = Unknown
  BY <1>1 DEF IdsOnce
<1>5. \A i \in Ids : i # last + 1 => Same(i)
  BY <1>1 DEF Confirms, Same
<1>8. confirmed'[last + 1] \in {New(n), Unknown}
  BY <1>1, <1>4 DEF Confirms
<1>6. /\ \A u \in users' : u.id <= last'
      /\ \A u, v \in users' : u.id = v.id => u = v
  BY <1>1, <1>3 DEF IdsOnce
<1>7. ASSUME NEW i \in Ids
      PROVE  /\ i > last' => confirmed'[i] = Unknown
             /\ OwnId(confirmed'[i], i) /\ ShownIn(confirmed'[i], i, users')
  <2>1. CASE i = last + 1
    BY <1>1, <1>8, <2>1, ConfirmedAssumption DEF OwnId, ShownIn
  <2>2. CASE i # last + 1
    <3>1. confirmed'[i] = confirmed[i]
      BY <1>5, <2>2, Zenon DEF Same
    <3>2. /\ i > last => confirmed[i] = Unknown
          /\ OwnId(confirmed[i], i) /\ ShownIn(confirmed[i], i, users)
      BY Zenon DEF IdsOnce, Shows
    <3>3. i > last' => i > last
      BY <1>1, <1>2
    <3>4. ShownIn(confirmed[i], i, users')
      BY <1>1, <2>2, <3>2 DEF ShownIn
    <3> QED
      BY <3>1, <3>2, <3>3, <3>4
  <2> QED
    BY <2>1, <2>2
<1> QED
  BY <1>6, <1>7 DEF IdsOnce, Shows

LEMMA RemovesShown ==
    ASSUME Inv, IdsOnce, Shows(users), NEW u \in users, Removes(u),
           Confirms(u.id, Unknown) \/ Confirms(u.id, Gone)
    PROVE  IdsOnce' /\ Shows(users)'
<1>1. /\ users' = users \ {u} /\ last' = last /\ u.id \in Ids /\ u.id <= last
      /\ last \in Nat /\ Ids \subseteq Nat
      /\ confirmed \in [Ids -> Rows \cup {Gone, Unknown}]
  BY TypeParts DEF Removes, Inv, TableType, ListType, Rows, IdsOnce, Ids
<1>2. \A i \in Ids : i # u.id => Same(i)
  BY <1>1 DEF Confirms, Same
<1>5. confirmed'[u.id] \in {Gone, Unknown}
  BY <1>1 DEF Confirms
<1>3. /\ \A w \in users' : w.id <= last'
      /\ \A w, x \in users' : w.id = x.id => w = x
  BY <1>1 DEF IdsOnce
<1>4. ASSUME NEW i \in Ids
      PROVE  /\ i > last' => confirmed'[i] = Unknown
             /\ OwnId(confirmed'[i], i) /\ ShownIn(confirmed'[i], i, users')
  <2>1. CASE i = u.id
    <3>1. ~(i > last')
      BY <1>1, <2>1
    <3>2. confirmed'[i] \in {Gone, Unknown}
      BY <1>5, <2>1
    <3>3. \A w \in users' : w.id # i
      BY <1>1, <2>1 DEF IdsOnce
    <3> QED
      BY <3>1, <3>2, <3>3, ConfirmedAssumption DEF OwnId, ShownIn
  <2>2. CASE i # u.id
    <3>1. confirmed'[i] = confirmed[i]
      BY <1>2, <2>2, Zenon DEF Same
    <3>2. /\ i > last => confirmed[i] = Unknown
          /\ OwnId(confirmed[i], i) /\ ShownIn(confirmed[i], i, users)
      BY Zenon DEF IdsOnce, Shows
    <3>3. ShownIn(confirmed[i], i, users')
      BY <1>1, <2>2, <3>2 DEF OwnId, ShownIn
    <3> QED
      BY <1>1, <3>1, <3>2, <3>3
  <2> QED
    BY <2>1, <2>2
<1> QED
  BY <1>3, <1>4 DEF IdsOnce, Shows

LEMMA ReplacesShown ==
    ASSUME Inv, IdsOnce, Shows(users), NEW u \in users, NEW v \in Changed(u), Replaces(u, v),
           Confirms(u.id, Unknown) \/ Confirms(u.id, v)
    PROVE  IdsOnce' /\ Shows(users)'
<1>1. /\ users' = (users \ {u}) \cup {v} /\ last' = last /\ u.id \in Ids /\ u.id <= last
      /\ last \in Nat /\ Ids \subseteq Nat /\ v \in Rows /\ v.id = u.id
      /\ confirmed \in [Ids -> Rows \cup {Gone, Unknown}]
  BY ChangedRow, TypeParts DEF Replaces, Inv, TableType, ListType, Rows, IdsOnce, Ids
<1>2. \A i \in Ids : i # u.id => Same(i)
  BY <1>1 DEF Confirms, Same
<1>5. confirmed'[u.id] \in {v, Unknown}
  BY <1>1 DEF Confirms
<1>3. /\ \A w \in users' : w.id <= last'
      /\ \A w, x \in users' : w.id = x.id => w = x
  BY <1>1 DEF IdsOnce
<1>4. ASSUME NEW i \in Ids
      PROVE  /\ i > last' => confirmed'[i] = Unknown
             /\ OwnId(confirmed'[i], i) /\ ShownIn(confirmed'[i], i, users')
  <2>1. CASE i = u.id
    <3>1. ~(i > last')
      BY <1>1, <2>1
    <3>2. confirmed'[i] \in {v, Unknown}
      BY <1>5, <2>1
    <3> QED
      BY <1>1, <2>1, <3>1, <3>2, ConfirmedAssumption DEF OwnId, ShownIn
  <2>2. CASE i # u.id
    <3>1. confirmed'[i] = confirmed[i]
      BY <1>2, <2>2, Zenon DEF Same
    <3>2. /\ i > last => confirmed[i] = Unknown
          /\ OwnId(confirmed[i], i) /\ ShownIn(confirmed[i], i, users)
      BY Zenon DEF IdsOnce, Shows
    <3>3. ShownIn(confirmed[i], i, users')
      BY <1>1, <2>2, <3>2 DEF OwnId, ShownIn
    <3> QED
      BY <1>1, <3>1, <3>2, <3>3
  <2> QED
    BY <2>1, <2>2
<1> QED
  BY <1>3, <1>4 DEF IdsOnce, Shows

LEMMA TableStays ==
    ASSUME IdsOnce, Shows(users), UNCHANGED <<users, last, confirmed>>
    PROVE  IdsOnce' /\ Shows(users)'
BY DEF IdsOnce, Shows

(* The cache: emptied, or left alone while nothing new is confirmed.       *)
LEMMA ListEmptied == ASSUME users_cache' = NoList PROVE ListShows'
BY DEF ListShows

LEMMA ListStays ==
    ASSUME Inv, ListShows, UNCHANGED <<table, users_cache>>,
           UNCHANGED confirmed \/ \E i : Confirms(i, Unknown),
           IsHotspot /\ at = "add" => at' = "add"
    PROVE  ListShows'
<1>1. confirmed \in [Ids -> Rows \cup {Gone, Unknown}]
  BY TypeParts DEF Inv, ListType
<1>2. \A i \in Ids : confirmed'[i] \in {confirmed[i], Unknown}
  BY <1>1 DEF Confirms
<1>3. Shows(users_cache) => Shows(users_cache)'
  BY <1>2, ConfirmedAssumption DEF Shows, ShownIn
<1> QED
  BY <1>3 DEF ListShows, IsHotspot

LEMMA ListRead ==
    ASSUME ListInv, at = "idle", users_cache' = AllUsers, UNCHANGED confirmed
    PROVE  ListShows'
BY DEF ListInv, ListShows, AllUsers, Shows

LEMMA RouterLists == ASSUME Inv, ListInv, RouterNext PROVE ListInv'
<1> USE DEF command, ListInv
<1>1. CASE OthersAdd
  BY <1>1, AddsShown, ListStays DEF OthersAdd
<1>2. CASE OthersRemove
  BY <1>2, RemovesShown, ListStays DEF OthersRemove
<1>3. CASE OthersChange
  BY <1>3, ReplacesShown, ListStays DEF OthersChange
<1>4. CASE CacheExpires
  BY <1>4, TableStays, ListEmptied DEF CacheExpires, router
<1> QED
  BY <1>1, <1>2, <1>3, <1>4 DEF RouterNext

LEMMA CallLists ==
    ASSUME Inv, ListInv,
           \/ add_user \/ edit_user \/ delete_user \/ reset_user_counters \/ list_users
           \/ um_list_users \/ add_profile_to_user
    PROVE  ListInv'
<1> USE DEF command, ListInv
<1>1. ASSUME NEW i, NEW what, InvalidatesOr(i, what)
      PROVE  ListShows' /\ (Confirms(i, what) \/ Confirms(i, Unknown))
  <2>1. at = "idle"
    BY <1>1 DEF InvalidatesOr, Idle
  <2> QED
    BY <1>1, <2>1, ListEmptied, ListStays DEF InvalidatesOr
<1>2. CASE add_user
  BY <1>1, <1>2, AddsShown DEF add_user
<1>3. CASE edit_user
  <2>1. PICK u \in users : \E v \in Changed(u) : Replaces(u, v) /\ InvalidatesOr(u.id, v)
    BY <1>3 DEF edit_user
  <2>2. PICK v \in Changed(u) : Replaces(u, v) /\ InvalidatesOr(u.id, v)
    BY <2>1
  <2> QED
    BY <1>1, <2>2, ReplacesShown
<1>4. CASE delete_user
  BY <1>1, <1>4, RemovesShown DEF delete_user
<1>5. CASE reset_user_counters
  BY <1>5, TableStays, ListEmptied DEF reset_user_counters, router
<1>6. CASE list_users \/ um_list_users
  BY <1>6, TableStays, ListRead DEF list_users, um_list_users, ReadsList, router, Idle
<1>7. CASE add_profile_to_user
  BY <1>7, TableStays, ListStays DEF add_profile_to_user, Links, Idle
<1> QED
  BY <1>2, <1>3, <1>4, <1>5, <1>6, <1>7

LEMMA HotspotBatchLists ==
    ASSUME Inv, ListInv, cards_prepare \/ cards_add \/ cards_made
                         \/ _create_cards_save \/ _create_cards_send
    PROVE  ListInv'
<1> USE DEF ListInv
<1>1. CASE cards_prepare
  BY <1>1, TableStays DEF cards_prepare, router, ListShows, IsHotspot
<1>2. CASE cards_add
  <2>1. PICK n \in existing : AddsCard(n)
    BY <1>2 DEF cards_add
  <2>2. IsHotspot /\ at = "add" /\ UNCHANGED <<table, at>> /\ n \in Names
    BY <1>2, TypeParts DEF cards_add, Inv, CommandType
  <2>3. ListShows'
    BY <2>2 DEF ListShows, IsHotspot
  <2>4. IdsOnce' /\ Shows(users)'
    BY <2>1, <2>2, AddsShown, TableStays DEF AddsCard, router
  <2> QED
    BY <2>3, <2>4
<1>3. CASE cards_made
  BY <1>3, TableStays, ListEmptied DEF cards_made, invalidate_users_cache, router
<1>4. CASE _create_cards_save
  BY <1>4, TableStays, ListStays DEF _create_cards_save, SaveOr, router
<1>5. CASE _create_cards_send
  BY <1>5, TableStays, ListStays DEF _create_cards_send, SendOr, router
<1> QED
  BY <1>1, <1>2, <1>3, <1>4, <1>5

LEMMA UserManLists ==
    ASSUME Inv, ListInv,
           \/ um_cards_begin \/ um_card_add \/ um_card_log \/ um_card_attach
           \/ um_card_verify \/ um_cards_made \/ um_cards_send \/ um_cards_save
           \/ _get_user_id \/ um_change
    PROVE  ListInv'
<1> USE DEF ListInv, history
<1>1. IsUserMan /\ ~IsHotspot
  BY DEF um_cards_begin, um_card_add, um_card_log, um_card_attach, um_card_verify,
         um_cards_made, um_cards_send, um_cards_save, _get_user_id, um_change,
         IsUserMan, IsHotspot, Inv, BatchState, Making, _attach_profile
<1>2. CASE um_cards_begin \/ um_card_log \/ um_card_verify
           \/ um_cards_made \/ um_cards_send \/ um_cards_save
  BY <1>1, <1>2, TableStays, ListStays
  DEF um_cards_begin, um_card_log, um_card_verify, um_cards_made, um_cards_send,
      um_cards_save, SaveOr, SendOr, router
<1>3. CASE um_card_attach
  BY <1>1, <1>3, TableStays, ListStays
  DEF um_card_attach, _attach_profile, LinksOrNot, Links, router
<1>4. CASE um_card_add
  <2>1. CASE UNCHANGED <<router, users_cache, confirmed>> /\ UNCHANGED table
    BY <1>1, <2>1, TableStays, ListStays DEF router
  <2>2. ASSUME NEW n \in Names, Adds(n), UNCHANGED table,
               \/ users_cache' = NoList /\ Confirms(last', New(n))
               \/ UNCHANGED <<users_cache, confirmed>>
        PROVE  ListInv'
    BY <1>1, <2>2, AddsShown, ListEmptied, ListStays
  <2> QED
    BY <1>4, <2>1, <2>2 DEF um_card_add
<1>5. CASE _get_user_id
  BY <1>1, <1>5, TableStays, ListStays, ListRead DEF _get_user_id, router, Idle
<1>6. CASE um_change
  <2>1. UNCHANGED <<table, users_cache>>
    BY <1>6 DEF um_change
  <2>2. CASE UNCHANGED <<router, confirmed>>
    BY <1>1, <2>1, <2>2, TableStays, ListStays DEF router
  <2>3. ASSUME NEW u \in users, Removes(u), Confirms(u.id, Unknown)
        PROVE  ListInv'
    BY <1>1, <2>1, <2>3, RemovesShown, ListStays
  <2>4. ASSUME NEW u \in users, Replaces(u, [u EXCEPT !.disabled = ~ @]), Confirms(u.id, Unknown)
        PROVE  ListInv'
    <3>1. [u EXCEPT !.disabled = ~ @] \in Changed(u)
      BY DEF Changed
    <3> QED
      BY <1>1, <2>1, <2>4, <3>1, ReplacesShown, ListStays
  <2>5. ASSUME NEW u \in users, Unlinks(u.name), UNCHANGED confirmed
        PROVE  ListInv'
    BY <1>1, <2>1, <2>5, TableStays, ListStays DEF Unlinks
  <2> QED
    BY <1>6, <2>2, <2>3, <2>4, <2>5 DEF um_change
<1> QED
  BY <1>2, <1>3, <1>4, <1>5, <1>6

LEMMA ListInvNext == Inv /\ ListInv /\ [Next]_vars => ListInv'
<1> SUFFICES ASSUME Inv, ListInv, [Next]_vars PROVE ListInv'
  OBVIOUS
<1>1. CASE UNCHANGED vars
  BY <1>1, TableStays, ListStays DEF vars, ListInv
<1> QED
  BY <1>1, RouterLists, CallLists, HotspotBatchLists, UserManLists
  DEF Next, HotspotUsersNext, UserManagerUsersNext

(* Between commands the list in the cache never contradicts what the bot   *)
(* was told of an account and nobody changed since, though calls fail      *)
(* before their invalidation and a User Manager change has none.           *)
THEOREM ListsCurrent == Spec => []OwnChangesShown
BY InvInit, InvNext, ListInvInit, ListInvNext, ListInvShows, PTL DEF Spec

=============================================================================
