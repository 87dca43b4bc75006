--------------------------- MODULE RoutersProofs ---------------------------
(***************************************************************************)
(* What holds of Routers for any number of rows, addresses and backups:    *)
(* with every router dialogue and every list of backups open at once, a    *)
(* name is given and a backup restored as the screen says.                 *)
(***************************************************************************)
EXTENDS Routers, FiniteSetTheorems, TLAPS

(* While the rename dialogue waits for a name, the row it keeps is of the  *)
(* router in its question, or is gone: a dialogue that asks something else *)
(* removes the id from user_data, or only covers that question.            *)
RenameAsked ==
    open.rename = "WAITING_RENAME" /\ data.rename_router_id # 0 =>
        /\ screen.asked \in NameQuestions
        /\ saved[data.rename_router_id] \in {screen.router, NoAddress}

(* The kept name is in the kept list and in the last confirmation.         *)
RestoreNamed ==
    data.restore_backup_name # NoBackup =>
        /\ data.restore_backup_list
        /\ screen.restore \in {data.restore_backup_name, Unsure}

(* While a list is kept, the selected row is of the router it was shown    *)
(* for, is gone, or was selected since.                                    *)
ListedSelected ==
    data.restore_backup_list /\ selected # 0 =>
        saved[selected] \in {screen.listed, NoAddress} \/ screen.listed = Unsure

(* The kept path is in the last confirmation.                              *)
UsermanNamed ==
    data.userman_restore_tar_path # NoBackup =>
        screen.userman \in {data.userman_restore_tar_path, Unsure}

(* No list, and so no name, is kept after a cancellation.                  *)
CancelCleans == screen.asked = "cancelled" => ~data.restore_backup_list

RoutersInv == /\ TypeOK
              /\ RenameAsked
              /\ RestoreNamed /\ ListedSelected /\ UsermanNamed
              /\ CancelCleans

-----------------------------------------------------------------------------
(* A non-empty set of numbers with a bound has a greatest element: the one *)
(* above which there is the smallest set of others.                        *)
LEMMA GreatestElement ==
    ASSUME NEW n \in Nat, NEW S \in SUBSET (1 .. n), S # {}
    PROVE  \E m \in S : \A i \in S : i <= m
<1> DEFINE Above(i) == {j \in S : i < j}
           T == {Above(i) : i \in S}
           R == StrictSubsetOrdering(S)
<1>1. IsFiniteSet(S)
  <2>1. IsFiniteSet(1 .. n)
    BY FS_Interval
  <2> QED
    BY <2>1, FS_Subset
<1>2. T \subseteq FiniteSubsetsOf(S)
  BY <1>1, FS_Subset DEF FiniteSubsetsOf
<1>3. T # {}
  OBVIOUS
<1> HIDE DEF T
<1>4. \E U \in T : \A V \in T : ~(<<V, U>> \in R)
  BY <1>2, <1>3, FS_StrictSubsetOrderingWellFounded, WFMin
<1> USE DEF T
<1>5. PICK m \in S : \A i \in S : ~(<<Above(i), Above(m)>> \in R)
  BY <1>4
<1>6. ASSUME NEW i \in S, ~(i <= m) PROVE FALSE
  <2>1. Above(i) \subseteq Above(m) /\ i \in Above(m) /\ i \notin Above(i)
    <3>1. i \in Nat /\ m \in Nat /\ m < i /\ \A j \in S : j \in Nat
      BY <1>6
    <3>2. \A j \in S : i < j => m < j
      BY <3>1
    <3>3. ~(i < i)
      BY <3>1
    <3> QED
      BY <3>1, <3>2, <3>3
  <2>2. <<Above(i), Above(m)>> \in R
    BY <2>1 DEF StrictSubsetOrdering
  <2> QED
    BY <2>2, <1>5
<1> QED
  BY <1>5, <1>6

(* The id that SQLite gives to a new row is of no row.                     *)
LEMMA NextIdIsFree ==
    /\ NextId \in 1 .. MaxRouters + 1
    /\ NextId \notin Saved
<1> USE MaxRoutersAssumption
<1> DEFINE IsNext(n) == /\ \A id \in Saved : id < n
                        /\ n = 1 \/ n - 1 \in Saved
<1>1. \E n \in 1 .. MaxRouters + 1 : IsNext(n)
  <2>1. Saved \in SUBSET (1 .. MaxRouters)
    BY DEF Saved, Ids
  <2>2. CASE Saved = {}
    <3>1. IsNext(1) /\ 1 \in 1 .. MaxRouters + 1
      BY <2>2
    <3> QED
      BY <3>1
  <2>3. CASE Saved # {}
    <3>1. PICK m \in Saved : \A i \in Saved : i <= m
      BY <2>1, <2>3, GreatestElement
    <3>2. m \in 1 .. MaxRouters /\ \A i \in Saved : i \in 1 .. MaxRouters
      BY <2>1
    <3>3. m + 1 \in 1 .. MaxRouters + 1 /\ (m + 1) - 1 = m
      BY <3>2
    <3>4. \A i \in Saved : i < m + 1
      BY <3>1, <3>2
    <3>5. IsNext(m + 1)
      BY <3>3, <3>4
    <3> QED
      BY <3>3, <3>5
  <2> QED
    BY <2>2, <2>3
<1>2. NextId = CHOOSE n \in 1 .. MaxRouters + 1 : IsNext(n)
  BY DEF NextId
<1>3. NextId \in 1 .. MaxRouters + 1 /\ IsNext(NextId)
  BY <1>1, <1>2
<1>4. ~(NextId < NextId)
  BY <1>3
<1> QED
  BY <1>3, <1>4

-----------------------------------------------------------------------------
LEMMA EmptyData ==
    /\ NoData \in UserData
    /\ NoData.rename_router_id = 0
    /\ NoData.restore_backup_list = FALSE
    /\ NoData.restore_backup_name = NoBackup
    /\ NoData.userman_restore_tar_path = NoBackup
BY MaxRoutersAssumption DEF UserData, NoData

LEMMA CleanedData ==
    ASSUME NEW d \in UserData
    PROVE  /\ cleanup_state(d) \in UserData
           /\ cleanup_state(d).rename_router_id = 0
           /\ cleanup_state(d).restore_backup_list = FALSE
           /\ cleanup_state(d).restore_backup_name = NoBackup
           /\ cleanup_state(d).userman_restore_tar_path = d.userman_restore_tar_path
<1> DEFINE c == [NoData EXCEPT !.manual_ip = d.manual_ip]
<1>1. d.manual_ip \in Addresses \cup {NoAddress}
  BY DEF UserData
<1>2. d.userman_restore_tar_path \in Backups \cup {NoBackup}
  BY DEF UserData
<1>3. c \in UserData /\ c.rename_router_id = 0 /\ c.restore_backup_list = FALSE
      /\ c.restore_backup_name = NoBackup
  BY <1>1, EmptyData DEF UserData
<1>4. cleanup_state(d) = [c EXCEPT !.userman_restore_tar_path = d.userman_restore_tar_path]
  BY DEF cleanup_state
<1> HIDE DEF c
<1> QED
  BY <1>2, <1>3, <1>4 DEF UserData

(* d has nothing of a renaming, and nothing of a restore but the path.     *)
Cleaned(d) ==
    /\ d.rename_router_id = 0
    /\ d.restore_backup_list = FALSE
    /\ d.restore_backup_name = NoBackup
    /\ d.userman_restore_tar_path \in {NoBackup, data.userman_restore_tar_path}

(* d has of a restore and of a renaming what data has.                     *)
SameKeys(d) ==
    /\ d.rename_router_id = data.rename_router_id
    /\ d.restore_backup_list = data.restore_backup_list
    /\ d.restore_backup_name = data.restore_backup_name
    /\ d.userman_restore_tar_path = data.userman_restore_tar_path

LEMMA CleaningCleans ==
    ASSUME NEW d \in UserData, SameKeys(d) \/ Cleaned(d), data \in UserData
    PROVE  cleanup_state(d) \in UserData /\ Cleaned(cleanup_state(d))
BY CleanedData DEF SameKeys, Cleaned

LEMMA ShowsScreen ==
    ASSUME screen \in ScreenType, NEW d \in UserData, NEW what \in Questions, Shows(d, what)
    PROVE  /\ data' = d
           /\ screen' \in ScreenType
           /\ screen'.asked = what
           /\ screen'.userman = screen.userman
           /\ d.restore_backup_list =>
                screen'.restore = screen.restore /\ screen'.listed = screen.listed
BY DEF Shows, ScreenType

-----------------------------------------------------------------------------
(* The table after a step: rows are inserted or deleted, never changed.    *)
RowsType(s) ==
    /\ s \in [Ids -> Addresses \cup {NoAddress}]
    /\ \A i, j \in Ids : s[i] = s[j] /\ s[i] # NoAddress => i = j

OpenType == [rename : {"END", "WAITING_RENAME"},
             manual : ManualTexts \cup {"END", "WAITING_MANUAL_CONFIRM"},
             disc : {"END", "WAITING_DISC_USERNAME", "WAITING_DISC_PASSWORD"}]

LEMMA TypeParts ==
    TypeOK => /\ RowsType(saved) /\ selected \in 0 .. MaxRouters
              /\ data \in UserData /\ open \in OpenType /\ screen \in ScreenType
BY DEF TypeOK, RowsType, Saved, OpenType

LEMMA TypeKept ==
    ASSUME RowsType(saved'), selected' \in 0 .. MaxRouters,
           data' \in UserData, open' \in OpenType, screen' \in ScreenType
    PROVE  TypeOK'
BY DEF TypeOK, RowsType, Saved, OpenType

(* Whatever a step does to the table, to the session and to the states,    *)
(* the invariant holds of clean data.                                      *)
LEMMA CleanedKeeps ==
    ASSUME RoutersInv, TypeOK', Cleaned(data'), screen'.userman = screen.userman
    PROVE  RoutersInv'
BY DEF RoutersInv, Cleaned, RenameAsked, RestoreNamed, ListedSelected, UsermanNamed, CancelCleans

(* Nor does a step disturb it that keeps the keys and the confirmations,   *)
(* inserts no row, selects none, and waits for a name no more than before. *)
LEMMA SameKeeps ==
    ASSUME RoutersInv, TypeOK', SameKeys(data'),
           \A i \in Ids : saved'[i] \in {saved[i], NoAddress},
           selected' \in {selected, 0},
           screen'.userman = screen.userman,
           data.restore_backup_list =>
             screen'.restore = screen.restore /\ screen'.listed = screen.listed,
           \/ screen'.asked = screen.asked /\ screen'.router = screen.router
           \/ /\ screen'.asked # "cancelled"
              /\ \/ open.rename # "WAITING_RENAME"
                 \/ /\ screen.asked \in NameQuestions => screen'.asked \in NameQuestions
                    /\ screen'.router = screen.router,
           open'.rename \in {open.rename, "END"}
    PROVE  RoutersInv'
<1> USE DEF RoutersInv, SameKeys
<1>1. RenameAsked'
  BY DEF RenameAsked, TypeOK, UserData, Ids
<1>2. RestoreNamed' /\ UsermanNamed'
  BY DEF RestoreNamed, UsermanNamed
<1>3. ListedSelected'
  BY DEF ListedSelected, TypeOK, Ids
<1>4. CancelCleans'
  BY DEF CancelCleans
<1> QED
  BY <1>1, <1>2, <1>3, <1>4

-----------------------------------------------------------------------------
(* What the steps of the dialogues are built from.                         *)

(* A handler that shows another question over data it cleaned.             *)
LEMMA ShowsCleanedKeeps ==
    ASSUME RoutersInv, NEW d \in UserData, Cleaned(d), NEW what \in Questions, Shows(d, what),
           RowsType(saved'), selected' \in 0 .. MaxRouters, open' \in OpenType
    PROVE  RoutersInv'
<1>1. data' = d /\ screen' \in ScreenType /\ screen'.userman = screen.userman
  BY ShowsScreen, TypeParts DEF RoutersInv
<1>2. TypeOK'
  BY <1>1, TypeKept
<1> QED
  BY <1>1, <1>2, CleanedKeeps

(* Telegram refuses the answer: d is kept, or is cleaned.                  *)
LEMMA RaisesKeeps ==
    ASSUME RoutersInv, NEW d \in UserData, SameKeys(d) \/ Cleaned(d),
           error_handler(d), UNCHANGED <<screen, saved, selected>>
    PROVE  RoutersInv'
<1>1. /\ RowsType(saved') /\ selected' \in 0 .. MaxRouters /\ open' \in OpenType
      /\ screen' \in ScreenType /\ data \in UserData
  BY TypeParts DEF RoutersInv, error_handler
<1>2. cleanup_state(d) \in UserData /\ Cleaned(cleanup_state(d))
  BY <1>1, CleaningCleans
<1>3. data' \in UserData /\ (SameKeys(data') \/ Cleaned(data'))
  BY <1>2 DEF error_handler
<1>4. TypeOK'
  BY <1>1, <1>3, TypeKept
<1>5. CASE Cleaned(data')
  BY <1>4, <1>5, CleanedKeeps
<1>6. CASE SameKeys(data')
  <2>1. selected' \in {selected, 0} /\ \A i \in Ids : saved'[i] \in {saved[i], NoAddress}
    OBVIOUS
  <2>2. open'.rename \in {open.rename, "END"}
    BY DEF error_handler
  <2> QED
    BY <1>4, <1>6, <2>1, <2>2, SameKeeps
<1> QED
  BY <1>3, <1>5, <1>6

(* A text of the manual or the discovered dialogue is taken only while no  *)
(* name is waited for: the keys that its handler leaves are of no renaming.*)
LEMMA AsksKeeps ==
    ASSUME RoutersInv, NEW d \in UserData,
           Cleaned(d) \/ (SameKeys(d) /\ open.rename # "WAITING_RENAME"),
           NEW flow \in {"manual", "disc"}, NEW state,
           [open EXCEPT ![flow] = state] \in OpenType,
           AsksIn(flow, state, d), UNCHANGED <<saved, selected>>
    PROVE  RoutersInv'
<1>1. /\ RowsType(saved') /\ selected' \in 0 .. MaxRouters
      /\ screen \in ScreenType /\ open \in OpenType
  BY TypeParts DEF RoutersInv
<1>2. CASE Goes(flow, state) /\ Shows(d, flow)
  <2>1. flow \in Questions /\ flow # "cancelled"
    BY DEF Questions
  <2>2. open' \in OpenType /\ open'.rename = open.rename
    BY <1>1, <1>2 DEF Goes, OpenType
  <2>3. CASE Cleaned(d)
    BY <1>1, <1>2, <2>1, <2>2, <2>3, ShowsCleanedKeeps
  <2>4. CASE SameKeys(d) /\ open.rename # "WAITING_RENAME"
    <3>1. /\ data' = d /\ screen' \in ScreenType /\ screen'.asked = flow
          /\ screen'.userman = screen.userman
          /\ d.restore_backup_list =>
               screen'.restore = screen.restore /\ screen'.listed = screen.listed
      BY <1>1, <1>2, <2>1, ShowsScreen
    <3>2. TypeOK'
      BY <1>1, <2>2, <3>1, TypeKept
    <3>3. SameKeys(data') /\ d.restore_backup_list = data.restore_backup_list
      BY <2>4, <3>1 DEF SameKeys
    <3>4. selected' \in {selected, 0} /\ \A i \in Ids : saved'[i] \in {saved[i], NoAddress}
      OBVIOUS
    <3> QED
      BY <2>1, <2>2, <2>4, <3>1, <3>2, <3>3, <3>4, SameKeeps
  <2> QED
    BY <2>3, <2>4
<1>3. CASE error_handler(d) /\ UNCHANGED screen
  BY <1>3, RaisesKeeps
<1> QED
  BY <1>2, <1>3 DEF AsksIn

(* A dialogue that ends has cleaned, whatever it did to the table.         *)
LEMMA EndsKeeps ==
    ASSUME RoutersInv, NEW flow \in {"rename", "manual", "disc"}, Ends(flow),
           RowsType(saved'), selected' \in 0 .. MaxRouters, UNCHANGED screen
    PROVE  RoutersInv'
<1>1. data \in UserData /\ open \in OpenType /\ screen' \in ScreenType
  BY TypeParts DEF RoutersInv
<1>2. data' \in UserData /\ Cleaned(data')
  BY <1>1, CleaningCleans DEF SameKeys, Ends
<1>3. open' \in OpenType
  BY <1>1 DEF Ends, Goes, OpenType, ManualTexts
<1> QED
  BY <1>1, <1>2, <1>3, TypeKept, CleanedKeeps

-----------------------------------------------------------------------------
(* The session.                                                            *)

LEMMA FallbackKeeps ==
    ASSUME RoutersInv, NEW d \in UserData, Cleaned(d),
           NEW shown \in {"cancelled", "none"}, Fallback(d, shown)
    PROVE  RoutersInv'
<1>1. RowsType(saved') /\ selected' \in 0 .. MaxRouters /\ open \in OpenType
  BY TypeParts DEF RoutersInv, Fallback
<1>2. open' \in OpenType
  BY <1>1 DEF Fallback, OpenType
<1> QED
  BY <1>1, <1>2, ShowsCleanedKeeps DEF Fallback, Questions

LEMMA SessionKeeps ==
    ASSUME RoutersInv, SessionNext
    PROVE  RoutersInv'
<1>1. /\ RowsType(saved) /\ selected \in 0 .. MaxRouters
      /\ data \in UserData /\ open \in OpenType /\ screen \in ScreenType
  BY TypeParts DEF RoutersInv
<1>2. cleanup_state(data) \in UserData /\ Cleaned(cleanup_state(data))
  BY <1>1, CleaningCleans DEF SameKeys
<1>3. NoData \in UserData /\ Cleaned(NoData)
  BY EmptyData DEF Cleaned
<1>4. CASE cancel \/ go_back
  BY <1>2, <1>4, FallbackKeeps DEF cancel, go_back
<1>5. CASE start
  BY <1>2, <1>3, <1>5, FallbackKeeps DEF start
<1>6. CASE select_router_callback
  BY <1>1, <1>3, <1>6, ShowsCleanedKeeps DEF select_router_callback, Questions
<1>7. CASE OtherDialogue
  <2>1. CASE Shows(cleanup_state(data), "other")
    BY <1>1, <1>2, <1>7, <2>1, ShowsCleanedKeeps DEF OtherDialogue, Questions
  <2>2. CASE data' = cleanup_state(data) /\ UNCHANGED screen
    BY <1>1, <1>2, <1>7, <2>2, TypeKept, CleanedKeeps DEF OtherDialogue
  <2>3. CASE Covers
    <3>1. UNCHANGED <<saved, selected, open, data>>
      BY <1>7, <2>3 DEF OtherDialogue, Covers
    <3>2. /\ screen' \in ScreenType
          /\ screen'.asked # "cancelled"
          /\ screen.asked \in NameQuestions => screen'.asked \in NameQuestions
          /\ screen'.router = screen.router /\ screen'.userman = screen.userman
          /\ screen'.restore = screen.restore /\ screen'.listed = screen.listed
      BY <1>1, <2>3 DEF Covers, ScreenType, Questions, NameQuestions
    <3>3. TypeOK' /\ SameKeys(data')
      BY <1>1, <3>1, <3>2, TypeKept DEF SameKeys
    <3> QED
      BY <1>1, <3>1, <3>2, <3>3, SameKeeps
  <2> QED
    BY <1>7, <2>1, <2>2, <2>3 DEF OtherDialogue
<1>8. CASE Expire
  <2>1. /\ selected' = 0 /\ UNCHANGED <<saved, open, data, screen>>
    BY <1>8 DEF Expire
  <2>2. TypeOK' /\ SameKeys(data')
    BY <1>1, <2>1, TypeKept, MaxRoutersAssumption DEF SameKeys
  <2> QED
    BY <2>1, <2>2, SameKeeps
<1>9. CASE ConversationTimeout
  <2>1. UNCHANGED <<saved, selected, data, screen>>
    BY <1>9 DEF ConversationTimeout
  <2>2. open' \in OpenType /\ open'.rename \in {open.rename, "END"}
    BY <1>1, <1>9 DEF ConversationTimeout, OpenType
  <2>3. TypeOK' /\ SameKeys(data')
    BY <1>1, <2>1, <2>2, TypeKept DEF SameKeys
  <2> QED
    BY <2>1, <2>2, <2>3, SameKeeps
<1>10. CASE connect_router
  <2>1. PICK id \in Saved \ {selected} : selected' \in {id, selected}
    BY <1>10 DEF connect_router, test_connection
  <2>2. UNCHANGED <<saved, open, data>>
    BY <1>10 DEF connect_router
  <2>3. selected' \in 0 .. MaxRouters
    BY <1>1, <2>1 DEF Saved, Ids
  <2>4. CASE selected' = selected
    <3>1. UNCHANGED screen
      BY <1>10, <2>4 DEF connect_router
    <3>2. TypeOK' /\ SameKeys(data')
      BY <1>1, <2>2, <2>3, <3>1, TypeKept DEF SameKeys
    <3> QED
      BY <2>2, <2>4, <3>1, <3>2, SameKeeps
  <2>5. CASE selected' # selected
    <3>1. screen' = [screen EXCEPT !.listed = Unsure]
      BY <1>10, <2>5 DEF connect_router
    <3>2. screen' \in ScreenType /\ screen'.listed = Unsure
          /\ screen'.asked = screen.asked /\ screen'.router = screen.router
          /\ screen'.restore = screen.restore /\ screen'.userman = screen.userman
      BY <1>1, <3>1 DEF ScreenType
    <3>3. TypeOK'
      BY <1>1, <2>2, <2>3, <3>2, TypeKept
    <3> QED
      BY <2>2, <3>2, <3>3 DEF RoutersInv, RenameAsked, RestoreNamed, ListedSelected,
                              UsermanNamed, CancelCleans
  <2> QED
    BY <2>4, <2>5
<1>11. CASE delete_router_execute
  <2>1. PICK id \in Saved : saved' = [saved EXCEPT ![id] = NoAddress]
    BY <1>11 DEF delete_router_execute
  <2>2. UNCHANGED <<selected, open, data, screen>>
    BY <1>11 DEF delete_router_execute
  <2>3. RowsType(saved') /\ \A i \in Ids : saved'[i] \in {saved[i], NoAddress}
    BY <1>1, <2>1 DEF RowsType, Saved
  <2>4. TypeOK' /\ SameKeys(data')
    BY <1>1, <2>2, <2>3, TypeKept DEF SameKeys
  <2> QED
    BY <2>2, <2>3, <2>4, SameKeeps
<1>12. CASE reboot_router_callback
  <2>1. UNCHANGED <<saved, selected, open, data, screen>>
    BY <1>12 DEF reboot_router_callback
  <2>2. TypeOK' /\ SameKeys(data')
    BY <1>1, <2>1, TypeKept DEF SameKeys
  <2> QED
    BY <2>1, <2>2, SameKeeps
<1> QED
  BY <1>4, <1>5, <1>6, <1>7, <1>8, <1>9, <1>10, <1>11, <1>12 DEF SessionNext

-----------------------------------------------------------------------------
(* The router dialogues.                                                   *)

LEMMA NewRow ==
    ASSUME RowsType(saved), NEW id \in Ids, NEW a \in Addresses,
           saved[id] = a \/ get_router_by_ip(a) = {}
    PROVE  RowsType([saved EXCEPT ![id] = a])
BY DEF RowsType, get_router_by_ip

LEMMA RenameStartKeeps ==
    ASSUME RoutersInv, rename_router_start
    PROVE  RoutersInv'
<1>1. /\ RowsType(saved) /\ selected \in 0 .. MaxRouters
      /\ data \in UserData /\ open \in OpenType /\ screen \in ScreenType
  BY TypeParts DEF RoutersInv
<1>2. UNCHANGED <<saved, selected>> /\ RowsType(saved') /\ selected' \in 0 .. MaxRouters
  BY <1>1 DEF rename_router_start
<1> DEFINE c == cleanup_state(data)
<1>3. c \in UserData /\ Cleaned(c)
  BY <1>1, CleaningCleans DEF SameKeys
<1>4. NoData \in UserData /\ Cleaned(NoData)
  BY EmptyData DEF Cleaned
<1> HIDE DEF c
<1>5. PICK id \in Ids :
        \/ /\ id \in Saved
           /\ \/ /\ data' = [c EXCEPT !.rename_router_id = id]
                 /\ Goes("rename", "WAITING_RENAME")
                 /\ screen' = [NoScreen EXCEPT !.asked = "rename", !.router = saved[id],
                                               !.userman = screen.userman]
              \/ error_handler([c EXCEPT !.rename_router_id = id]) /\ UNCHANGED screen
        \/ data' \in {NoData, c} /\ UNCHANGED <<open, screen>>
  BY DEF rename_router_start, c
<1> DEFINE d == [c EXCEPT !.rename_router_id = id]
<1>6. /\ d \in UserData /\ d.rename_router_id = id
      /\ d.restore_backup_list = FALSE /\ d.restore_backup_name = NoBackup
      /\ d.userman_restore_tar_path \in {NoBackup, data.userman_restore_tar_path}
  BY <1>3 DEF UserData, Cleaned, Ids
<1> HIDE DEF d
<1>7. CASE data' = d /\ Goes("rename", "WAITING_RENAME")
           /\ screen' = [NoScreen EXCEPT !.asked = "rename", !.router = saved[id],
                                         !.userman = screen.userman]
  <2>1. open' \in OpenType /\ open'.rename = "WAITING_RENAME"
    BY <1>1, <1>7 DEF Goes, OpenType
  <2>2. screen' \in ScreenType /\ screen'.asked = "rename" /\ screen'.router = saved[id]
        /\ screen'.userman = screen.userman
    BY <1>1, <1>7 DEF ScreenType, NoScreen, Questions, NameQuestions, RowsType
  <2>3. TypeOK'
    BY <1>2, <1>6, <1>7, <2>1, <2>2, TypeKept
  <2>4. RenameAsked'
    BY <1>2, <1>6, <1>7, <2>2 DEF RenameAsked, NameQuestions
  <2> QED
    BY <1>6, <1>7, <2>2, <2>3, <2>4 DEF RoutersInv, RestoreNamed, ListedSelected, UsermanNamed,
                                        CancelCleans
<1>8. CASE error_handler(d) /\ UNCHANGED screen
  <2>1. data' \in {d, cleanup_state(d)} /\ UNCHANGED open
    BY <1>8 DEF error_handler
  <2>2. CASE data' = d
    <3>1. open.rename = "END"
      BY DEF rename_router_start
    <3>2. TypeOK'
      BY <1>1, <1>2, <1>6, <1>8, <2>1, <2>2, TypeKept
    <3> QED
      BY <1>6, <1>8, <2>1, <2>2, <3>1, <3>2
         DEF RoutersInv, RenameAsked, RestoreNamed, ListedSelected, UsermanNamed, CancelCleans
  <2>3. CASE data' = cleanup_state(d)
    <3>1. data' \in UserData /\ Cleaned(data')
      BY <1>6, <2>3, CleanedData DEF Cleaned
    <3> QED
      BY <1>1, <1>2, <1>8, <2>1, <3>1, TypeKept, CleanedKeeps
  <2> QED
    BY <2>1, <2>2, <2>3
<1>9. CASE data' \in {NoData, c} /\ UNCHANGED <<open, screen>>
  BY <1>1, <1>2, <1>3, <1>4, <1>9, TypeKept, CleanedKeeps
<1> QED
  BY <1>5, <1>7, <1>8, <1>9 DEF d

LEMMA RenameValueKeeps ==
    ASSUME RoutersInv, rename_router_value
    PROVE  RoutersInv'
<1>1. /\ RowsType(saved) /\ selected \in 0 .. MaxRouters
      /\ data \in UserData /\ open \in OpenType /\ screen \in ScreenType
  BY TypeParts DEF RoutersInv
<1>2. UNCHANGED <<saved, selected, screen>>
  BY DEF rename_router_value
<1>3. \/ data' = NoData /\ Goes("rename", "END")
      \/ error_handler(data)
      \/ data' = data /\ UNCHANGED open
      \/ Ends("rename")
  BY DEF rename_router_value
<1>4. CASE data' = NoData /\ Goes("rename", "END")
  <2>1. open' \in OpenType
    BY <1>1, <1>4 DEF Goes, OpenType
  <2> QED
    BY <1>1, <1>2, <1>4, <2>1, EmptyData, TypeKept, CleanedKeeps DEF Cleaned
<1>5. CASE error_handler(data)
  BY <1>1, <1>2, <1>5, RaisesKeeps DEF SameKeys
<1>6. CASE data' = data /\ UNCHANGED open
  BY <1>1, <1>2, <1>6, TypeKept, SameKeeps DEF SameKeys
<1>7. CASE Ends("rename")
  BY <1>1, <1>2, <1>7, EndsKeeps
<1> QED
  BY <1>3, <1>4, <1>5, <1>6, <1>7

LEMMA ManualAsksKeep ==
    ASSUME RoutersInv,
           manual_add_start \/ manual_add_ip \/ manual_add_field \/ manual_add_alias
    PROVE  RoutersInv'
<1>1. data \in UserData /\ open \in OpenType /\ SameKeys(data) /\ UNCHANGED <<saved, selected>>
  BY TypeParts DEF RoutersInv, SameKeys, manual_add_start, manual_add_ip, manual_add_field,
                   manual_add_alias
<1>2. \A s \in ManualTexts \cup {"WAITING_MANUAL_CONFIRM"} :
        [open EXCEPT !["manual"] = s] \in OpenType
  BY <1>1 DEF OpenType
<1>3. CASE manual_add_start
  <2>1. cleanup_state(data) \in UserData /\ Cleaned(cleanup_state(data))
    BY <1>1, CleaningCleans
  <2> QED
    <3> DEFINE c == cleanup_state(data)
    <3>1. AsksIn("manual", "WAITING_MANUAL_IP", c)
      BY <1>3 DEF manual_add_start
    <3>2. c \in UserData /\ Cleaned(c)
      BY <2>1
    <3>3. [open EXCEPT !["manual"] = "WAITING_MANUAL_IP"] \in OpenType
      BY <1>2 DEF ManualTexts
    <3> HIDE DEF c
    <3> QED
      BY <1>1, <3>1, <3>2, <3>3, AsksKeeps
<1>4. ASSUME manual_add_ip \/ manual_add_field \/ manual_add_alias
      PROVE  open.rename # "WAITING_RENAME"
  BY <1>4 DEF manual_add_ip, manual_add_field, manual_add_alias, Text, TakesText
<1>5. CASE manual_add_ip
  <2>1. CASE AsksIn("manual", "WAITING_MANUAL_IP", data)
    BY <1>1, <1>2, <1>4, <1>5, <2>1, AsksKeeps DEF ManualTexts
  <2>2. ASSUME NEW a \in Addresses,
               AsksIn("manual", "WAITING_MANUAL_FIELD", [data EXCEPT !.manual_ip = a])
        PROVE  RoutersInv'
    <3> DEFINE d == [data EXCEPT !.manual_ip = a]
    <3>1. d \in UserData /\ SameKeys(d)
      BY <1>1 DEF UserData, SameKeys
    <3> HIDE DEF d
    <3>2. AsksIn("manual", "WAITING_MANUAL_FIELD", d)
      BY <2>2 DEF d
    <3> QED
      BY <1>1, <1>2, <1>4, <1>5, <3>1, <3>2, AsksKeeps DEF ManualTexts
  <2> QED
    BY <1>5, <2>1, <2>2 DEF manual_add_ip
<1>6. CASE manual_add_field
  <2>1. PICK s \in {"WAITING_MANUAL_FIELD", "WAITING_MANUAL_ALIAS"} : AsksIn("manual", s, data)
    BY <1>6 DEF manual_add_field
  <2> QED
    BY <1>1, <1>2, <1>4, <1>6, <2>1, AsksKeeps DEF ManualTexts
<1>7. CASE manual_add_alias
  <2>1. CASE AsksIn("manual", "WAITING_MANUAL_CONFIRM", data)
    BY <1>1, <1>2, <1>4, <1>7, <2>1, AsksKeeps
  <2>2. CASE error_handler(data) /\ UNCHANGED screen
    BY <1>1, <2>2, RaisesKeeps
  <2> QED
    BY <1>7, <2>1, <2>2 DEF manual_add_alias
<1> QED
  BY <1>3, <1>5, <1>6, <1>7

LEMMA ManualConfirmKeeps ==
    ASSUME RoutersInv, manual_add_confirm
    PROVE  RoutersInv'
<1>1. RowsType(saved) /\ selected \in 0 .. MaxRouters /\ data \in UserData
  BY TypeParts DEF RoutersInv
<1>2. Ends("manual") /\ UNCHANGED screen
  BY DEF manual_add_confirm
<1>3. CASE UNCHANGED <<saved, selected>>
  BY <1>1, <1>2, <1>3, EndsKeeps
<1>4. CASE /\ data.manual_ip # NoAddress
           /\ get_router_by_ip(data.manual_ip) = {}
           /\ NextId <= MaxRouters
           /\ Adds(NextId, data.manual_ip)
  <2>1. NextId \in Ids /\ data.manual_ip \in Addresses
    BY <1>1, <1>4, NextIdIsFree, MaxRoutersAssumption DEF Ids, UserData
  <2>2. RowsType([saved EXCEPT ![NextId] = data.manual_ip])
    BY <1>1, <1>4, <2>1, NewRow
  <2>3. RowsType(saved')
    BY <1>4, <2>2 DEF Adds
  <2>4. selected' \in 0 .. MaxRouters
    BY <1>1, <1>4, <2>1 DEF Adds, test_connection, Ids
  <2> QED
    BY <1>2, <2>3, <2>4, EndsKeeps
<1> QED
  BY <1>3, <1>4 DEF manual_add_confirm

LEMMA DiscoveredAsksKeep ==
    ASSUME RoutersInv, discovered_router_selected \/ disc_enter_username
    PROVE  RoutersInv'
<1>1. data \in UserData /\ open \in OpenType /\ SameKeys(data) /\ UNCHANGED <<saved, selected>>
  BY TypeParts DEF RoutersInv, SameKeys, discovered_router_selected, disc_enter_username
<1>2. \A s \in {"WAITING_DISC_USERNAME", "WAITING_DISC_PASSWORD"} :
        [open EXCEPT !["disc"] = s] \in OpenType
  BY <1>1 DEF OpenType
<1>3. CASE discovered_router_selected
  <2> DEFINE c == cleanup_state(data)
  <2>1. c \in UserData /\ Cleaned(c)
    BY <1>1, CleaningCleans
  <2> HIDE DEF c
  <2>2. PICK a \in Addresses, s \in {"WAITING_DISC_USERNAME", "WAITING_DISC_PASSWORD"} :
          AsksIn("disc", s, [c EXCEPT !.disc_ip = a])
    BY <1>3 DEF discovered_router_selected, c
  <2> DEFINE d == [c EXCEPT !.disc_ip = a]
  <2>3. d \in UserData /\ Cleaned(d)
    BY <2>1 DEF UserData, Cleaned
  <2> HIDE DEF d
  <2>4. AsksIn("disc", s, d)
    BY <2>2 DEF d
  <2>5. [open EXCEPT !["disc"] = s] \in OpenType
    BY <1>2
  <2> QED
    BY <1>1, <2>3, <2>4, <2>5, AsksKeeps
<1>4. CASE disc_enter_username
  BY <1>1, <1>2, <1>4, AsksKeeps DEF disc_enter_username, Text, TakesText
<1> QED
  BY <1>3, <1>4

(* The row that gets the address has it, or is a new one.                  *)
LEMMA SavesDiscovered ==
    ASSUME RowsType(saved), NEW a \in Addresses, save_discovered_router(a) <= MaxRouters
    PROVE  /\ save_discovered_router(a) \in Ids
           /\ \/ saved[save_discovered_router(a)] = a
              \/ /\ get_router_by_ip(a) = {}
                 /\ save_discovered_router(a) \notin Saved
<1>1. CASE get_router_by_ip(a) = {}
  BY <1>1, NextIdIsFree, MaxRoutersAssumption DEF save_discovered_router, Ids
<1>2. CASE get_router_by_ip(a) # {}
  BY <1>2 DEF save_discovered_router, get_router_by_ip
<1> QED
  BY <1>1, <1>2

LEMMA DiscoveredPasswordKeeps ==
    ASSUME RoutersInv, disc_enter_password
    PROVE  RoutersInv'
<1>1. RowsType(saved) /\ selected \in 0 .. MaxRouters /\ data \in UserData /\ UNCHANGED screen
  BY TypeParts DEF RoutersInv, disc_enter_password
<1>2. CASE Ends("disc") /\ UNCHANGED <<saved, selected>>
  BY <1>1, <1>2, EndsKeeps
<1>3. CASE error_handler(data) /\ UNCHANGED <<saved, selected>>
  BY <1>1, <1>3, RaisesKeeps DEF SameKeys
<1>4. CASE data.disc_ip # NoAddress /\ Ends("disc") /\ _process_discovered_connection(data.disc_ip)
  <2> DEFINE a == data.disc_ip
             id == save_discovered_router(a)
  <2>1. a \in Addresses
    BY <1>1, <1>4 DEF UserData
  <2>2. id <= MaxRouters /\ saved' = [saved EXCEPT ![id] = a] /\ selected' \in {selected, id}
    BY <1>4 DEF _process_discovered_connection
  <2>3. id \in Ids /\ (saved[id] = a \/ get_router_by_ip(a) = {})
    BY <1>1, <2>1, <2>2, SavesDiscovered
  <2> HIDE DEF a, id
  <2>4. RowsType([saved EXCEPT ![id] = a])
    BY <1>1, <2>1, <2>3, NewRow
  <2>5. RowsType(saved')
    BY <2>2, <2>4
  <2>6. selected' \in 0 .. MaxRouters
    BY <1>1, <2>2, <2>3 DEF Ids
  <2> QED
    BY <1>1, <1>4, <2>5, <2>6, EndsKeeps
<1> QED
  BY <1>2, <1>3, <1>4 DEF disc_enter_password

LEMMA FlowsKeep ==
    ASSUME RoutersInv, FlowsNext
    PROVE  RoutersInv'
BY RenameStartKeeps, RenameValueKeeps, ManualAsksKeep, ManualConfirmKeeps, DiscoveredAsksKeep,
   DiscoveredPasswordKeeps DEF FlowsNext

-----------------------------------------------------------------------------
(* The restore dialogues.                                                  *)

(* A list of backups: d has the list and no name.                          *)
LEMMA ListKeeps ==
    ASSUME RoutersInv, NEW d \in UserData, d.rename_router_id = 0,
           d.restore_backup_name = NoBackup,
           d.userman_restore_tar_path \in {NoBackup, data.userman_restore_tar_path},
           List(d)
    PROVE  RoutersInv'
<1>1. /\ RowsType(saved) /\ selected \in 0 .. MaxRouters
      /\ data \in UserData /\ open \in OpenType /\ screen \in ScreenType
  BY TypeParts DEF RoutersInv
<1>2. UNCHANGED <<saved, selected, open>>
  BY DEF List
<1>3. cleanup_state(data) \in UserData /\ Cleaned(cleanup_state(data))
  BY <1>1, CleaningCleans DEF SameKeys
<1>4. cleanup_state(d) \in UserData /\ Cleaned(cleanup_state(d))
  BY CleanedData DEF Cleaned
<1> DEFINE l == IF selected \in Saved THEN saved[selected] ELSE Unsure
           shown == [screen EXCEPT !.asked = "other", !.router = NoAddress, !.listed = l]
           unsure == [screen EXCEPT !.asked = Uncancelled, !.listed = Unsure]
<1>5. l \in Addresses \cup {NoAddress, Unsure}
  BY <1>1 DEF RowsType, Saved
<1>6. l = Unsure \/ (selected # 0 => saved[selected] = l)
  OBVIOUS
<1> HIDE DEF l
<1>7. /\ shown \in ScreenType
      /\ shown.asked # "cancelled" /\ shown.listed = l /\ shown.userman = screen.userman
  BY <1>1, <1>5 DEF ScreenType, Questions
<1>8. /\ unsure \in ScreenType
      /\ unsure.asked # "cancelled" /\ unsure.listed = Unsure
      /\ unsure.userman = screen.userman
  <2>1. Uncancelled \in Questions \ {"cancelled"}
    BY <1>1 DEF ScreenType, Questions, Uncancelled
  <2> QED
    BY <1>1, <2>1 DEF ScreenType
<1>9. \/ data' = d /\ screen' = shown
      \/ data' = d /\ screen' = unsure
      \/ data' = cleanup_state(d) /\ screen' = unsure
      \/ data' = cleanup_state(data) /\ UNCHANGED screen
  BY DEF List, ShowsOr, l
<1> HIDE DEF shown, unsure
<1>10. CASE data' = d /\ screen' \in {shown, unsure}
  <2>1. TypeOK'
    BY <1>1, <1>2, <1>7, <1>8, <1>10, TypeKept
  <2>2. ListedSelected'
    BY <1>2, <1>6, <1>7, <1>8, <1>10 DEF ListedSelected
  <2> QED
    BY <1>7, <1>8, <1>10, <2>1, <2>2
       DEF RoutersInv, RenameAsked, RestoreNamed, UsermanNamed, CancelCleans
<1>11. CASE /\ data' \in {cleanup_state(d), cleanup_state(data)}
            /\ screen' \in {unsure, screen}
  BY <1>1, <1>2, <1>3, <1>4, <1>8, <1>11, TypeKept, CleanedKeeps
<1> QED
  BY <1>9, <1>10, <1>11

(* A confirmation that names what it stores, or was not delivered.         *)
LEMMA RestoreSelectKeeps ==
    ASSUME RoutersInv, backup_restore_select
    PROVE  RoutersInv'
<1>1. /\ RowsType(saved) /\ selected \in 0 .. MaxRouters
      /\ data \in UserData /\ open \in OpenType /\ screen \in ScreenType
  BY TypeParts DEF RoutersInv
<1>2. UNCHANGED <<saved, selected, open>>
  BY DEF backup_restore_select
<1>3. PICK name \in Backups \cup {NoBackup} :
        /\ name # NoBackup => data.restore_backup_list
        /\ ShowsOr([screen EXCEPT !.asked = Uncancelled, !.restore = name], "restore",
                   [data EXCEPT !.restore_backup_name = name])
  BY DEF backup_restore_select
<1> DEFINE d == [data EXCEPT !.restore_backup_name = name]
<1>4. /\ d \in UserData /\ d.restore_backup_name = name
      /\ d.rename_router_id = data.rename_router_id
      /\ d.restore_backup_list = data.restore_backup_list
      /\ d.userman_restore_tar_path = data.userman_restore_tar_path
  BY <1>1 DEF UserData
<1>5. Uncancelled \in Questions /\ Uncancelled # "cancelled"
      /\ (screen.asked \in NameQuestions => Uncancelled \in NameQuestions)
  BY <1>1 DEF Uncancelled, Questions, NameQuestions, ScreenType
<1> DEFINE told(r) == [screen EXCEPT !.asked = Uncancelled, !.restore = r]
<1>6. \A r \in {name, Unsure} :
        /\ told(r) \in ScreenType /\ told(r).asked = Uncancelled /\ told(r).restore = r
        /\ told(r).router = screen.router /\ told(r).listed = screen.listed
        /\ told(r).userman = screen.userman
  BY <1>1, <1>5 DEF ScreenType
<1>7. PICK r \in {name, Unsure} : screen' = told(r) /\ data' \in {d, cleanup_state(d)}
  BY <1>3 DEF ShowsOr
<1> HIDE DEF d, told
<1>8. CASE data' = d
  <2>1. TypeOK'
    BY <1>1, <1>2, <1>4, <1>6, <1>7, <1>8, TypeKept
  <2>2. RenameAsked'
    BY <1>2, <1>4, <1>5, <1>6, <1>7, <1>8 DEF RoutersInv, RenameAsked
  <2>3. RestoreNamed' /\ UsermanNamed'
    BY <1>3, <1>4, <1>6, <1>7, <1>8 DEF RoutersInv, RestoreNamed, UsermanNamed
  <2>4. ListedSelected' /\ CancelCleans'
    BY <1>2, <1>4, <1>5, <1>6, <1>7, <1>8 DEF RoutersInv, ListedSelected, CancelCleans
  <2> QED
    BY <2>1, <2>2, <2>3, <2>4 DEF RoutersInv
<1>9. CASE data' = cleanup_state(d)
  <2>1. data' \in UserData /\ Cleaned(data')
    BY <1>4, <1>9, CleanedData DEF Cleaned
  <2> QED
    BY <1>1, <1>2, <1>6, <1>7, <2>1, TypeKept, CleanedKeeps
<1> QED
  BY <1>7, <1>8, <1>9

LEMMA UsermanSelectKeeps ==
    ASSUME RoutersInv, userman_restore_select
    PROVE  RoutersInv'
<1>1. /\ RowsType(saved) /\ selected \in 0 .. MaxRouters
      /\ data \in UserData /\ open \in OpenType /\ screen \in ScreenType
  BY TypeParts DEF RoutersInv
<1>2. UNCHANGED <<saved, selected, open>>
  BY DEF userman_restore_select
<1>3. PICK name \in Backups \cup {NoBackup} :
        ShowsOr([screen EXCEPT !.asked = Uncancelled, !.userman = name], "userman",
                [data EXCEPT !.userman_restore_tar = name, !.userman_restore_tar_path = name])
  BY DEF userman_restore_select
<1> DEFINE d == [data EXCEPT !.userman_restore_tar = name, !.userman_restore_tar_path = name]
<1>4. /\ d \in UserData /\ d.userman_restore_tar_path = name
      /\ d.rename_router_id = data.rename_router_id
      /\ d.restore_backup_list = data.restore_backup_list
      /\ d.restore_backup_name = data.restore_backup_name
  BY <1>1 DEF UserData
<1>5. Uncancelled \in Questions /\ Uncancelled # "cancelled"
      /\ (screen.asked \in NameQuestions => Uncancelled \in NameQuestions)
  BY <1>1 DEF Uncancelled, Questions, NameQuestions, ScreenType
<1> DEFINE told(u) == [screen EXCEPT !.asked = Uncancelled, !.userman = u]
<1>6. \A u \in {name, Unsure} :
        /\ told(u) \in ScreenType /\ told(u).asked = Uncancelled /\ told(u).userman = u
        /\ told(u).router = screen.router /\ told(u).listed = screen.listed
        /\ told(u).restore = screen.restore
  BY <1>1, <1>5 DEF ScreenType
<1>7. PICK u \in {name, Unsure} : screen' = told(u) /\ data' \in {d, cleanup_state(d)}
  BY <1>3 DEF ShowsOr
<1> HIDE DEF d, told
<1>8. data' \in UserData
  BY <1>4, <1>7, CleanedData
<1>9. TypeOK'
  BY <1>1, <1>2, <1>6, <1>7, <1>8, TypeKept
<1>10. data'.userman_restore_tar_path = name
  BY <1>4, <1>7, CleanedData
<1>11. \/ /\ data'.rename_router_id = data.rename_router_id
          /\ data'.restore_backup_list = data.restore_backup_list
          /\ data'.restore_backup_name = data.restore_backup_name
       \/ /\ data'.rename_router_id = 0
          /\ data'.restore_backup_list = FALSE
          /\ data'.restore_backup_name = NoBackup
  BY <1>4, <1>7, CleanedData
<1>12. RenameAsked'
  BY <1>2, <1>5, <1>6, <1>7, <1>11 DEF RoutersInv, RenameAsked
<1>13. RestoreNamed' /\ UsermanNamed'
  BY <1>6, <1>7, <1>10, <1>11 DEF RoutersInv, RestoreNamed, UsermanNamed
<1>14. ListedSelected' /\ CancelCleans'
  BY <1>2, <1>5, <1>6, <1>7, <1>11 DEF RoutersInv, ListedSelected, CancelCleans
<1> QED
  BY <1>9, <1>12, <1>13, <1>14 DEF RoutersInv

(* A confirmed restore leaves the data, or a refused answer cleans it.     *)
LEMMA ConfirmKeeps ==
    ASSUME RoutersInv, UNCHANGED <<saved, selected, open, screen>>,
           data' \in {data, cleanup_state(data)}
    PROVE  RoutersInv'
<1>1. /\ RowsType(saved) /\ selected \in 0 .. MaxRouters
      /\ data \in UserData /\ open \in OpenType /\ screen \in ScreenType
  BY TypeParts DEF RoutersInv
<1>2. CASE UNCHANGED data
  BY <1>1, <1>2, TypeKept, SameKeeps DEF SameKeys
<1>3. CASE data' = cleanup_state(data)
  <2>1. data' \in UserData /\ Cleaned(data')
    BY <1>1, <1>3, CleaningCleans DEF SameKeys
  <2> QED
    BY <1>1, <2>1, TypeKept, CleanedKeeps
<1> QED
  BY <1>2, <1>3

LEMMA RestoreKeeps ==
    ASSUME RoutersInv, RestoreNext
    PROVE  RoutersInv'
<1>1. data \in UserData
  BY TypeParts DEF RoutersInv
<1> DEFINE c == cleanup_state(data)
<1>2. c \in UserData /\ Cleaned(c)
  BY <1>1, CleaningCleans DEF SameKeys
<1> HIDE DEF c
<1>3. CASE backup_restore_start
  <2> DEFINE d == [c EXCEPT !.restore_backup_list = TRUE]
  <2>1. /\ d \in UserData /\ d.rename_router_id = 0 /\ d.restore_backup_name = NoBackup
        /\ d.userman_restore_tar_path \in {NoBackup, data.userman_restore_tar_path}
    BY <1>2 DEF UserData, Cleaned
  <2>2. List(d)
    BY <1>3 DEF backup_restore_start, c
  <2> HIDE DEF d
  <2> QED
    BY <2>1, <2>2, ListKeeps
<1>4. CASE userman_restore_start
  <2> DEFINE d == [c EXCEPT !.userman_restore_list = TRUE]
  <2>1. /\ d \in UserData /\ d.rename_router_id = 0 /\ d.restore_backup_name = NoBackup
        /\ d.userman_restore_tar_path \in {NoBackup, data.userman_restore_tar_path}
    BY <1>2 DEF UserData, Cleaned
  <2>2. List(d)
    BY <1>4 DEF userman_restore_start, c
  <2> HIDE DEF d
  <2> QED
    BY <2>1, <2>2, ListKeeps
<1>5. CASE backup_restore_select \/ userman_restore_select
  BY <1>5, RestoreSelectKeeps, UsermanSelectKeeps
<1>6. CASE backup_restore_confirm \/ userman_restore_execute
  BY <1>6, ConfirmKeeps DEF backup_restore_confirm, userman_restore_execute
<1> QED
  BY <1>3, <1>4, <1>5, <1>6 DEF RestoreNext

-----------------------------------------------------------------------------
LEMMA RoutersInvInit == Init => RoutersInv
<1> SUFFICES ASSUME Init PROVE RoutersInv
  OBVIOUS
<1>1. TypeOK
  <2>1. data \in UserData /\ selected \in 0 .. MaxRouters
    BY EmptyData, MaxRoutersAssumption DEF Init
  <2> QED
    BY <2>1 DEF Init, TypeOK, Saved, NoScreen, ScreenType, Questions
<1> QED
  BY <1>1, EmptyData
     DEF Init, NoScreen, RoutersInv, RenameAsked, RestoreNamed, ListedSelected, UsermanNamed,
         CancelCleans

LEMMA RoutersInvNext == RoutersInv /\ [Next]_vars => RoutersInv'
<1> SUFFICES ASSUME RoutersInv, [Next]_vars PROVE RoutersInv'
  OBVIOUS
<1>1. CASE UNCHANGED vars
  BY <1>1 DEF vars, RoutersInv, TypeOK, Saved, RenameAsked, RestoreNamed, ListedSelected,
              UsermanNamed, CancelCleans
<1> QED
  BY <1>1, SessionKeeps, FlowsKeep, RestoreKeeps DEF Next

LEMMA RoutersInvariant == Spec => []RoutersInv
<1> QED
  BY RoutersInvInit, RoutersInvNext, PTL DEF Spec

-----------------------------------------------------------------------------
(* Rows keep an address each and no two the same, the session names a row  *)
(* or none, and user_data and the dialogues' states have their forms.      *)
THEOREM RoutersTypeCorrect == Spec => []TypeOK
<1>1. RoutersInv => TypeOK
  BY DEF RoutersInv
<1> QED
  BY <1>1, RoutersInvariant, PTL

(* The changes of a step, by the handlers that make them.                  *)
LEMMA WhatIsDone ==
    ASSUME Next
    PROVE  \/ done'.op \in {"none", "delete", "reboot", "add", "credentials"}
           \/ /\ rename_router_value /\ done'.op = "rename"
              /\ data.rename_router_id # 0
              /\ done'.router = saved[data.rename_router_id]
           \/ /\ backup_restore_confirm /\ done'.op = "restore"
              /\ data.restore_backup_name # NoBackup
              /\ done'.backup = data.restore_backup_name /\ done'.router = saved[selected]
           \/ /\ userman_restore_execute /\ done'.op = "userman_restore"
              /\ data.userman_restore_tar_path # NoBackup
              /\ done'.backup = data.userman_restore_tar_path
<1> DEFINE Others == {"none", "delete", "reboot", "add", "credentials"}
<1>0. Quiet => done'.op \in Others
  BY DEF Quiet, Nothing
<1>1. CASE SessionNext
  <2>1. \/ Quiet
        \/ \E id \in Saved : \/ done' = [op |-> "delete", router |-> saved[id]]
                             \/ done' = [op |-> "reboot", router |-> saved[id]]
    BY <1>1 DEF SessionNext, cancel, go_back, start, Fallback, select_router_callback,
                OtherDialogue, Expire, ConversationTimeout, connect_router,
                delete_router_execute, reboot_router_callback
  <2>2. done'.op \in Others
    BY <1>0, <2>1
  <2> QED
    BY <2>2
<1>2. CASE FlowsNext /\ ~rename_router_value
  <2>1. \/ Quiet
        \/ \E a : \/ done' = [op |-> "add", router |-> a]
                  \/ done' = [op |-> "credentials", router |-> a]
    <3>1. CASE manual_add_confirm
      BY <3>1 DEF manual_add_confirm, Adds
    <3>2. CASE disc_enter_password
      BY <3>2 DEF disc_enter_password, _process_discovered_connection
    <3> QED
      BY <1>2, <3>1, <3>2 DEF FlowsNext, rename_router_start, manual_add_start, manual_add_ip,
             manual_add_field, manual_add_alias, discovered_router_selected, disc_enter_username
  <2>2. done'.op \in Others
    BY <1>0, <2>1
  <2> QED
    BY <2>2
<1>3. CASE rename_router_value
  <2>1. \/ Quiet
        \/ /\ data.rename_router_id # 0
           /\ done' = [op |-> "rename", router |-> saved[data.rename_router_id]]
    BY <1>3 DEF rename_router_value
  <2>2. \/ Quiet
        \/ /\ data.rename_router_id # 0
           /\ done'.op = "rename" /\ done'.router = saved[data.rename_router_id]
    BY <2>1
  <2> QED
    BY <1>0, <1>3, <2>2
<1>4. CASE backup_restore_confirm
  <2>1. \/ Quiet
        \/ /\ data.restore_backup_name # NoBackup
           /\ done' = [op |-> "restore", backup |-> data.restore_backup_name,
                       router |-> saved[selected]]
    BY <1>4 DEF backup_restore_confirm, restore_backup
  <2>2. \/ Quiet
        \/ /\ data.restore_backup_name # NoBackup /\ done'.op = "restore"
           /\ done'.backup = data.restore_backup_name /\ done'.router = saved[selected]
    BY <2>1
  <2> QED
    BY <1>0, <1>4, <2>2
<1>5. CASE userman_restore_execute
  <2>1. \/ Quiet
        \/ /\ data.userman_restore_tar_path # NoBackup
           /\ done' = [op |-> "userman_restore", backup |-> data.userman_restore_tar_path,
                       router |-> saved[selected]]
    BY <1>5 DEF userman_restore_execute, userman_restore, upload_file_to_router
  <2>2. \/ Quiet
        \/ /\ data.userman_restore_tar_path # NoBackup /\ done'.op = "userman_restore"
           /\ done'.backup = data.userman_restore_tar_path
    BY <2>1
  <2> QED
    BY <1>0, <1>5, <2>2
<1>6. CASE RestoreNext /\ ~backup_restore_confirm /\ ~userman_restore_execute
  <2>1. Quiet
    BY <1>6 DEF RestoreNext, backup_restore_start, backup_restore_select, userman_restore_start,
                userman_restore_select, List
  <2> QED
    BY <1>0, <2>1
<1> QED
  BY <1>1, <1>2, <1>3, <1>4, <1>5, <1>6 DEF Next

(* RenamedAsAsked: with all three dialogues open, routers deleted and their*)
(* ids given to others, a typed name goes to the router of the last        *)
(* question for a name, and to none once that question was withdrawn.      *)
THEOREM NamesGoAsAsked == Spec => RenamedAsAsked
<1>1. RoutersInv /\ [Next]_vars =>
        [done'.op = "rename" => /\ screen.asked \in NameQuestions
                                /\ done'.router \in {screen.router, NoAddress}]_vars
  <2> SUFFICES ASSUME RoutersInv, Next, done'.op = "rename"
               PROVE  screen.asked \in NameQuestions /\ done'.router \in {screen.router, NoAddress}
    OBVIOUS
  <2>1. /\ rename_router_value /\ data.rename_router_id # 0
        /\ done'.router = saved[data.rename_router_id]
    BY WhatIsDone
  <2>2. open.rename = "WAITING_RENAME"
    BY <2>1 DEF rename_router_value, Text
  <2> QED
    BY <2>1, <2>2 DEF RoutersInv, RenameAsked
<1> QED
  BY <1>1, RoutersInvariant, PTL DEF Spec, RenamedAsAsked

(* RestoreAsShown: what is restored is the backup of the last confirmation,*)
(* on the router of the last list.                                         *)
THEOREM RestoresShown == Spec => RestoreAsShown
<1> DEFINE Shown ==
      /\ done'.op = "restore" => /\ screen.restore \in {done'.backup, Unsure}
                                 /\ \/ done'.router \in {screen.listed, NoAddress}
                                    \/ screen.listed = Unsure
      /\ done'.op = "userman_restore" => screen.userman \in {done'.backup, Unsure}
<1>1. RoutersInv /\ [Next]_vars => [Shown]_vars
  <2> SUFFICES ASSUME RoutersInv, Next PROVE Shown
    OBVIOUS
  <2>1. CASE done'.op = "restore"
    <3>1. /\ backup_restore_confirm /\ data.restore_backup_name # NoBackup
          /\ done'.backup = data.restore_backup_name /\ done'.router = saved[selected]
      BY <2>1, WhatIsDone
    <3>2. selected # 0
      BY <3>1 DEF backup_restore_confirm, Guarded
    <3> QED
      BY <2>1, <3>1, <3>2 DEF RoutersInv, RestoreNamed, ListedSelected
  <2>2. CASE done'.op = "userman_restore"
    <3>1. /\ data.userman_restore_tar_path # NoBackup
          /\ done'.backup = data.userman_restore_tar_path
      BY <2>2, WhatIsDone
    <3> QED
      BY <2>2, <3>1 DEF RoutersInv, UsermanNamed
  <2> QED
    BY <2>1, <2>2
<1> QED
  BY <1>1, RoutersInvariant, PTL DEF Spec, RestoreAsShown

-----------------------------------------------------------------------------
(* cleanup_state clears the name and the list of a router backup: after a  *)
(* cancellation, and until something else is asked, none is restored.  Of  *)
(* what CancelledNotRestored forbids only the User Manager backup happens. *)
CancelStopsRestore == [][done'.op = "restore" => screen.asked # "cancelled"]_vars

THEOREM CancelStopsBackups == Spec => CancelStopsRestore
<1>1. RoutersInv /\ [Next]_vars => [done'.op = "restore" => screen.asked # "cancelled"]_vars
  <2> SUFFICES ASSUME RoutersInv, Next, done'.op = "restore"
               PROVE  screen.asked # "cancelled"
    OBVIOUS
  <2>1. data.restore_backup_name # NoBackup
    BY WhatIsDone
  <2> QED
    BY <2>1 DEF RoutersInv, RestoreNamed, CancelCleans
<1> QED
  BY <1>1, RoutersInvariant, PTL DEF Spec, CancelStopsRestore

(* A row is inserted or deleted and never given another router's address:  *)
(* the id of a new row is free however many last rows were deleted, and    *)
(* saving a discovered router updates the row that has its address.        *)
RowsNeverReplaced ==
    [][\A id \in Ids : saved'[id] # saved[id] => NoAddress \in {saved[id], saved'[id]}]_vars

THEOREM RowsKeepTheirRouter == Spec => RowsNeverReplaced
<1>1. RoutersInv /\ [Next]_vars =>
        [\A id \in Ids : saved'[id] # saved[id] => NoAddress \in {saved[id], saved'[id]}]_vars
  <2> SUFFICES ASSUME RoutersInv, Next, NEW id \in Ids, saved'[id] # saved[id]
               PROVE  NoAddress \in {saved[id], saved'[id]}
    OBVIOUS
  <2>1. RowsType(saved) /\ data \in UserData
    BY TypeParts DEF RoutersInv
  <2>2. CASE SessionNext
    <3>1. delete_router_execute
      BY <2>2 DEF SessionNext, cancel, go_back, start, Fallback, select_router_callback,
                  OtherDialogue, Expire, ConversationTimeout, connect_router,
                  reboot_router_callback
    <3> QED
      BY <2>1, <3>1 DEF delete_router_execute, RowsType, Saved
  <2>3. CASE FlowsNext
    <3>1. \/ manual_add_confirm /\ Adds(NextId, data.manual_ip) /\ NextId <= MaxRouters
          \/ disc_enter_password /\ data.disc_ip # NoAddress
             /\ _process_discovered_connection(data.disc_ip)
      BY <2>3 DEF FlowsNext, rename_router_start, rename_router_value, manual_add_start,
                  manual_add_ip, manual_add_field, manual_add_alias, manual_add_confirm,
                  discovered_router_selected, disc_enter_username, disc_enter_password
    <3>2. CASE Adds(NextId, data.manual_ip) /\ NextId <= MaxRouters
      <4>1. NextId \in Ids /\ NextId \notin Saved
        BY <3>2, NextIdIsFree, MaxRoutersAssumption DEF Ids
      <4> QED
        BY <2>1, <3>2, <4>1 DEF Adds, RowsType, Saved
    <3>3. CASE data.disc_ip # NoAddress /\ _process_discovered_connection(data.disc_ip)
      <4> DEFINE a == data.disc_ip
                 i == save_discovered_router(a)
      <4>1. a \in Addresses
        BY <2>1, <3>3 DEF UserData
      <4>2. i <= MaxRouters /\ saved' = [saved EXCEPT ![i] = a]
        BY <3>3 DEF _process_discovered_connection
      <4>3. i \in Ids /\ (saved[i] = a \/ i \notin Saved)
        BY <2>1, <4>1, <4>2, SavesDiscovered
      <4> HIDE DEF a, i
      <4> QED
        BY <2>1, <4>2, <4>3 DEF RowsType, Saved
    <3> QED
      BY <3>1, <3>2, <3>3
  <2>4. CASE RestoreNext
    BY <2>4 DEF RestoreNext, backup_restore_start, backup_restore_select, userman_restore_start,
                userman_restore_select, List, backup_restore_confirm, userman_restore_execute
  <2> QED
    BY <2>2, <2>3, <2>4 DEF Next
<1> QED
  BY <1>1, RoutersInvariant, PTL DEF Spec, RowsNeverReplaced

=============================================================================
