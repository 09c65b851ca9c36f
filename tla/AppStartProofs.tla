-------------------------- MODULE AppStartProofs --------------------------
(***************************************************************************)
(* The lists of the app, and registration: theorems about SignUp and about *)
(* AppStart, which adds the lists and the pages to it.                     *)
(*                                                                         *)
(* First the lists and their pages.  Then the accounts: what each step does *)
(* to the variables, with the types (the lemmas that end in Does); that every *)
(* account with a login is counted, i.e. has its document, has it queued, or *)
(* has one chain that will bring it, or was given up; and that no document is *)
(* replaced.  The steps of the app that leave the accounts alone are Aside, *)
(* so that every theorem about accounts holds of both specifications.      *)
(***************************************************************************)
EXTENDS AppStart, FiniteSetTheorems, SequenceTheorems, NaturalsInduction,
        WellFoundedInduction, TLAPS

-----------------------------------------------------------------------------
(* Catalogue.                                                              *)

\* What the steps of the app do to the lists and their pages.
ListStep ==
    \/ Lists!NewHome \/ Lists!Relaunch
    \/ Lists!Answer \/ Lists!Failure \/ Lists!Open \/ Lists!Slide
    \/ UNCHANGED catalogue

\* Every step of the app is one of these.
LEMMA StepsOfLists == ASSUME [StartNext]_<<account, catalogue>> PROVE ListStep
  BY DEF StartNext, Living, Dying, ListsArrive, OpenTabs, MoveHandles, BrowseTraps,
     Presenting, ListStep

ListsInv ==
    /\ categories \in Seq(Category)
    /\ browse.open => browse.shown \in Seq(Category)
    /\ listing => pending = {} /\ failed = {} /\ categories = <<>>
    /\ pending \cap failed = {}
    /\ Lists!TypeOK
    /\ CategoriesOnce
    /\ BrowseIsPrefix

\* While the upper handle is off both ends, the filter is what the label prints.
FilterPrinted == slider.max \notin {Lists!minValue, Lists!maxValue} => filter = slider

\* A list with one more element.
LEMMA Appended ==
    ASSUME NEW S, NEW s \in Seq(S), NEW e \in S
    PROVE  /\ Append(s, e) \in Seq(S)
           /\ Len(Append(s, e)) = Len(s) + 1 /\ Len(s) \in Nat
           /\ DOMAIN Append(s, e) = 1..(Len(s) + 1)
           /\ \A i \in 1..Len(s) : Append(s, e)[i] = s[i]
           /\ Append(s, e)[Len(s) + 1] = e
  BY AppendProperties

\* ... has that element, and is without repetition if the element is new.
LEMMA AppendedRange ==
    ASSUME NEW S, NEW s \in Seq(S), NEW e \in S
    PROVE  /\ Range(Append(s, e)) = Range(s) \cup {e}
           /\ IsInjective(s) /\ e \notin Range(s) => IsInjective(Append(s, e))
  <1> DEFINE t == Append(s, e)
             n == Len(s)
  <1>1. /\ n \in Nat /\ DOMAIN s = 1..n /\ DOMAIN t = 1..(n + 1)
        /\ \A i \in 1..n : t[i] = s[i]
        /\ t[n + 1] = e
    BY Appended
  <1> HIDE DEF t, n
  <1>2. \A i \in 1..(n + 1) : i \in 1..n \/ i = n + 1
    BY <1>1
  <1>3. 1..n \subseteq 1..(n + 1) /\ n + 1 \in 1..(n + 1)
    BY <1>1
  <1>4. Range(t) = Range(s) \cup {e}
    BY <1>1, <1>2, <1>3 DEF Range
  <1>5. ASSUME IsInjective(s), e \notin Range(s) PROVE IsInjective(t)
    <2> SUFFICES ASSUME NEW i \in 1..(n + 1), NEW j \in 1..(n + 1), t[i] = t[j]
                 PROVE  i = j
      BY <1>1 DEF IsInjective
    <2>1. \A k \in 1..n : t[k] \in Range(s)
      BY <1>1 DEF Range
    <2>2. CASE i \in 1..n /\ j \in 1..n
      BY <1>1, <1>5, <2>2 DEF IsInjective
    <2> QED
      BY <1>1, <1>2, <1>5, <2>1, <2>2
  <1> QED
    BY <1>4, <1>5 DEF t

\* A beginning of a list is one of the longer list.
LEMMA AppendedPrefix ==
    ASSUME NEW S, NEW p, Len(p) \in Nat, NEW s \in Seq(S), NEW e \in S, IsPrefix(p, s)
    PROVE  IsPrefix(p, Append(s, e))
  <1>1. Len(p) <= Len(s) /\ SubSeq(p, 1, Len(p)) = SubSeq(s, 1, Len(p)) /\ Len(s) \in Nat
    BY DEF IsPrefix
  <1>2. \A i \in 1..Len(p) : Append(s, e)[i] = s[i]
    BY <1>1, Appended
  <1>3. SubSeq(s, 1, Len(p)) = [i \in 1..(Len(p) - 1 + 1) |-> s[1 + i - 1]]
        /\ SubSeq(Append(s, e), 1, Len(p)) = [i \in 1..(Len(p) - 1 + 1) |-> Append(s, e)[1 + i - 1]]
    BY <1>1
  <1>4. SubSeq(Append(s, e), 1, Len(p)) = SubSeq(s, 1, Len(p))
    BY <1>1, <1>2, <1>3
  <1> QED
    BY <1>1, <1>4, Appended DEF IsPrefix

\* The operators of the library that the instance brings along.
LEMMA SameOperators ==
    /\ \A f : Lists!Range(f) = Range(f)
    /\ \A f : Lists!IsInjective(f) <=> IsInjective(f)
    /\ \A s, t : Lists!IsPrefix(s, t) <=> IsPrefix(s, t)
  BY DEF Lists!Range, Range, Lists!IsInjective, IsInjective, Lists!IsPrefix, IsPrefix

\* The lists are sound when the app starts.
LEMMA ListsInit == StartInit => ListsInv /\ FilterPrinted
  <1> SUFFICES ASSUME StartInit PROVE ListsInv /\ FilterPrinted
    OBVIOUS
  <1> USE DEF StartInit, Lists!Init, Lists!Lists, Lists!Pages, Lists!NoPage, Lists!NoStore
  <1>1. Lists!FullRange \in [min: Level, max: Level]
    BY StartAssumption DEF Lists!CatalogueConstants, Lists!FullRange, Lists!Interval
  <1>2. categories = <<>> /\ Range(categories) = {} /\ IsInjective(categories)
    BY DEF Range, IsInjective
  <1>3. CategoriesOnce
    BY <1>2, SameOperators DEF CategoriesOnce, Lists!CategoriesOnce
  <1>4. BrowseIsPrefix
    BY DEF BrowseIsPrefix, Lists!BrowseIsPrefix
  <1>5. Lists!TypeOK
    BY <1>1, <1>2, SameOperators DEF Lists!TypeOK
  <1> QED
    BY <1>2, <1>3, <1>4, <1>5 DEF ListsInv, FilterPrinted

\* New pages leave nothing to keep but the lists.
LEMMA FreshPages ==
    ASSUME browse' = Lists!NoPage, store' = Lists!NoStore,
           slider' = Lists!FullRange, filter' = Lists!FullRange
    PROVE  /\ ~browse'.open /\ browse'.open \in BOOLEAN /\ store'.open \in BOOLEAN
           /\ slider' \in [min: Level, max: Level] /\ filter' \in [min: Level, max: Level]
           /\ BrowseIsPrefix' /\ FilterPrinted'
  <1>1. Lists!FullRange \in [min: Level, max: Level]
    BY StartAssumption DEF Lists!CatalogueConstants, Lists!FullRange, Lists!Interval
  <1> QED
    BY <1>1 DEF Lists!NoPage, Lists!NoStore, BrowseIsPrefix, Lists!BrowseIsPrefix, FilterPrinted

\* They stay sound, and the filter stays the printed one.
LEMMA ListsStep == ListsInv /\ FilterPrinted /\ ListStep => ListsInv' /\ FilterPrinted'
  <1> SUFFICES ASSUME ListsInv, FilterPrinted, ListStep
               PROVE  ListsInv' /\ FilterPrinted'
    OBVIOUS
  <1>t. /\ listing \in BOOLEAN /\ offered \in BOOLEAN
        /\ pending \subseteq Category /\ failed \subseteq Category
        /\ categories \in Seq(Category)
        /\ rewards \subseteq Reward
        /\ browse.open \in BOOLEAN /\ store.open \in BOOLEAN
        /\ slider \in [min: Level, max: Level] /\ filter \in [min: Level, max: Level]
        /\ browse.open => browse.shown \in Seq(Category)
    BY DEF ListsInv, Lists!TypeOK
  <1>r. Range(categories) \subseteq Category
    BY <1>t DEF Range
  <1>l. listing => pending = {} /\ failed = {} /\ categories = <<>>
    BY DEF ListsInv
  <1>o. /\ IsInjective(categories) /\ pending \cap failed = {}
        /\ Range(categories) \cap (pending \cup failed) = {}
        /\ Range(categories) \cup pending \cup failed \in {{}, Category}
    BY SameOperators DEF ListsInv, CategoriesOnce, Lists!CategoriesOnce
  <1>b. browse.open => browse.shown # <<>> /\ IsPrefix(browse.shown, categories)
    BY SameOperators DEF ListsInv, BrowseIsPrefix, Lists!BrowseIsPrefix
  <1>lists. ASSUME UNCHANGED <<listing, pending, failed, categories>>,
                   offered' \in BOOLEAN, rewards' \subseteq Reward,
                   browse'.open \in BOOLEAN, store'.open \in BOOLEAN,
                   slider' \in [min: Level, max: Level],
                   filter' \in [min: Level, max: Level],
                   browse'.open => browse'.shown \in Seq(Category),
                   BrowseIsPrefix'
            PROVE  ListsInv'
    <2>1. CategoriesOnce'
      BY <1>lists, <1>o, SameOperators DEF CategoriesOnce, Lists!CategoriesOnce
    <2>2. Lists!TypeOK'
      BY <1>lists, <1>t, <1>r, SameOperators DEF Lists!TypeOK
    <2> QED
      BY <1>lists, <1>l, <1>o, <1>t, <2>1, <2>2 DEF ListsInv
  <1>pages. ASSUME UNCHANGED <<browse, store, slider, filter>>,
                   listing' \in BOOLEAN, offered' \in BOOLEAN,
                   pending' \subseteq Category, failed' \subseteq Category,
                   categories' \in Seq(Category), rewards' \subseteq Reward,
                   listing' => pending' = {} /\ failed' = {} /\ categories' = <<>>,
                   IsInjective(categories'), pending' \cap failed' = {},
                   Range(categories') \cap (pending' \cup failed') = {},
                   Range(categories') \cup pending' \cup failed' \in {{}, Category},
                   browse.open => IsPrefix(browse.shown, categories')
            PROVE  ListsInv' /\ FilterPrinted'
    <2>1. CategoriesOnce'
      BY <1>pages, SameOperators DEF CategoriesOnce, Lists!CategoriesOnce
    <2>2. BrowseIsPrefix'
      BY <1>pages, <1>b, SameOperators DEF BrowseIsPrefix, Lists!BrowseIsPrefix
    <2>3. Range(categories') \subseteq Category
      BY <1>pages DEF Range
    <2>4. Lists!TypeOK'
      BY <1>pages, <1>t, <2>3, SameOperators DEF Lists!TypeOK
    <2>5. FilterPrinted'
      BY <1>pages DEF FilterPrinted
    <2> QED
      BY <1>pages, <1>t, <2>1, <2>2, <2>4, <2>5 DEF ListsInv
  <1>1. CASE Lists!NewHome
    BY <1>1, <1>lists, <1>t, FreshPages DEF Lists!NewHome, Lists!lists
  <1>2. CASE Lists!Relaunch
    <2>1. Range(<<>>) = {} /\ IsInjective(<<>>)
      BY DEF Range, IsInjective
    <2>2. CategoriesOnce'
      BY <1>2, <2>1, SameOperators DEF Lists!Relaunch, CategoriesOnce, Lists!CategoriesOnce
    <2>3. Lists!TypeOK'
      BY <1>2, <2>1, FreshPages, SameOperators DEF Lists!Relaunch, Lists!TypeOK
    <2> QED
      BY <1>2, <2>2, <2>3, FreshPages DEF Lists!Relaunch, ListsInv
  <1>3. ASSUME NEW found \in {Category, {}}, Lists!AnswerCategories(found)
        PROVE  ListsInv' /\ FilterPrinted'
    <2>1. /\ listing /\ listing' = FALSE /\ pending' = found
          /\ UNCHANGED <<failed, categories, offered, rewards, browse, store, slider, filter>>
      BY <1>3 DEF Lists!AnswerCategories, Lists!pages
    <2>2. categories = <<>> /\ failed = {} /\ Range(categories) = {} /\ found \subseteq Category
      BY <1>l, <2>1 DEF Range
    <2>3. /\ Range(categories') \cap (pending' \cup failed') = {}
          /\ Range(categories') \cup pending' \cup failed' \in {{}, Category}
      BY <2>1, <2>2
    <2> QED
      BY <1>pages, <1>t, <1>o, <1>b, <2>1, <2>2, <2>3
  <1>4. ASSUME NEW c \in Category, Lists!AnswerChallenges(c)
        PROVE  ListsInv' /\ FilterPrinted'
    <2>1. c \in pending /\ pending' = pending \ {c} /\ categories' = Append(categories, c)
          /\ UNCHANGED <<listing, failed, offered, rewards, browse, store, slider, filter>>
      BY <1>4 DEF Lists!AnswerChallenges, Lists!pages
    <2>2. categories' \in Seq(Category) /\ ~listing
      BY <1>l, <1>t, <2>1, Appended
    <2>3. Range(categories') = Range(categories) \cup {c} /\ c \notin Range(categories)
      BY <1>o, <1>t, <2>1, AppendedRange
    <2>4. IsInjective(categories')
      BY <1>o, <1>t, <2>1, <2>3, AppendedRange
    <2>5. browse.open => IsPrefix(browse.shown, categories')
      BY <1>b, <1>t, <2>1, AppendedPrefix
    <2> QED
      BY <1>pages, <1>t, <1>o, <2>1, <2>2, <2>3, <2>4, <2>5
  <1>5. ASSUME NEW c \in Category, Lists!FailChallenges(c)
        PROVE  ListsInv' /\ FilterPrinted'
    BY <1>5, <1>pages, <1>t, <1>l, <1>o, <1>b DEF Lists!FailChallenges, Lists!pages
  <1>6. ASSUME NEW found \in {Reward, {}}, Lists!AnswerRewards(found)
        PROVE  ListsInv' /\ FilterPrinted'
    BY <1>6, <1>pages, <1>t, <1>l, <1>o, <1>b DEF Lists!AnswerRewards, Lists!pages
  <1>7. CASE Lists!OpenBrowse
    <2>1. browse' = [open |-> TRUE, shown |-> categories] /\ categories # <<>>
          /\ UNCHANGED <<listing, pending, failed, categories, offered, rewards, store, slider, filter>>
      BY <1>7 DEF Lists!OpenBrowse, Lists!Page, Lists!lists
    <2>2. IsPrefix(categories, categories)
      BY <1>t DEF IsPrefix
    <2>3. BrowseIsPrefix'
      BY <2>1, <2>2, SameOperators DEF BrowseIsPrefix, Lists!BrowseIsPrefix
    <2>4. FilterPrinted'
      BY <2>1 DEF FilterPrinted
    <2> QED
      BY <1>lists, <1>t, <2>1, <2>3, <2>4
  <1>8. CASE Lists!OpenStore \/ Lists!ApplyFilter
    <2>1. store'.open = TRUE
          /\ UNCHANGED <<listing, pending, failed, categories, offered, rewards, browse, slider, filter>>
      BY <1>8 DEF Lists!OpenStore, Lists!ApplyFilter, Lists!Page, Lists!lists
    <2>2. BrowseIsPrefix' /\ FilterPrinted'
      BY <2>1 DEF ListsInv, BrowseIsPrefix, Lists!BrowseIsPrefix, FilterPrinted
    <2> QED
      BY <1>lists, <1>t, <2>1, <2>2
  <1>9. ASSUME NEW lo \in Level, NEW hi \in Level, Lists!MoveSlider(lo, hi)
        PROVE  ListsInv' /\ FilterPrinted'
    <2>1. /\ slider' = [min |-> lo, max |-> hi]
          /\ filter' = [min |-> IF hi # Lists!minValue THEN lo ELSE filter.min,
                        max |-> IF hi # Lists!maxValue THEN hi ELSE filter.max]
          /\ UNCHANGED <<listing, pending, failed, categories, offered, rewards, browse, store>>
      BY <1>9 DEF Lists!MoveSlider, Lists!Interval, Lists!lists
    <2>2. slider' \in [min: Level, max: Level] /\ filter' \in [min: Level, max: Level]
      BY <1>t, <2>1
    <2>3. FilterPrinted'
      BY <2>1 DEF FilterPrinted
    <2>4. BrowseIsPrefix'
      BY <2>1 DEF ListsInv, BrowseIsPrefix, Lists!BrowseIsPrefix
    <2> QED
      BY <1>lists, <1>t, <2>1, <2>2, <2>3, <2>4
  <1>10. CASE UNCHANGED catalogue
    <2>1. BrowseIsPrefix' /\ FilterPrinted'
      BY <1>10 DEF catalogue, ListsInv, BrowseIsPrefix, Lists!BrowseIsPrefix, FilterPrinted
    <2> QED
      BY <1>10, <1>lists, <1>t, <2>1 DEF catalogue
  <1> QED
    BY <1>1, <1>2, <1>3, <1>4, <1>5, <1>6, <1>7, <1>8, <1>9, <1>10
       DEF ListStep, Lists!Answer, Lists!Failure, Lists!Open, Lists!Slide

\* The lists are sound and the filter is the printed one in every state of the app.
THEOREM ListsInvariant == StartSpec => [](ListsInv /\ FilterPrinted)
  <1>1. ListsInv /\ FilterPrinted /\ [StartNext]_<<account, catalogue>>
          => ListsInv' /\ FilterPrinted'
    BY StepsOfLists, ListsStep
  <1> QED
    BY <1>1, ListsInit, PTL DEF StartSpec

\* A category is listed once, however often the pages ask for it (getCategories
\* appends to the list it keeps).
THEOREM CategoriesComeOnce == StartSpec => []CategoriesOnce
  <1>1. ListsInv => CategoriesOnce
    BY DEF ListsInv
  <1> QED
    BY <1>1, ListsInvariant, PTL

\* BROWSE shows a beginning of the categories, in their order, while more arrive.
THEOREM BrowseShowsPrefix == StartSpec => []BrowseIsPrefix
  <1>1. ListsInv => BrowseIsPrefix
    BY DEF ListsInv
  <1> QED
    BY <1>1, ListsInvariant, PTL

\* Whenever the store's page changes it shows the rewards between the two prices
\* printed, unless the upper handle is at an end.
THEOREM StoreShowsPrinted == StartSpec => ShownAsPrinted
  <1> DEFINE Printed == store.open /\ store'.open /\ store' # store
                 /\ slider.max \notin {Lists!minValue, Lists!maxValue}
                    => store'.shown = rewards \cap Lists!InRange(slider)
  <1>1. FilterPrinted /\ ListStep => Printed \/ UNCHANGED catalogue
    <2> SUFFICES ASSUME FilterPrinted, ListStep, store.open, store'.open, store' # store,
                        slider.max \notin {Lists!minValue, Lists!maxValue}
                 PROVE  store'.shown = rewards \cap Lists!InRange(slider)
      OBVIOUS
    <2>1. CASE Lists!NewHome \/ Lists!Relaunch
      BY <2>1 DEF Lists!NewHome, Lists!Relaunch, Lists!NoStore
    <2>2. CASE Lists!ApplyFilter
      BY <2>2 DEF Lists!ApplyFilter, Lists!Page, FilterPrinted
    <2>3. CASE Lists!OpenStore
      BY <2>3 DEF Lists!OpenStore
    <2>4. CASE UNCHANGED store
      BY <2>4
    <2>5. CASE Lists!Answer \/ Lists!Failure \/ Lists!OpenBrowse \/ Lists!Slide \/ UNCHANGED catalogue
      BY <2>4, <2>5
         DEF Lists!Answer, Lists!Failure, Lists!OpenBrowse, Lists!Slide, catalogue,
             Lists!AnswerCategories, Lists!AnswerChallenges, Lists!FailChallenges,
             Lists!AnswerRewards, Lists!MoveSlider, Lists!pages
    <2> QED
      BY <2>1, <2>2, <2>3, <2>5 DEF ListStep, Lists!Open
  <1>2. UNCHANGED catalogue => UNCHANGED Lists!vars
    BY DEF catalogue, Lists!vars, Lists!lists, Lists!pages
  <1>3. FilterPrinted /\ [StartNext]_<<account, catalogue>> => [Printed]_(Lists!vars)
    BY <1>1, <1>2, StepsOfLists
  <1> HIDE DEF Printed
  <1> QED
    BY <1>3, ListsInvariant, PTL DEF StartSpec, ShownAsPrinted, Lists!ShownAsPrinted, Printed

-----------------------------------------------------------------------------
(* Accounts: types.                                                        *)

ChangeOf == [uid: Account, email: Address, session: 0..MaxTaps]
Logins == [Account -> Address \cup {NoAddress}]
Docs == [Account -> Document \cup {NoDocument}]
Queues == [Account -> Seq(PendingWrite)]
Changes == Seq(ChangeOf)
ModelOf == [uid: Account \cup {Nobody}, loaded: BOOLEAN, list: Seq(Challenge)]

\* Work without an account, and work that is creating one.
Early == {"signing", "creating"}

\* A chain has an account once its login is known, and its look-ups, each made
\* once, when the document has arrived.
Sound(r) ==
    /\ r.uid = Nobody <=> r.stage \in Early
    /\ r.stage # "looking" => r.left = {} /\ r.list = <<>>
    /\ IsInjective(r.list) /\ Range(r.list) \cap r.left = {}

WorkTypes(w) ==
    /\ w = [t \in DOMAIN w |-> w[t]]
    /\ \A t \in DOMAIN w : w[t] \in Work /\ Sound(w[t])

AccountTypes ==
    /\ login \in Logins /\ docs \in Docs /\ queue \in Queues
    /\ auth \in Account \cup {Nobody}
    /\ session \in 0..MaxTaps
    /\ model \in ModelOf
    /\ page \in {"intro", "login", "details", "home"}
    /\ error \in BOOLEAN
    /\ WorkTypes(work)
    /\ DOMAIN work \subseteq 1..taps
    /\ changes \in Changes
    /\ taps \in 0..MaxTaps
    /\ overlapped \in BOOLEAN
    /\ abandoned \subseteq Account
    /\ apart \subseteq Account
    /\ faults \in 0..MaxFaults

\* The process ends: a call failed or data is missing, a chain traps, or BROWSE
\* has no category, which is tapped when the work of the account is done.
End ==
    /\ Die
    /\ UNCHANGED <<cloud, auth, taps, overlapped>>
    /\ \/ Fault
       \/ /\ UNCHANGED faults
          /\ \/ \E t \in DOMAIN work : WorkTraps(t)
             \/ AtRest

\* Steps of the lists, seen from the accounts: only the bounds move.
Aside ==
    /\ UNCHANGED <<login, docs, queue, changes, auth, session, model, page, error,
                   work, overlapped, abandoned, apart>>
    /\ taps' \in 0..MaxTaps /\ taps' >= taps
    /\ UNCHANGED faults \/ Fault

\* What the steps of the app do to the accounts.
AccountStep == UserStep \/ NetworkStep \/ Loss \/ End \/ Aside

\* Every step of the app, or of SignUp alone, is a step of the accounts.
LEMMA StepsOfAccounts ==
    ASSUME taps \in 0..MaxTaps,
           [StartNext]_<<account, catalogue>> \/ [Next]_vars
    PROVE  AccountStep
  <1> USE SignUpAssumption
          DEF AccountStep, vars, account, cloud, client, identity, screen, history
  <1>1. CASE Living \/ UserStep \/ NetworkStep \/ Loss
    BY <1>1 DEF Living
  <1>2. CASE Dying \/ Death
    BY <1>2 DEF Dying, Death, Kill, TrapStep, TrapOf, TrapOnMissingData, End
  <1>3. CASE ListsArrive \/ OpenTabs \/ UNCHANGED vars
    BY <1>3 DEF ListsArrive, OpenTabs, Aside
  <1>4. CASE MoveHandles
    BY <1>4 DEF MoveHandles, Aside
  <1>5. CASE BrowseTraps
    BY <1>5 DEF BrowseTraps, End
  <1> QED
    BY <1>1, <1>2, <1>3, <1>4, <1>5 DEF StartNext, Next

-----------------------------------------------------------------------------
\* One piece of work changed.
LEMMA WorkChanged ==
    ASSUME NEW w, WorkTypes(w), NEW t \in DOMAIN w, NEW r \in Work,
           Sound(r)
    PROVE  /\ WorkTypes([w EXCEPT ![t] = r])
           /\ DOMAIN [w EXCEPT ![t] = r] = DOMAIN w
           /\ [w EXCEPT ![t] = r][t] = r
           /\ \A i \in DOMAIN w \ {t} : [w EXCEPT ![t] = r][i] = w[i]
  BY DEF WorkTypes

\* A piece of work removed.
LEMMA WorkRemoved ==
    ASSUME NEW w, WorkTypes(w), NEW t
    PROVE  /\ WorkTypes(Without(w, t))
           /\ DOMAIN Without(w, t) = DOMAIN w \ {t}
           /\ \A i \in DOMAIN w \ {t} : Without(w, t)[i] = w[i]
  BY DEF WorkTypes, Without

\* A piece of work added.
LEMMA WorkAdded ==
    ASSUME NEW w, WorkTypes(w), NEW t, NEW r \in Work,
           Sound(r)
    PROVE  /\ WorkTypes(With(w, t, r))
           /\ DOMAIN With(w, t, r) = DOMAIN w \cup {t}
           /\ With(w, t, r)[t] = r
           /\ \A i \in DOMAIN w \ {t} : With(w, t, r)[i] = w[i]
  BY DEF WorkTypes, With

\* The chain is where it was; only what it shows or is current for may differ.
SameChain(r, s) ==
    /\ s.kind = r.kind /\ s.address = r.address /\ s.uid = r.uid /\ s.stage = r.stage
    /\ s.image = r.image /\ s.left = r.left /\ s.list = r.list

\* What a chain shows, or is current for, is no part of its soundness.
LEMMA WorkParts ==
    ASSUME NEW r \in Work
    PROVE  /\ LET s == [r EXCEPT !.shown = FALSE]
              IN  s \in Work /\ SameChain(r, s) /\ s.shown = FALSE /\ s.current = r.current
           /\ LET s == [r EXCEPT !.current = FALSE]
              IN  s \in Work /\ SameChain(r, s) /\ s.shown = r.shown /\ s.current = FALSE
  BY DEF Work, SameChain

\* All work hidden.
LEMMA WorkHidden ==
    ASSUME NEW w, WorkTypes(w)
    PROVE  /\ WorkTypes(Hidden(w))
           /\ DOMAIN Hidden(w) = DOMAIN w
           /\ \A i \in DOMAIN w :
                 /\ SameChain(w[i], Hidden(w)[i])
                 /\ Hidden(w)[i].shown = FALSE /\ Hidden(w)[i].current = w[i].current
  <1>1. Hidden(w) = [i \in DOMAIN w |-> [w[i] EXCEPT !.shown = FALSE]]
    BY DEF Hidden
  <1>2. \A i \in DOMAIN w : LET s == [w[i] EXCEPT !.shown = FALSE]
           IN  s \in Work /\ SameChain(w[i], s) /\ s.shown = FALSE /\ s.current = w[i].current
    BY WorkParts DEF WorkTypes
  <1>3. \A i \in DOMAIN w : /\ Hidden(w)[i] \in Work /\ SameChain(w[i], Hidden(w)[i])
                            /\ Hidden(w)[i].shown = FALSE /\ Hidden(w)[i].current = w[i].current
    BY <1>1, <1>2
  <1> QED
    BY <1>1, <1>3 DEF WorkTypes, SameChain, Sound

\* Work t fetches the document of u, for the model that is the global one now.
FetchBegun(w, v, t, u) ==
    /\ DOMAIN v = DOMAIN w
    /\ v[t].stage = "fetching" /\ v[t].uid = u /\ v[t].current = TRUE
    /\ v[t].kind = w[t].kind /\ v[t].address = w[t].address /\ v[t].shown = w[t].shown
    /\ \A i \in DOMAIN w \ {t} :
          SameChain(w[i], v[i]) /\ v[i].shown = w[i].shown /\ v[i].current = FALSE

\* A fetch begun keeps the types.
LEMMA WorkFetching ==
    ASSUME NEW w, WorkTypes(w), NEW t \in DOMAIN w, NEW u \in Account,
           w[t].stage # "looking"
    PROVE  WorkTypes(Fetching(w, t, u)) /\ FetchBegun(w, Fetching(w, t, u), t, u)
  <1> DEFINE f == Fetching(w, t, u)
             new == [w[t] EXCEPT !.stage = "fetching", !.uid = u, !.current = TRUE]
  <1>1. DOMAIN f = DOMAIN w /\ f = [i \in DOMAIN f |-> f[i]]
        /\ f[t] = new /\ \A i \in DOMAIN w \ {t} : f[i] = [w[i] EXCEPT !.current = FALSE]
    BY DEF Fetching
  <1> HIDE DEF f
  <1>2. \A i \in DOMAIN w \ {t} :
           LET s == [w[i] EXCEPT !.current = FALSE]
           IN  s \in Work /\ SameChain(w[i], s) /\ s.shown = w[i].shown /\ s.current = FALSE
    BY WorkParts DEF WorkTypes
  <1>3. \A i \in DOMAIN w \ {t} : /\ f[i] \in Work /\ SameChain(w[i], f[i])
                                  /\ f[i].shown = w[i].shown /\ f[i].current = FALSE
    BY <1>1, <1>2
  <1>4. w[t] \in Work /\ w[t].left = {} /\ w[t].list = <<>>
    BY DEF WorkTypes, Sound
  <1>5. /\ new \in Work
        /\ new.stage = "fetching" /\ new.uid = u /\ new.current = TRUE
        /\ new.kind = w[t].kind /\ new.address = w[t].address /\ new.shown = w[t].shown
        /\ new.left = w[t].left /\ new.list = w[t].list
    BY <1>4 DEF Work, Stage
  <1>6. u # Nobody
    BY SignUpAssumption DEF Account, Nobody
  <1> HIDE DEF new
  <1>e. IsInjective(<<>>) /\ Range(<<>>) = {}
    BY DEF IsInjective, Range
  <1>7. \A i \in DOMAIN f : f[i] \in Work /\ Sound(f[i])
    <2> TAKE i \in DOMAIN f
    <2>1. CASE i = t
      BY <1>1, <1>4, <1>5, <1>6, <1>e, <2>1 DEF Early, Sound
    <2>2. CASE i # t
      BY <1>1, <1>3, <2>2 DEF WorkTypes, SameChain, Sound
    <2> QED
      BY <2>1, <2>2
  <1> QED
    BY <1>1, <1>3, <1>5, <1>7 DEF WorkTypes, f, FetchBegun

-----------------------------------------------------------------------------
\* What the steps of a chain do to the work under way.
AllButOne(w, v, t) == DOMAIN v = DOMAIN w /\ \A i \in DOMAIN w \ {t} : v[i] = w[i]

SameTap(r, s) ==
    s.kind = r.kind /\ s.address = r.address /\ s.shown = r.shown /\ s.current = r.current

Staged(w, t, st, u) == [w EXCEPT ![t].stage = st, ![t].uid = u]
Moved(w, t, st) == [w EXCEPT ![t].stage = st]
Answered(w, t, im, lf) ==
    [w EXCEPT ![t].stage = "looking", ![t].image = im, ![t].left = lf]
LookedUp(w, t, c) == [w EXCEPT ![t].left = @ \ {c}, ![t].list = Append(@, c)]

\* A chain that moves to another stage with its account.
LEMMA WorkStaged ==
    ASSUME NEW w, WorkTypes(w), NEW t \in DOMAIN w, w[t].stage # "looking",
           NEW st \in Stage \ Early, NEW u \in Account
    PROVE  LET v == Staged(w, t, st, u)
           IN  /\ WorkTypes(v) /\ AllButOne(w, v, t)
               /\ v[t].stage = st /\ v[t].uid = u /\ SameTap(w[t], v[t])
               /\ v[t].image = w[t].image /\ v[t].left = {} /\ v[t].list = <<>>
  <1> DEFINE r == [w[t] EXCEPT !.stage = st, !.uid = u]
             v == Staged(w, t, st, u)
  <1>1. v = [w EXCEPT ![t] = r]
    BY DEF WorkTypes, Staged
  <1>2. w[t] \in Work /\ w[t].left = {} /\ w[t].list = <<>>
    BY DEF WorkTypes, Sound
  <1>3. /\ r \in Work /\ r.stage = st /\ r.uid = u /\ SameTap(w[t], r)
        /\ r.image = w[t].image /\ r.left = {} /\ r.list = <<>>
    BY <1>2 DEF Work, SameTap
  <1>4. u # Nobody
    BY SignUpAssumption DEF Account, Nobody
  <1>5. IsInjective(<<>>) /\ Range(<<>>) = {}
    BY DEF IsInjective, Range
  <1> HIDE DEF r, v
  <1>6. Sound(r)
    BY <1>3, <1>4, <1>5 DEF Sound
  <1>7. WorkTypes(v) /\ AllButOne(w, v, t) /\ v[t] = r
    BY <1>1, <1>3, <1>6, WorkChanged DEF AllButOne
  <1> QED
    BY <1>3, <1>7 DEF v

\* A chain that moves to another stage.
LEMMA WorkMoved ==
    ASSUME NEW w, WorkTypes(w), NEW t \in DOMAIN w, NEW st \in Stage \ Early,
           w[t].stage \notin Early, w[t].stage # "looking"
    PROVE  LET v == Moved(w, t, st)
           IN  /\ WorkTypes(v) /\ AllButOne(w, v, t)
               /\ v[t].stage = st /\ v[t].uid = w[t].uid /\ SameTap(w[t], v[t])
               /\ v[t].image = w[t].image /\ v[t].left = {} /\ v[t].list = <<>>
  <1> DEFINE r == [w[t] EXCEPT !.stage = st]
             v == Moved(w, t, st)
  <1>1. v = [w EXCEPT ![t] = r]
    BY DEF WorkTypes, Moved
  <1>2. w[t] \in Work /\ w[t].uid # Nobody /\ w[t].left = {} /\ w[t].list = <<>>
    BY DEF WorkTypes, Sound
  <1>3. /\ r \in Work /\ r.stage = st /\ r.uid = w[t].uid /\ SameTap(w[t], r)
        /\ r.image = w[t].image /\ r.left = {} /\ r.list = <<>>
    BY <1>2 DEF Work, SameTap
  <1>5. IsInjective(<<>>) /\ Range(<<>>) = {}
    BY DEF IsInjective, Range
  <1> HIDE DEF r, v
  <1>6. Sound(r)
    BY <1>2, <1>3, <1>5 DEF Sound
  <1>7. WorkTypes(v) /\ AllButOne(w, v, t) /\ v[t] = r
    BY <1>1, <1>3, <1>6, WorkChanged DEF AllButOne
  <1> QED
    BY <1>3, <1>7 DEF v

\* A chain whose document arrived.
LEMMA WorkAnswered ==
    ASSUME NEW w, WorkTypes(w), NEW t \in DOMAIN w, w[t].stage = "fetching",
           NEW im \in BOOLEAN, NEW lf \in SUBSET Challenge
    PROVE  LET v == Answered(w, t, im, lf)
           IN  /\ WorkTypes(v) /\ AllButOne(w, v, t)
               /\ v[t].stage = "looking" /\ v[t].uid = w[t].uid /\ SameTap(w[t], v[t])
               /\ v[t].image = im /\ v[t].left = lf /\ v[t].list = <<>>
  <1> DEFINE r == [w[t] EXCEPT !.stage = "looking", !.image = im, !.left = lf]
             v == Answered(w, t, im, lf)
  <1>1. v = [w EXCEPT ![t] = r]
    BY DEF WorkTypes, Answered
  <1>2. w[t] \in Work /\ w[t].uid # Nobody /\ w[t].list = <<>>
    BY DEF WorkTypes, Early, Sound
  <1>3. /\ r \in Work /\ r.stage = "looking" /\ r.uid = w[t].uid /\ SameTap(w[t], r)
        /\ r.image = im /\ r.left = lf /\ r.list = <<>>
    BY <1>2 DEF Work, SameTap, Stage
  <1>5. IsInjective(<<>>) /\ Range(<<>>) = {}
    BY DEF IsInjective, Range
  <1> HIDE DEF r, v
  <1>6. Sound(r)
    BY <1>2, <1>3, <1>5 DEF Sound, Early
  <1>7. WorkTypes(v) /\ AllButOne(w, v, t) /\ v[t] = r
    BY <1>1, <1>3, <1>6, WorkChanged DEF AllButOne
  <1> QED
    BY <1>3, <1>7 DEF v

\* A chain with one look-up more behind it.
LEMMA WorkLookedUp ==
    ASSUME NEW w, WorkTypes(w), NEW t \in DOMAIN w, NEW c \in w[t].left
    PROVE  LET v == LookedUp(w, t, c)
           IN  /\ WorkTypes(v) /\ AllButOne(w, v, t) /\ w[t].stage = "looking"
               /\ v[t].stage = "looking" /\ v[t].uid = w[t].uid /\ SameTap(w[t], v[t])
               /\ v[t].image = w[t].image /\ v[t].left = w[t].left \ {c}
               /\ Range(v[t].list) = Range(w[t].list) \cup {c}
  <1> DEFINE l == Append(w[t].list, c)
             f == w[t].left \ {c}
             r == [w[t] EXCEPT !.left = f, !.list = l]
             v == LookedUp(w, t, c)
  <1>1. v = [w EXCEPT ![t] = r]
    BY DEF WorkTypes, LookedUp
  <1>2. w[t] \in Work /\ Sound(w[t])
    BY DEF WorkTypes
  <1>3. w[t].list \in Seq(Challenge) /\ w[t].left \in SUBSET Challenge
    BY <1>2 DEF Work
  <1>4. w[t].stage = "looking" /\ IsInjective(w[t].list) /\ Range(w[t].list) \cap w[t].left = {}
    BY <1>2 DEF Sound
  <1>5. l \in Seq(Challenge) /\ f \in SUBSET Challenge
    BY <1>3, Appended
  <1>6. Range(l) = Range(w[t].list) \cup {c} /\ IsInjective(l) /\ Range(l) \cap f = {}
    BY <1>3, <1>4, AppendedRange
  <1> HIDE DEF l, f
  <1>7. /\ r \in Work /\ r.stage = w[t].stage /\ r.uid = w[t].uid /\ SameTap(w[t], r)
        /\ r.image = w[t].image /\ r.left = f /\ r.list = l
    BY <1>2, <1>5 DEF Work, SameTap
  <1>8. Sound(r)
    BY <1>2, <1>4, <1>6, <1>7 DEF Sound
  <1> HIDE DEF r, v
  <1>9. WorkTypes(v) /\ AllButOne(w, v, t) /\ v[t] = r
    BY <1>1, <1>7, <1>8, WorkChanged DEF AllButOne
  <1> QED
    BY <1>4, <1>6, <1>7, <1>9 DEF v, f

-----------------------------------------------------------------------------
\* What a queue holds.
LEMMA QueueElements ==
    ASSUME NEW q \in Queues, NEW u \in Account
    PROVE  /\ q[u] \in Seq(PendingWrite) /\ Len(q[u]) \in Nat /\ DOMAIN q[u] = 1..Len(q[u])
           /\ \A k \in DOMAIN q[u] : q[u][k] \in PendingWrite
  BY DEF Queues

Queued(q, a, r) == [q EXCEPT ![a] = Append(@, r)]
Sent(q, a) == [q EXCEPT ![a] = Tail(@)]

\* v is q with the write r, the n-th of a, at the end of the queue of a.
Longer(q, v, a, r, n) ==
    /\ n \in Nat \ {0} /\ n \notin DOMAIN q[a]
    /\ DOMAIN v[a] = DOMAIN q[a] \cup {n} /\ v[a][n] = r
    /\ \A k \in DOMAIN q[a] : v[a][k] = q[a][k] /\ k < n
    /\ \A u \in Account \ {a} : v[u] = q[u]

\* A write queued is the last of its queue.
LEMMA QueueAppended ==
    ASSUME NEW q \in Queues, NEW a \in Account, NEW r \in PendingWrite
    PROVE  /\ Queued(q, a, r) \in Queues
           /\ Longer(q, Queued(q, a, r), a, r, Len(q[a]) + 1)
  <1> DEFINE v == Queued(q, a, r)
             n == Len(q[a]) + 1
  <1>1. q[a] \in Seq(PendingWrite) /\ Len(q[a]) \in Nat /\ DOMAIN q[a] = 1..Len(q[a])
    BY QueueElements
  <1>2. v[a] = Append(q[a], r) /\ \A u \in Account \ {a} : v[u] = q[u]
    BY DEF Queues, Queued
  <1>3. /\ v[a] \in Seq(PendingWrite) /\ DOMAIN v[a] = 1..n /\ v[a][n] = r
        /\ \A k \in 1..Len(q[a]) : v[a][k] = q[a][k]
    BY <1>1, <1>2, Appended
  <1>4. v \in Queues
    BY <1>2, <1>3 DEF Queues, Queued
  <1> HIDE DEF v
  <1>5. /\ n \in Nat \ {0} /\ n \notin DOMAIN q[a] /\ 1..n = DOMAIN q[a] \cup {n}
        /\ \A k \in DOMAIN q[a] : k < n
    BY <1>1
  <1> QED
    BY <1>1, <1>2, <1>3, <1>4, <1>5 DEF v, Longer

\* Where the write that is k-th after a write of a was sent stood before.
Before(u, k, a) == IF u = a THEN k + 1 ELSE k

\* The first element of a list and the rest.
LEMMA HeadAndTail ==
    ASSUME NEW S, NEW s \in Seq(S), s # <<>>
    PROVE  /\ Head(s) \in S /\ Head(s) = s[1] /\ Len(s) # 0
           /\ Tail(s) \in Seq(S) /\ DOMAIN Tail(s) = 1..(Len(s) - 1)
           /\ \A k \in 1..(Len(s) - 1) : Tail(s)[k] = s[k + 1]
  <1>1. Len(s) \in Nat /\ DOMAIN s = 1..Len(s) /\ Len(s) # 0
    BY EmptySeq
  <1>2. /\ Head(s) \in S /\ Head(s) = s[1] /\ Tail(s) \in Seq(S)
        /\ Len(Tail(s)) = Len(s) - 1
    BY <1>1, HeadTailProperties
  <1>3. DOMAIN Tail(s) = 1..(Len(s) - 1)
    BY <1>2
  <1>4. \A k \in 1..(Len(s) - 1) : Tail(s)[k] = s[k + 1]
    BY <1>1, <1>2, HeadTailProperties
  <1> QED
    BY <1>1, <1>2, <1>3, <1>4

\* v is q without the first write of a.
Shorter(q, v, a) ==
    /\ \A u \in Account : \A k \in DOMAIN v[u] :
          /\ k \in Nat \ {0} /\ Before(u, k, a) \in DOMAIN q[u]
          /\ v[u][k] = q[u][Before(u, k, a)]
    /\ \A u \in Account : \A j \in DOMAIN q[u] :
          ~(u = a /\ j = 1) => \E k \in DOMAIN v[u] : j = Before(u, k, a)

\* A write sent leaves the others, one place further on.
LEMMA QueueSent ==
    ASSUME NEW q \in Queues, NEW a \in Account, q[a] # <<>>
    PROVE  /\ Sent(q, a) \in Queues /\ Shorter(q, Sent(q, a), a)
           /\ 1 \in DOMAIN q[a] /\ Head(q[a]) = q[a][1] /\ Head(q[a]) \in PendingWrite
  <1> DEFINE v == Sent(q, a)
  <1>1. q[a] \in Seq(PendingWrite) /\ Len(q[a]) \in Nat /\ DOMAIN q[a] = 1..Len(q[a])
    BY QueueElements
  <1>2. v[a] = Tail(q[a]) /\ \A u \in Account \ {a} : v[u] = q[u]
    BY DEF Queues, Sent
  <1>h. /\ Tail(q[a]) \in Seq(PendingWrite) /\ DOMAIN Tail(q[a]) = 1..(Len(q[a]) - 1)
        /\ \A k \in 1..(Len(q[a]) - 1) : Tail(q[a])[k] = q[a][k + 1]
        /\ Head(q[a]) = q[a][1] /\ Len(q[a]) # 0
    BY <1>1, HeadAndTail
  <1>3. /\ v[a] \in Seq(PendingWrite) /\ DOMAIN v[a] = 1..(Len(q[a]) - 1)
        /\ \A k \in 1..(Len(q[a]) - 1) : v[a][k] = q[a][k + 1]
        /\ Head(q[a]) = q[a][1] /\ Len(q[a]) # 0
    BY <1>2, <1>h
  <1>4. v \in Queues
    BY <1>2, <1>3 DEF Queues, Sent
  <1> HIDE DEF v
  <1>5. 1 \in DOMAIN q[a] /\ Head(q[a]) \in PendingWrite
    BY <1>1, <1>3
  <1>6. ASSUME NEW u \in Account, NEW k \in DOMAIN v[u]
        PROVE  k \in Nat \ {0} /\ Before(u, k, a) \in DOMAIN q[u] /\ v[u][k] = q[u][Before(u, k, a)]
    <2>1. CASE u = a
      <3>1. k \in 1..(Len(q[a]) - 1) /\ v[a][k] = q[a][k + 1]
        BY <1>3, <1>6, <2>1
      <3>2. k \in Nat \ {0} /\ k + 1 \in DOMAIN q[a]
        BY <1>1, <3>1
      <3> QED
        BY <2>1, <3>1, <3>2 DEF Before
    <2>2. CASE u # a
      <3>1. v[u] = q[u] /\ DOMAIN q[u] = 1..Len(q[u]) /\ Len(q[u]) \in Nat
        BY <1>2, <2>2, QueueElements
      <3> QED
        BY <1>6, <2>2, <3>1 DEF Before
    <2> QED
      BY <2>1, <2>2
  <1>7. ASSUME NEW u \in Account, NEW j \in DOMAIN q[u], ~(u = a /\ j = 1)
        PROVE  \E k \in DOMAIN v[u] : j = Before(u, k, a)
    <2>1. CASE u = a
      <3>1. j - 1 \in DOMAIN v[u] /\ j = (j - 1) + 1
        BY <1>1, <1>3, <1>7, <2>1
      <3> QED
        BY <2>1, <3>1 DEF Before
    <2>2. CASE u # a
      BY <1>2, <1>7, <2>2 DEF Before
    <2> QED
      BY <2>1, <2>2
  <1> QED
    BY <1>3, <1>4, <1>5, <1>6, <1>7 DEF v, Shorter

-----------------------------------------------------------------------------
SameWrite(w, x) == x.kind = w.kind /\ x.uid = w.uid /\ x.email = w.email /\ x.image = w.image

\* v holds a beginning of each queue of q, and the whole of those of other accounts
\* than a; nobody waits for a write of v.
CutShort(q, v, a) ==
    \A u \in Account :
       /\ DOMAIN v[u] \subseteq DOMAIN q[u]
       /\ u # a => DOMAIN v[u] = DOMAIN q[u]
       /\ \A k \in DOMAIN v[u] : SameWrite(q[u][k], v[u][k]) /\ v[u][k].tap = 0
       /\ \A k \in DOMAIN v[u] : \A j \in DOMAIN q[u] : j < k => j \in DOMAIN v[u]

\* The writes lost are owned up to.
LossKnown ==
    \A u \in Account : \A k \in DOMAIN queue[u] \ DOMAIN queue'[u] :
       /\ queue[u][k].kind = "new" => queue[u][k].uid \in abandoned'
       /\ queue[u][k].kind = "email" => queue[u][k].uid \in apart'

\* So are the registrations and the changes.
WorkLossKnown ==
    /\ \A t \in DOMAIN work :
          work[t].stage \in {"created", "uploading", "writing"}
             => \/ work[t].uid \in abandoned'
                \/ \E v \in Account : \E k \in DOMAIN queue'[v] :
                      queue'[v][k].uid = work[t].uid /\ queue'[v][k].kind = "new"
    /\ \A k \in DOMAIN changes : changes[k].uid \in apart'

\* What is left when the process ends.
LEMMA Died ==
    ASSUME queue \in Queues, WorkTypes(work), changes \in Changes,
           auth \in Account \cup {Nobody}, abandoned \subseteq Account, apart \subseteq Account,
           Die
    PROVE  /\ queue' \in Queues /\ CutShort(queue, queue', auth) /\ LossKnown /\ WorkLossKnown
           /\ abandoned \subseteq abandoned' /\ abandoned' \subseteq Account
           /\ apart \subseteq apart' /\ apart' \subseteq Account
           /\ work' = <<>> /\ WorkTypes(work') /\ DOMAIN work' = {} /\ changes' = <<>>
           /\ session' = 0 /\ model' = NoModel /\ page' = "intro" /\ error' = FALSE
  <1>n. PICK n \in 0..(IF auth = Nobody THEN 0 ELSE Len(queue[auth])) :
          LET lost == IF auth = Nobody THEN {} ELSE Range(SubSeq(queue[auth], n + 1, Len(queue[auth])))
              kept == [u \in Account |->
                         LET q == IF u = auth THEN SubSeq(queue[u], 1, n) ELSE queue[u]
                         IN  [k \in DOMAIN q |-> [q[k] EXCEPT !.tap = 0]]]
          IN
          /\ queue' = kept
          /\ abandoned' = abandoned \cup {w.uid : w \in {l \in lost : l.kind = "new"}}
                             \cup {u \in Registering(work) :
                                     \A v \in Account : \A k \in DOMAIN kept[v] :
                                        kept[v][k].uid # u \/ kept[v][k].kind # "new"}
          /\ apart' = apart \cup {changes[k].uid : k \in DOMAIN changes}
                            \cup {w.uid : w \in {l \in lost : l.kind = "email"}}
    BY DEF Die
  <1> DEFINE lost == IF auth = Nobody THEN {} ELSE Range(SubSeq(queue[auth], n + 1, Len(queue[auth])))
             Q(u) == IF u = auth THEN SubSeq(queue[u], 1, n) ELSE queue[u]
  <1>e. \A u \in Account : /\ queue[u] \in Seq(PendingWrite) /\ Len(queue[u]) \in Nat
                           /\ DOMAIN queue[u] = 1..Len(queue[u])
                           /\ \A k \in DOMAIN queue[u] : queue[u][k] \in PendingWrite
    BY QueueElements
  <1>a. auth # Nobody => auth \in Account /\ n \in 0..Len(queue[auth])
    BY <1>n
  <1>z. Nobody \notin Account
    BY SignUpAssumption DEF Account, Nobody
  <1>q. ASSUME NEW u \in Account
        PROVE  /\ Q(u) \in Seq(PendingWrite) /\ Len(Q(u)) \in Nat /\ Len(Q(u)) <= Len(queue[u])
               /\ DOMAIN Q(u) = 1..Len(Q(u))
               /\ \A k \in 1..Len(Q(u)) : Q(u)[k] = queue[u][k] /\ k \in DOMAIN queue[u]
               /\ u = auth => Len(Q(u)) = n
               /\ u # auth => Q(u) = queue[u]
    <2>1. CASE u = auth
      <3>1. n \in 0..Len(queue[u])
        BY <1>a, <1>z, <2>1
      <3>2. Q(u) = SubSeq(queue[u], 1, n)
        BY <2>1
      <3>3. SubSeq(queue[u], 1, n) = [i \in 1..(n - 1 + 1) |-> queue[u][1 + i - 1]]
        BY <3>1, <1>e
      <3>4. SubSeq(queue[u], 1, n) = [i \in 1..n |-> queue[u][i]]
        BY <3>1, <3>3
      <3>5. \A i \in 1..n : queue[u][i] \in PendingWrite /\ i \in DOMAIN queue[u]
        BY <1>e, <3>1
      <3> QED
        BY <2>1, <3>1, <3>2, <3>4, <3>5
    <2>2. CASE u # auth
      BY <1>e, <2>2
    <2> QED
      BY <2>1, <2>2
  <1> HIDE DEF Q
  <1>k. \A u \in Account : queue'[u] = [k \in DOMAIN Q(u) |-> [Q(u)[k] EXCEPT !.tap = 0]]
    BY <1>n DEF Q
  <1>w. \A r \in PendingWrite : LET x == [r EXCEPT !.tap = 0]
                                IN  x \in PendingWrite /\ SameWrite(r, x) /\ x.tap = 0
    BY SignUpAssumption DEF PendingWrite, SameWrite
  <1>1. ASSUME NEW u \in Account
        PROVE  /\ DOMAIN queue'[u] = 1..Len(Q(u)) /\ queue'[u] \in Seq(PendingWrite)
               /\ \A k \in DOMAIN queue'[u] :
                     /\ queue'[u][k] \in PendingWrite
                     /\ SameWrite(queue[u][k], queue'[u][k]) /\ queue'[u][k].tap = 0
    <2>1. \A k \in 1..Len(Q(u)) : LET x == [Q(u)[k] EXCEPT !.tap = 0]
             IN x \in PendingWrite /\ SameWrite(queue[u][k], x) /\ x.tap = 0
      BY <1>q, <1>e, <1>w, ZenonT(30)
    <2>2. queue'[u] = [k \in 1..Len(Q(u)) |-> [Q(u)[k] EXCEPT !.tap = 0]]
      BY <1>k, <1>q
    <2>3. \A k \in 1..Len(Q(u)) : /\ queue'[u][k] \in PendingWrite
             /\ SameWrite(queue[u][k], queue'[u][k]) /\ queue'[u][k].tap = 0
      BY <2>1, <2>2
    <2>4. queue'[u] \in [1..Len(Q(u)) -> PendingWrite] /\ Len(Q(u)) \in Nat
      BY <2>2, <2>3, <1>q
    <2>5. queue'[u] \in Seq(PendingWrite)
      BY <2>4
    <2> QED
      BY <2>2, <2>3, <2>5
  <1>2. queue' \in Queues
    <2>1. queue' = [u \in Account |-> queue'[u]]
      BY <1>n
    <2> QED
      BY <1>1, <2>1 DEF Queues
  <1>3. ASSUME NEW u \in Account, NEW k \in DOMAIN queue[u] \ DOMAIN queue'[u]
        PROVE  u = auth /\ queue[u][k] \in lost
    <2>1. u = auth /\ k \in 1..Len(queue[u]) /\ k \notin 1..n /\ n \in 0..Len(queue[u])
      BY <1>1, <1>q, <1>e, <1>3, <1>a, <1>z
    <2>2. SubSeq(queue[u], n + 1, Len(queue[u]))
             = [i \in 1..(Len(queue[u]) - (n + 1) + 1) |-> queue[u][(n + 1) + i - 1]]
      BY <2>1, <1>e
    <2>3. k - n \in 1..(Len(queue[u]) - (n + 1) + 1) /\ (n + 1) + (k - n) - 1 = k
      BY <2>1, <1>e, SMTT(20)
    <2>4. queue[u][k] \in Range(SubSeq(queue[u], n + 1, Len(queue[u])))
      BY <2>2, <2>3 DEF Range
    <2> QED
      BY <2>1, <2>4, <1>z
  <1>4. lost \subseteq PendingWrite
    <2>1. CASE auth = Nobody
      BY <2>1
    <2>2. CASE auth # Nobody
      <3>1. n \in 0..Len(queue[auth]) /\ auth \in Account /\ Len(queue[auth]) \in Nat
        BY <1>a, <1>e, <2>2
      <3>2. SubSeq(queue[auth], n + 1, Len(queue[auth]))
             = [i \in 1..(Len(queue[auth]) - (n + 1) + 1) |-> queue[auth][(n + 1) + i - 1]]
        BY <3>1
      <3>3. \A i \in 1..(Len(queue[auth]) - (n + 1) + 1) : (n + 1) + i - 1 \in DOMAIN queue[auth]
        BY <3>1, <1>e
      <3>4. \A i \in 1..(Len(queue[auth]) - (n + 1) + 1) : queue[auth][(n + 1) + i - 1] \in PendingWrite
        BY <3>1, <3>3, <1>e
      <3> QED
        BY <2>2, <3>2, <3>4 DEF Range
    <2> QED
      BY <2>1, <2>2
  <1>5. \A w \in PendingWrite : w.uid \in Account
    BY DEF PendingWrite
  <1> HIDE DEF lost
  <1>6. /\ abandoned' = abandoned \cup {w.uid : w \in {l \in lost : l.kind = "new"}}
                           \cup {u \in Registering(work) :
                                   \A v \in Account : \A k \in DOMAIN queue'[v] :
                                      queue'[v][k].uid # u \/ queue'[v][k].kind # "new"}
        /\ apart' = apart \cup {changes[k].uid : k \in DOMAIN changes}
                          \cup {w.uid : w \in {l \in lost : l.kind = "email"}}
    BY <1>n DEF lost
  <1>7. ASSUME NEW t \in DOMAIN work, work[t].stage \in {"created", "uploading", "writing"}
        PROVE  /\ work[t].uid \in Account
               /\ \/ work[t].uid \in abandoned'
                  \/ \E v \in Account : \E k \in DOMAIN queue'[v] :
                        queue'[v][k].uid = work[t].uid /\ queue'[v][k].kind = "new"
    <2>1. work[t].uid \in Registering(work)
      BY <1>7 DEF Registering
    <2>2. work[t].uid \in Account
      BY <1>7 DEF WorkTypes, Work, Early, Sound
    <2> QED
      BY <1>6, <2>1, <2>2
  <1>8. Registering(work) \subseteq Account
    BY <1>7 DEF Registering
  <1>9. \A k \in DOMAIN changes : changes[k].uid \in Account
    <2>1. \A k \in DOMAIN changes : changes[k] \in ChangeOf
      BY DEF Changes
    <2> QED
      BY <2>1 DEF ChangeOf
  <1>10. abandoned' \subseteq Account /\ apart' \subseteq Account
    BY <1>4, <1>5, <1>6, <1>8, <1>9
  <1>11. abandoned \subseteq abandoned' /\ apart \subseteq apart'
         /\ \A k \in DOMAIN changes : changes[k].uid \in apart'
    BY <1>6
  <1>12. \A w \in lost : (w.kind = "new" => w.uid \in abandoned') /\ (w.kind = "email" => w.uid \in apart')
    BY <1>6
  <1>13. /\ work' = <<>> /\ DOMAIN work' = {} /\ changes' = <<>>
         /\ session' = 0 /\ model' = NoModel /\ page' = "intro" /\ error' = FALSE
    BY DEF Die
  <1>14. WorkTypes(work')
    BY <1>13 DEF WorkTypes
  <1>15. ASSUME NEW u \in Account
         PROVE  /\ DOMAIN queue'[u] \subseteq DOMAIN queue[u]
                /\ u # auth => DOMAIN queue'[u] = DOMAIN queue[u]
                /\ \A k \in DOMAIN queue'[u] : \A j \in DOMAIN queue[u] :
                      j < k => j \in DOMAIN queue'[u]
    BY <1>1, <1>q, <1>e
  <1>16. CutShort(queue, queue', auth)
    BY <1>1, <1>15 DEF CutShort
  <1>17. LossKnown
    BY <1>3, <1>12 DEF LossKnown
  <1>18. WorkLossKnown
    BY <1>7, <1>11 DEF WorkLossKnown
  <1> QED
    BY <1>2, <1>10, <1>11, <1>13, <1>14, <1>16, <1>17, <1>18

-----------------------------------------------------------------------------
\* The write a piece of work waits for is queued once, and is its own.
Waiting ==
    /\ \A u \in Account : \A k \in DOMAIN queue[u] : queue[u][k].tap # 0 =>
          /\ queue[u][k].tap \in DOMAIN work
          /\ work[queue[u][k].tap].stage = "writing"
          /\ work[queue[u][k].tap].uid = queue[u][k].uid
    /\ \A u, v \in Account : \A k \in DOMAIN queue[u] : \A j \in DOMAIN queue[v] :
          queue[u][k].tap # 0 /\ queue[u][k].tap = queue[v][j].tap => u = v /\ k = j

Accounts == AccountTypes /\ Waiting

\* Only what the work shows differs.
SameWork(w, v) ==
    /\ DOMAIN v = DOMAIN w
    /\ \A i \in DOMAIN w :
          /\ SameChain(w[i], v[i]) /\ v[i].current = w[i].current
          /\ v[i].shown => w[i].shown /\ auth' = auth

\* Pages opened and left, and the sign-out: only what is shown changes.
LEMMA PagesDo ==
    ASSUME AccountTypes, GoBack \/ SignOut \/ \E p \in {"login", "details"} : OpenPage(p)
    PROVE  /\ AccountTypes' /\ SameWork(work, work')
           /\ UNCHANGED <<login, docs, queue, changes, model, taps, overlapped, abandoned, apart, faults>>
           /\ (auth' = auth /\ session' = session) \/ (auth' = Nobody /\ session' = 0)
           /\ page' # "home"
  <1>1. ASSUME GoBack \/ SignOut
        PROVE  work' = Hidden(work) /\ page' = "intro"
    BY <1>1 DEF GoBack, SignOut
  <1>2. ASSUME GoBack
        PROVE  /\ UNCHANGED <<login, docs, queue, changes, model, taps, overlapped, abandoned, apart, faults>>
               /\ auth' = auth /\ session' = session /\ error' = FALSE
    BY <1>2 DEF GoBack, cloud, client, identity, screen, history
  <1>3. ASSUME SignOut
        PROVE  /\ UNCHANGED <<login, docs, queue, changes, model, taps, overlapped, abandoned, apart, faults>>
               /\ auth' = Nobody /\ session' = 0 /\ error' = error
    BY <1>3 DEF SignOut, cloud, client, identity, screen, history
  <1>4. CASE GoBack \/ SignOut
    <2>1. UNCHANGED <<login, docs, queue, changes, model, taps, overlapped, abandoned, apart, faults>>
      BY <1>2, <1>3, <1>4
    <2>2. (auth' = auth /\ session' = session) \/ (auth' = Nobody /\ session' = 0)
      BY <1>2, <1>3, <1>4
    <2>3. WorkTypes(work) /\ work' = Hidden(work)
      BY <1>1, <1>4 DEF AccountTypes
    <2>4. /\ WorkTypes(work') /\ DOMAIN work' = DOMAIN work
          /\ \A i \in DOMAIN work : SameChain(work[i], work'[i]) /\ work'[i].shown = FALSE
                                    /\ work'[i].current = work[i].current
      BY <2>3, WorkHidden
    <2>b. error' = FALSE \/ error' = error
      BY <1>2, <1>3, <1>4
    <2>c. auth' \in Account \cup {Nobody} /\ session' \in 0..MaxTaps
      BY <2>2, SignUpAssumption DEF AccountTypes
    <2>5. auth' \in Account \cup {Nobody} /\ session' \in 0..MaxTaps /\ error' \in BOOLEAN
      BY <2>b, <2>c DEF AccountTypes
    <2>a. WorkTypes(work') /\ DOMAIN work' \subseteq 1..taps' /\ page' = "intro"
      BY <1>1, <1>4, <2>1, <2>4 DEF AccountTypes
    <2>6. AccountTypes'
      BY <2>a, <2>1, <2>5 DEF AccountTypes
    <2> QED
      BY <1>1, <1>4, <2>1, <2>2, <2>4, <2>6 DEF SameWork
  <1>5. ASSUME NEW p \in {"login", "details"}, OpenPage(p)
        PROVE  /\ UNCHANGED <<login, docs, queue, changes, model, taps, overlapped, abandoned, apart, faults>>
               /\ UNCHANGED <<auth, session, error, work>> /\ page' = p
    BY <1>5 DEF OpenPage, cloud, client, identity, screen, history
  <1>6. ASSUME NEW p \in {"login", "details"}, OpenPage(p) PROVE AccountTypes'
    BY <1>5, <1>6 DEF AccountTypes
  <1>7. auth' = auth => SameWork(work, work)
    BY DEF SameWork, SameChain
  <1>8. CASE \E p \in {"login", "details"} : OpenPage(p)
    BY <1>5, <1>6, <1>7, <1>8
  <1> QED
    BY <1>4, <1>8

\* v is w and the tap t.
Tap(w, v, t, kind, a) ==
    /\ t \notin DOMAIN w /\ DOMAIN v = DOMAIN w \cup {t}
    /\ v[t] = Tapped(kind, a) /\ \A i \in DOMAIN w : v[i] = w[i]

\* A tap adds one piece of work.
LEMMA BeginDoes ==
    ASSUME AccountTypes, NEW kind \in {"register", "signin"}, NEW a \in Address, Begin(kind, a),
           error' \in BOOLEAN
    PROVE  /\ AccountTypes' /\ Tap(work, work', taps', kind, a) /\ taps' = taps + 1
           /\ UNCHANGED <<login, docs, queue, changes, auth, session, model, page, abandoned, apart, faults>>
  <1> DEFINE r == Tapped(kind, a)
  <1>0. IsInjective(<<>>) /\ Range(<<>>) = {}
    BY DEF IsInjective, Range
  <1>1. r \in Work /\ Sound(r)
    BY <1>0 DEF Tapped, Work, Stage, Early, Sound
  <1>2. /\ taps' = taps + 1 /\ taps \in 0..MaxTaps /\ taps' \in 0..MaxTaps
        /\ 1..taps \subseteq 1..taps' /\ taps' \notin 1..taps /\ taps' \in 1..taps'
    BY SignUpAssumption DEF AccountTypes, Begin
  <1>3. work' = With(work, taps', r) /\ overlapped' \in BOOLEAN /\ WorkTypes(work)
    BY DEF Begin, AccountTypes
  <1> HIDE DEF r
  <1>4. /\ WorkTypes(work') /\ DOMAIN work' = DOMAIN work \cup {taps'}
        /\ work'[taps'] = r
        /\ \A i \in DOMAIN work \ {taps'} : work'[i] = work[i]
    <2> DEFINE t == taps'
    <2> HIDE DEF t
    <2>1. /\ WorkTypes(With(work, t, r)) /\ DOMAIN With(work, t, r) = DOMAIN work \cup {t}
          /\ With(work, t, r)[t] = r
          /\ \A i \in DOMAIN work \ {t} : With(work, t, r)[i] = work[i]
      <3>1. /\ WorkTypes(With(work, t, r)) /\ DOMAIN With(work, t, r) = DOMAIN work \cup {t}
        BY <1>1, <1>3, WorkAdded
      <3>2. With(work, t, r)[t] = r
        BY DEF With
      <3>3. \A i \in DOMAIN work \ {t} : With(work, t, r)[i] = work[i]
        BY DEF With
      <3> QED
        BY <3>1, <3>2, <3>3
    <2> QED
      BY <1>3, <2>1 DEF t
  <1>5. taps' \notin DOMAIN work /\ DOMAIN work' \subseteq 1..taps'
    BY <1>2, <1>4 DEF AccountTypes
  <1>6. UNCHANGED <<login, docs, queue, changes, auth, session, model, page, abandoned, apart, faults>>
    BY DEF Begin, cloud, client, identity, screen, history
  <1>a. /\ taps' \in 0..MaxTaps /\ WorkTypes(work') /\ DOMAIN work' \subseteq 1..taps'
        /\ overlapped' \in BOOLEAN
    BY <1>2, <1>3, <1>4, <1>5
  <1>7. AccountTypes'
    BY <1>a, <1>6 DEF AccountTypes
  <1> QED
    BY <1>2, <1>4, <1>5, <1>6, <1>7 DEF r, Tap

\* Work beyond creating its login has an account.
LEMMA WorkOf ==
    ASSUME AccountTypes, NEW t \in DOMAIN work
    PROVE  /\ work[t] \in Work /\ work[t].address \in Address
           /\ work[t].stage \notin Early => work[t].uid \in Account
           /\ work[t].kind \in {"register", "signin"}
           /\ work[t].left \subseteq Challenge /\ work[t].list \in Seq(Challenge)
           /\ work[t].shown \in BOOLEAN
           /\ work[t].image \in BOOLEAN /\ t \in 1..MaxTaps /\ t # 0
  <1>1. WorkTypes(work) /\ DOMAIN work \subseteq 1..taps /\ taps \in 0..MaxTaps
    BY DEF AccountTypes
  <1>2. work[t] \in Work /\ (work[t].uid = Nobody <=> work[t].stage \in Early)
    BY <1>1 DEF WorkTypes, Sound
  <1>3. t \in 1..MaxTaps /\ t # 0
    BY <1>1, SignUpAssumption
  <1> QED
    BY <1>2, <1>3 DEF Work

\* There are finitely many logins.
LEMMA RegisteredFinite == IsFiniteSet(Registered) /\ Cardinality(Registered) \in Nat
  <1>1. IsFiniteSet(1..MaxAccounts)
    BY SignUpAssumption, FS_Interval
  <1>2. Registered \subseteq 1..MaxAccounts
    BY DEF Registered, Account
  <1> QED
    BY <1>1, <1>2, FS_Subset, FS_CardinalityType

\* A login created moves one chain and adds one login.
LEMMA CreateLoginDoes ==
    ASSUME AccountTypes, NEW t \in DOMAIN work, CreateLogin(t)
    PROVE  /\ AccountTypes' /\ AllButOne(work, work', t)
           /\ work[t].stage = "creating" /\ work'[t].stage = "created"
           /\ work'[t].uid = Cardinality(Registered) + 1
           /\ SameTap(work[t], work'[t])
           /\ work'[t].uid \in Account /\ Holder(work[t].address) = {}
           /\ login' = [login EXCEPT ![work'[t].uid] = work[t].address]
           /\ UNCHANGED <<docs, queue, changes, auth, session, model, page, error, taps,
                          overlapped, abandoned, apart, faults>>
  <1> DEFINE u == Cardinality(Registered) + 1
  <1>1. u \in Account
    BY RegisteredFinite, SignUpAssumption DEF CreateLogin, Account
  <1>2. /\ login' = [login EXCEPT ![u] = work[t].address]
        /\ work' = Staged(work, t, "created", u)
        /\ work[t].stage = "creating" /\ Holder(work[t].address) = {}
    BY DEF CreateLogin, Staged
  <1>3. UNCHANGED <<docs, queue, changes, auth, session, model, page, error, taps,
                    overlapped, abandoned, apart, faults>>
    BY DEF CreateLogin, cloud, client, identity, screen, history
  <1> HIDE DEF u
  <1>4. "created" \in Stage \ Early
    BY DEF Stage, Early
  <1>5. WorkTypes(work) /\ login \in Logins /\ work[t].address \in Address
    BY WorkOf DEF AccountTypes
  <1>a. work[t].stage # "looking"
    BY <1>2
  <1>6. /\ WorkTypes(work') /\ AllButOne(work, work', t)
        /\ work'[t].stage = "created" /\ work'[t].uid = u /\ SameTap(work[t], work'[t])
    BY <1>1, <1>2, <1>4, <1>5, <1>a, WorkStaged
  <1>7. login' \in Logins
    BY <1>1, <1>2, <1>5 DEF Logins
  <1>8. DOMAIN work' = DOMAIN work
    BY <1>6 DEF AllButOne
  <1>9. AccountTypes'
    BY <1>3, <1>6, <1>7, <1>8 DEF AccountTypes
  <1> QED
    BY <1>1, <1>2, <1>3, <1>6, <1>9 DEF u

\* v is w without the work t.
Dropped(w, v, t) == DOMAIN v = DOMAIN w \ {t} /\ \A i \in DOMAIN w \ {t} : v[i] = w[i]

\* Work that ends and leaves the rest alone.
LEMMA LossesDo ==
    ASSUME AccountTypes, NEW t \in DOMAIN work,
           RefuseLogin(t) \/ RefuseSignIn(t) \/ LoseLogin(t) \/ LoseUpload(t) \/ LoseAnswer(t)
    PROVE  /\ AccountTypes'
           /\ Dropped(work, work', t)
           /\ work[t].stage \notin {"writing", "written"}
           /\ work[t].stage \in {"created", "uploading"} =>
                 abandoned' = abandoned \cup {work[t].uid}
           /\ abandoned \subseteq abandoned'
           /\ faults' \in {faults, faults + 1} /\ faults \in Nat
           /\ faults' = faults => abandoned' = abandoned
           /\ UNCHANGED <<login, docs, queue, changes, auth, session, model, page, taps,
                          overlapped, apart>>
  <1>1. /\ UNCHANGED <<login, docs, queue, changes, auth, session, model, page, taps,
                       overlapped, apart>>
        /\ work' = Without(work, t)
    BY DEF RefuseLogin, RefuseSignIn, LoseLogin, LoseUpload, LoseAnswer,
           cloud, client, identity, screen, history
  <1>2. WorkTypes(work) /\ faults \in 0..MaxFaults
    BY DEF AccountTypes
  <1>l. work[t].left # {} => work[t].stage = "looking"
    BY <1>2 DEF WorkTypes, Sound
  <1>3. WorkTypes(work') /\ DOMAIN work' = DOMAIN work \ {t} /\ Dropped(work, work', t)
    BY <1>1, <1>2, WorkRemoved DEF Dropped
  <1>4. CASE RefuseLogin(t) \/ RefuseSignIn(t)
    <2>1. work[t].stage \in {"creating", "signing"} /\ abandoned' = abandoned /\ faults' = faults
          /\ error' \in BOOLEAN
      BY <1>4 DEF RefuseLogin, RefuseSignIn, AccountTypes, screen, history
    <2>2. AccountTypes'
      BY <1>1, <1>3, <2>1 DEF AccountTypes
    <2> QED
      BY <1>1, <1>2, <1>3, <2>1, <2>2
  <1>5. CASE LoseLogin(t) \/ LoseUpload(t)
    <2>1. /\ work[t].stage \in {"created", "uploading"} /\ abandoned' = abandoned \cup {work[t].uid}
          /\ faults' = faults + 1 /\ faults < MaxFaults /\ error' = error
      BY <1>5 DEF LoseLogin, LoseUpload, Fault, screen
    <2>2. abandoned' \subseteq Account /\ faults' \in 0..MaxFaults
      BY <1>2, <2>1, WorkOf, SignUpAssumption DEF AccountTypes, Early
    <2>3. AccountTypes'
      BY <1>1, <1>3, <2>1, <2>2 DEF AccountTypes
    <2> QED
      BY <1>1, <1>2, <1>3, <2>1, <2>2, <2>3, SignUpAssumption
  <1>6. CASE LoseAnswer(t)
    <2>1. /\ work[t].stage = "fetching" \/ work[t].left # {}
          /\ faults' = faults + 1 /\ faults < MaxFaults /\ error' = error /\ abandoned' = abandoned
      BY <1>6 DEF LoseAnswer, Fault, screen, history
    <2>2. faults' \in 0..MaxFaults /\ work[t].stage \in {"fetching", "looking"}
      BY <1>2, <1>l, <2>1, SignUpAssumption
    <2>3. AccountTypes'
      BY <1>1, <1>3, <2>1, <2>2 DEF AccountTypes
    <2> QED
      BY <1>1, <1>2, <1>3, <2>1, <2>2, <2>3, SignUpAssumption
  <1> QED
    BY <1>4, <1>5, <1>6

\* A set of numbers that is not empty has a least one.
LEMMA LeastOf ==
    ASSUME NEW T \in SUBSET Nat, T # {}
    PROVE  \E m \in T : \A k \in T : m <= k
  <1> DEFINE R == {ss \in Nat \X Nat : ss[1] < ss[2]}
  <1>1. IsWellFoundedOn(R, Nat)
    BY NatLessThanWellFounded DEF OpToRel
  <1>2. \E m \in T : \A k \in T : ~(<<k, m>> \in R)
    <2> HIDE DEF R
    <2> QED BY <1>1, WFMin
  <1>3. \A k, m \in T : <<k, m>> \in R <=> k < m
    OBVIOUS
  <1> HIDE DEF R
  <1>4. PICK m \in T : \A k \in T : ~(<<k, m>> \in R)
    BY <1>2
  <1>5. \A k \in T : m <= k
    <2> TAKE k \in T
    <2>1. ~(k < m)
      BY <1>3, <1>4
    <2>2. k \in Nat /\ m \in Nat
      OBVIOUS
    <2> QED
      BY <2>1, <2>2
  <1> QED
    BY <1>5

\* The last of some places of a list.
LEMMA LastOf ==
    ASSUME NEW n \in Nat, NEW T \in SUBSET (1..n), T # {}
    PROVE  Max(T) \in T /\ \A k \in T : Max(T) >= k
  <1> DEFINE D == {d \in Nat : n - d \in T}
  <1>1. D \in SUBSET Nat /\ D # {}
    <2>1. PICK k \in T : TRUE
      OBVIOUS
    <2>2. n - k \in Nat /\ n - (n - k) = k
      OBVIOUS
    <2> QED
      BY <2>1, <2>2
  <1>2. \A d \in D : n - d \in T
    OBVIOUS
  <1>3. \A k \in T : n - k \in D
    <2> TAKE k \in T
    <2>1. n - k \in Nat /\ n - (n - k) = k
      OBVIOUS
    <2> QED
      BY <2>1
  <1> HIDE DEF D
  <1>4. PICK m \in D : \A d \in D : m <= d
    BY <1>1, LeastOf
  <1>5. n - m \in T /\ m \in Nat
    BY <1>1, <1>2
  <1>6. \A k \in T : n - m >= k
    <2> TAKE k \in T
    <2>1. m <= n - k /\ k \in Nat
      BY <1>3, <1>4
    <2> QED
      BY <1>5, <2>1
  <1>7. \E x \in T : \A y \in T : x >= y
    BY <1>5, <1>6
  <1> QED
    BY <1>7 DEF Max

-----------------------------------------------------------------------------
\* A queued write of a whole document.
NewAt(v, k, u) == k \in DOMAIN queue[v] /\ queue[v][k].kind = "new" /\ queue[v][k].uid = u

Written(w) == [email |-> w.email, image |-> w.image, running |-> {}]

\* What a write of a document leaves is a document.
LEMMA WrittenType ==
    ASSUME NEW w \in PendingWrite
    PROVE  /\ Written(w) \in Document /\ Written(w) # NoDocument
           /\ Written(w).email = w.email /\ Written(w).image = w.image /\ Written(w).running = {}
  BY SignUpAssumption DEF PendingWrite, Written, Document, NoDocument

\* The document as this device sees it is the server's, or the last one queued by
\* the signed-in account.
LEMMA SeenIs ==
    ASSUME AccountTypes, NEW u
    PROVE  \/ /\ Seen(u) = docs[u]
              /\ auth # Nobody => \A k : ~NewAt(auth, k, u)
           \/ /\ auth \in Account
              /\ \E k : /\ NewAt(auth, k, u) /\ Seen(u) = Written(queue[auth][k])
                        /\ \A j : NewAt(auth, j, u) => j <= k
  <1> DEFINE own == IF auth = Nobody THEN <<>> ELSE queue[auth]
             new == {k \in DOMAIN own : own[k].kind = "new" /\ own[k].uid = u}
  <1>1. Seen(u) = IF new = {} THEN docs[u] ELSE Written(own[Max(new)])
    BY DEF Seen, Written
  <1>2. CASE new = {}
    BY <1>1, <1>2 DEF NewAt
  <1>3. CASE new # {}
    <2>1. auth # Nobody
      BY <1>3
    <2>2. auth \in Account /\ queue \in Queues
      BY <2>1 DEF AccountTypes
    <2>3. Len(queue[auth]) \in Nat /\ DOMAIN queue[auth] = 1..Len(queue[auth])
      BY <2>2, QueueElements
    <2>4. \A k : k \in new <=> NewAt(auth, k, u)
      BY <2>1 DEF NewAt
    <2>5. new \in SUBSET (1..Len(queue[auth]))
      BY <2>1, <2>3
    <2> HIDE DEF new
    <2>6. Max(new) \in new /\ \A k \in new : Max(new) >= k
      BY <1>3, <2>3, <2>5, LastOf
    <2>7. Max(new) \in Int /\ \A k \in new : k \in Int
      BY <2>3, <2>5, <2>6
    <2>8. \A k \in new : k <= Max(new)
      BY <2>6, <2>7
    <2> QED
      BY <1>1, <1>3, <2>1, <2>2, <2>4, <2>6, <2>8
  <1> QED
    BY <1>2, <1>3

\* A document is seen on this device if the server has it or its own queue does.
LEMMA SeenType ==
    ASSUME AccountTypes, NEW u \in Account
    PROVE  /\ Seen(u) \in Document \cup {NoDocument}
           /\ Seen(u) # NoDocument =>
                 docs[u] # NoDocument \/ (auth \in Account /\ \E k : NewAt(auth, k, u))
           /\ docs[u] # NoDocument => Seen(u) # NoDocument
           /\ auth \in Account /\ (\E k : NewAt(auth, k, u)) => Seen(u) # NoDocument
  <1>1. docs \in Docs /\ queue \in Queues
    BY DEF AccountTypes
  <1>2. docs[u] \in Document \cup {NoDocument}
    BY <1>1 DEF Docs
  <1>3. \A k : auth \in Account /\ NewAt(auth, k, u) => queue[auth][k] \in PendingWrite
    BY <1>1, QueueElements DEF NewAt
  <1>4. CASE Seen(u) = docs[u] /\ (auth # Nobody => \A k : ~NewAt(auth, k, u))
    <2>1. Nobody \notin Account
      BY SignUpAssumption DEF Account, Nobody
    <2> QED
      BY <1>2, <1>4, <2>1
  <1>5. CASE auth \in Account /\ \E k : NewAt(auth, k, u) /\ Seen(u) = Written(queue[auth][k])
    BY <1>3, <1>5, WrittenType
  <1> QED
    BY <1>4, <1>5, SeenIs

\* A login taken moves one chain and changes who is signed in.
LEMMA TakeLoginDoes ==
    ASSUME AccountTypes, NEW t \in DOMAIN work, TakeLogin(t)
    PROVE  /\ AccountTypes' /\ AllButOne(work, work', t)
           /\ work[t].stage = "created" /\ work'[t].stage = "uploading"
           /\ work'[t].uid = work[t].uid /\ SameTap(work[t], work'[t])
           /\ work[t].uid \in Account /\ auth' = work[t].uid /\ session' = t
           /\ UNCHANGED <<login, docs, queue, changes, model, page, error, taps,
                          overlapped, abandoned, apart, faults>>
  <1>1. /\ work' = Moved(work, t, "uploading") /\ work[t].stage = "created"
        /\ auth' = work[t].uid /\ session' = t
    BY DEF TakeLogin, Moved
  <1>2. UNCHANGED <<login, docs, queue, changes, model, page, error, taps,
                    overlapped, abandoned, apart, faults>>
    BY DEF TakeLogin, cloud, client, screen, history
  <1>3. "uploading" \in Stage \ Early /\ work[t].stage \notin Early /\ work[t].stage # "looking"
    BY <1>1 DEF Stage, Early
  <1>4. WorkTypes(work) /\ work[t].uid \in Account /\ t \in 0..MaxTaps
    BY <1>3, WorkOf DEF AccountTypes
  <1>5. /\ WorkTypes(work') /\ AllButOne(work, work', t) /\ work'[t].stage = "uploading"
        /\ work'[t].uid = work[t].uid /\ SameTap(work[t], work'[t])
    BY <1>1, <1>3, <1>4, WorkMoved
  <1>6. DOMAIN work' = DOMAIN work /\ auth' \in Account /\ session' \in 0..MaxTaps
    BY <1>1, <1>4, <1>5 DEF AllButOne
  <1>7. AccountTypes'
    BY <1>2, <1>5, <1>6 DEF AccountTypes
  <1> QED
    BY <1>1, <1>2, <1>4, <1>5, <1>7

NewWrite(t, image) ==
    [kind |-> "new", uid |-> work[t].uid, email |-> work[t].address, image |-> image, tap |-> t]

\* Upload with nobody signed in: the registration is given up.
LEMMA UploadStops ==
    ASSUME AccountTypes, NEW t \in DOMAIN work, Upload(t), auth = Nobody
    PROVE  /\ AccountTypes'
           /\ Dropped(work, work', t)
           /\ work[t].stage = "uploading" /\ abandoned' = abandoned \cup {work[t].uid}
           /\ faults' \in {faults, faults + 1} /\ faults \in Nat
           /\ UNCHANGED <<login, docs, queue, changes, auth, session, model, page, error, taps,
                          overlapped, apart>>
  <1>1. /\ UNCHANGED <<login, docs, changes, auth, session, model, page, error, taps,
                       overlapped, apart>>
        /\ work[t].stage = "uploading"
    BY DEF Upload, AddUser, cloud, identity, screen
  <1>2. /\ work' = Without(work, t) /\ queue' = queue /\ abandoned' = abandoned \cup {work[t].uid}
    BY DEF Upload, AddUser
  <1>3. faults \in 0..MaxFaults /\ (faults' = faults \/ (faults < MaxFaults /\ faults' = faults + 1))
    BY DEF Upload, Fault, AccountTypes
  <1>4. faults' \in 0..MaxFaults
    BY <1>3, SignUpAssumption
  <1>5. WorkTypes(work) /\ work[t].stage \notin Early
    BY <1>1 DEF AccountTypes, Early
  <1>6. WorkTypes(work') /\ DOMAIN work' = DOMAIN work \ {t} /\ Dropped(work, work', t)
    BY <1>2, <1>5, WorkRemoved DEF Dropped
  <1>7. abandoned' \subseteq Account
    BY <1>2, <1>5, WorkOf DEF AccountTypes
  <1>8. AccountTypes'
    BY <1>1, <1>2, <1>4, <1>6, <1>7 DEF AccountTypes
  <1> QED
    BY <1>1, <1>2, <1>3, <1>6, <1>8, SignUpAssumption

\* ... and with somebody signed in: the new document is queued.
LEMMA UploadQueues ==
    ASSUME AccountTypes, NEW t \in DOMAIN work, Upload(t), auth # Nobody
    PROVE  /\ AccountTypes' /\ AllButOne(work, work', t) /\ auth \in Account
           /\ work[t].stage = "uploading" /\ work'[t].stage = "writing"
           /\ work'[t].uid = work[t].uid /\ SameTap(work[t], work'[t]) /\ work[t].uid \in Account
           /\ \E image \in BOOLEAN :
                 /\ NewWrite(t, image) \in PendingWrite
                 /\ queue' = Queued(queue, auth, NewWrite(t, image))
                 /\ ~image => faults' = faults + 1
           /\ faults' \in {faults, faults + 1} /\ faults \in Nat
           /\ UNCHANGED <<login, docs, changes, auth, session, model, page, error, taps,
                          overlapped, abandoned, apart>>
  <1>1. /\ UNCHANGED <<login, docs, changes, auth, session, model, page, error, taps,
                       overlapped, apart>>
        /\ work[t].stage = "uploading" /\ abandoned' = abandoned
    BY DEF Upload, AddUser, cloud, identity, screen
  <1>2. work' = Moved(work, t, "writing")
    BY DEF Upload, AddUser, Moved
  <1>3. PICK image \in BOOLEAN :
           /\ queue' = Queued(queue, auth, NewWrite(t, image))
           /\ ~image => faults' = faults + 1
    BY DEF Upload, AddUser, Fault, NewWrite, Queued
  <1>4. faults \in 0..MaxFaults /\ (faults' = faults \/ (faults < MaxFaults /\ faults' = faults + 1))
    BY DEF Upload, Fault, AccountTypes
  <1>5. faults' \in 0..MaxFaults
    BY <1>4, SignUpAssumption
  <1>6. /\ "writing" \in Stage \ Early /\ work[t].stage \notin Early /\ work[t].stage # "looking"
        /\ WorkTypes(work)
    BY <1>1 DEF AccountTypes, Early, Stage
  <1>7. /\ WorkTypes(work') /\ AllButOne(work, work', t) /\ work'[t].stage = "writing"
        /\ work'[t].uid = work[t].uid /\ SameTap(work[t], work'[t])
    BY <1>2, <1>6, WorkMoved
  <1>8. auth \in Account /\ queue \in Queues
    BY DEF AccountTypes
  <1>9. work[t].uid \in Account /\ work[t].address \in Address /\ t \in 0..MaxTaps
    BY <1>6, WorkOf
  <1>10. NewWrite(t, image) \in PendingWrite
    BY <1>9 DEF NewWrite, PendingWrite
  <1>11. queue' \in Queues
    BY <1>3, <1>8, <1>10, QueueAppended
  <1>12. DOMAIN work' = DOMAIN work
    BY <1>7 DEF AllButOne
  <1>13. AccountTypes'
    BY <1>1, <1>5, <1>7, <1>11, <1>12 DEF AccountTypes
  <1> QED
    BY <1>1, <1>3, <1>4, <1>7, <1>8, <1>9, <1>10, <1>13, SignUpAssumption

-----------------------------------------------------------------------------
\* The callback of a write that is answered.
\* v is w with the work that waited for the write p told so.
ToldOf(w, v, p) ==
    /\ AllButOne(w, v, p.tap)
    /\ p.tap # 0 <=> p.tap \in DOMAIN w
    /\ p.tap \in DOMAIN w =>
          /\ w[p.tap].stage = "writing" /\ v[p.tap].stage = "written"
          /\ w[p.tap].uid = p.uid /\ v[p.tap].uid = p.uid
          /\ SameTap(w[p.tap], v[p.tap])

\* The callback of the first write moves the chain that waits for it.
LEMMA WorkTold ==
    ASSUME AccountTypes, Waiting, auth \in Account, queue[auth] # <<>>,
           work' = Told(Head(queue[auth]).tap)
    PROVE  LET w == Head(queue[auth]) IN
           /\ w \in PendingWrite /\ w = queue[auth][1] /\ 1 \in DOMAIN queue[auth]
           /\ WorkTypes(work') /\ ToldOf(work, work', w) /\ DOMAIN work' = DOMAIN work
  <1> DEFINE w == Head(queue[auth])
             tap == w.tap
  <1>1. queue \in Queues /\ WorkTypes(work) /\ DOMAIN work \subseteq 1..taps /\ taps \in Nat
    BY SignUpAssumption DEF AccountTypes
  <1>2. w \in PendingWrite /\ w = queue[auth][1] /\ 1 \in DOMAIN queue[auth]
    BY <1>1, QueueSent
  <1>3. tap # 0 => /\ tap \in DOMAIN work /\ work[tap].stage = "writing"
                   /\ work[tap].uid = w.uid
    BY <1>2 DEF Waiting
  <1>4. 0 \notin DOMAIN work
    BY <1>1
  <1>5. work' = Told(tap)
    OBVIOUS
  <1> HIDE DEF tap
  <1>6. CASE tap = 0
    <2>1. work' = work
      BY <1>4, <1>5, <1>6 DEF Told
    <2> QED
      BY <1>1, <1>2, <1>4, <1>6, <2>1 DEF AllButOne, ToldOf, tap
  <1>7. CASE tap # 0
    <2>1. work' = Moved(work, tap, "written") /\ tap \in DOMAIN work
      BY <1>3, <1>5, <1>7 DEF Told, Moved
    <2>2. "written" \in Stage \ Early /\ work[tap].stage \notin Early /\ work[tap].stage # "looking"
      BY <1>3, <1>7 DEF Stage, Early
    <2>3. /\ WorkTypes(work') /\ AllButOne(work, work', tap) /\ work'[tap].stage = "written"
          /\ work'[tap].uid = work[tap].uid /\ SameTap(work[tap], work'[tap])
      BY <1>1, <2>1, <2>2, WorkMoved
    <2> QED
      BY <1>2, <1>3, <1>7, <2>1, <2>3 DEF tap, ToldOf, AllButOne
  <1> QED
    BY <1>6, <1>7

\* The write w reaches the server.
Applied(w) ==
    /\ \A u \in Account : u # w.uid => docs'[u] = docs[u]
    /\ w.kind = "new" => docs'[w.uid] = Written(w)
    /\ w.kind = "email" =>
          /\ docs[w.uid] = NoDocument => docs'[w.uid] = NoDocument
          /\ docs[w.uid] # NoDocument =>
                /\ docs'[w.uid] # NoDocument /\ docs'[w.uid].email = w.email
                /\ docs'[w.uid].image = docs[w.uid].image
                /\ docs'[w.uid].running = docs[w.uid].running

\* A write sent is the first of the queue.
LEMMA SendWriteDoes ==
    ASSUME AccountTypes, Waiting, SendWrite
    PROVE  LET w == Head(queue[auth]) IN
           /\ AccountTypes' /\ auth \in Account /\ queue[auth] # <<>>
           /\ w \in PendingWrite /\ w = queue[auth][1] /\ 1 \in DOMAIN queue[auth]
           /\ queue' = Sent(queue, auth)
           /\ ToldOf(work, work', w)
           /\ Applied(w)
           /\ UNCHANGED <<login, changes, auth, session, model, page, error, taps,
                          overlapped, abandoned, apart, faults>>
  <1> DEFINE w == Head(queue[auth])
  <1>1. /\ auth # Nobody /\ queue[auth] # <<>>
        /\ docs' = [docs EXCEPT ![w.uid] =
                     IF w.kind = "new" THEN Written(w)
                     ELSE IF docs[w.uid] = NoDocument THEN docs[w.uid] ELSE [docs[w.uid] EXCEPT !.email = w.email]]
        /\ work' = Told(w.tap)
        /\ queue' = Sent(queue, auth)
    BY DEF SendWrite, Written, Sent
  <1>2. UNCHANGED <<login, changes, auth, session, model, page, error, taps,
                    overlapped, abandoned, apart, faults>>
    BY DEF SendWrite, identity, screen, history
  <1>3. auth \in Account /\ queue \in Queues /\ docs \in Docs
    BY <1>1 DEF AccountTypes
  <1>4. /\ WorkTypes(work') /\ DOMAIN work' = DOMAIN work
        /\ w \in PendingWrite /\ w = queue[auth][1] /\ 1 \in DOMAIN queue[auth]
        /\ ToldOf(work, work', w)
    BY <1>1, <1>3, WorkTold
  <1>5. queue' \in Queues
    BY <1>1, <1>3, QueueSent
  <1> HIDE DEF w
  <1>6. w.uid \in Account /\ w.email \in Address /\ w.kind \in {"new", "email"}
    BY <1>4 DEF PendingWrite
  <1>7. /\ \A u \in Account : u # w.uid => docs'[u] = docs[u]
        /\ w.kind = "new" => docs'[w.uid] = Written(w)
        /\ w.kind = "email" /\ docs[w.uid] = NoDocument => docs'[w.uid] = NoDocument
        /\ w.kind = "email" /\ docs[w.uid] # NoDocument =>
               docs'[w.uid] = [docs[w.uid] EXCEPT !.email = w.email]
    BY <1>1, <1>3, <1>6 DEF Docs
  <1>8. ASSUME w.kind = "email", docs[w.uid] # NoDocument
        PROVE  /\ docs'[w.uid] \in Document
               /\ docs'[w.uid] # NoDocument /\ docs'[w.uid].email = w.email
               /\ docs'[w.uid].image = docs[w.uid].image
               /\ docs'[w.uid].running = docs[w.uid].running
    <2>1. docs[w.uid] \in Document
      BY <1>3, <1>6, <1>8 DEF Docs
    <2> DEFINE d == [docs[w.uid] EXCEPT !.email = w.email]
    <2>2. d \in Document /\ d.email = w.email /\ d.image = docs[w.uid].image
          /\ d.running = docs[w.uid].running
      BY <1>6, <2>1 DEF Document
    <2>3. d # NoDocument
      BY <1>6, <2>2, SignUpAssumption DEF NoDocument
    <2> QED
      BY <1>7, <1>8, <2>2, <2>3
  <1>9. docs' \in Docs
    <2>1. docs' = [u \in Account |-> docs'[u]]
      BY <1>1, <1>3 DEF Docs
    <2>2. \A u \in Account : docs'[u] \in Document \cup {NoDocument}
      BY <1>3, <1>4, <1>6, <1>7, <1>8, WrittenType DEF Docs
    <2> QED
      BY <2>1, <2>2 DEF Docs
  <1>10. AccountTypes'
    BY <1>2, <1>4, <1>5, <1>9 DEF AccountTypes
  <1>11. Applied(w)
    BY <1>7, <1>8 DEF Applied
  <1> QED
    BY <1>1, <1>2, <1>3, <1>4, <1>10, <1>11 DEF w

\* A write refused is the first of the queue and of another account.
LEMMA RefuseWriteDoes ==
    ASSUME AccountTypes, Waiting, RefuseWrite
    PROVE  LET w == Head(queue[auth]) IN
           /\ AccountTypes' /\ auth \in Account /\ queue[auth] # <<>>
           /\ w \in PendingWrite /\ w = queue[auth][1] /\ 1 \in DOMAIN queue[auth]
           /\ w.uid # auth
           /\ queue' = Sent(queue, auth)
           /\ ToldOf(work, work', w)
           /\ abandoned' = abandoned \cup {w.uid}
           /\ UNCHANGED <<login, docs, changes, auth, session, model, page, error, taps,
                          overlapped, apart, faults>>
  <1> DEFINE w == Head(queue[auth])
  <1>1. /\ auth # Nobody /\ queue[auth] # <<>> /\ w.uid # auth
        /\ work' = Told(w.tap) /\ abandoned' = abandoned \cup {w.uid}
        /\ queue' = Sent(queue, auth)
    BY DEF RefuseWrite, Sent
  <1>2. UNCHANGED <<login, docs, changes, auth, session, model, page, error, taps,
                    overlapped, apart, faults>>
    BY DEF RefuseWrite, cloud, identity, screen, history
  <1>3. auth \in Account /\ queue \in Queues
    BY <1>1 DEF AccountTypes
  <1>4. /\ WorkTypes(work') /\ DOMAIN work' = DOMAIN work
        /\ w \in PendingWrite /\ w = queue[auth][1] /\ 1 \in DOMAIN queue[auth]
        /\ ToldOf(work, work', w)
    BY <1>1, <1>3, WorkTold
  <1>5. queue' \in Queues
    BY <1>1, <1>3, QueueSent
  <1> HIDE DEF w
  <1>6. abandoned' \subseteq Account
    BY <1>1, <1>4 DEF PendingWrite, AccountTypes
  <1>10. AccountTypes'
    BY <1>2, <1>4, <1>5, <1>6 DEF AccountTypes
  <1> QED
    BY <1>1, <1>2, <1>3, <1>4, <1>10 DEF w

\* A new model.
LEMMA NewModelType == ASSUME NEW u \in Account PROVE NewModel(u) \in ModelOf
  BY EmptySeq DEF NewModel, ModelOf

\* A chain gets its model: u is signed in.
LEMMA FetchBegins ==
    ASSUME AccountTypes, NEW t \in DOMAIN work, FinishRegistration(t) \/ AcceptSignIn(t)
    PROVE  /\ AccountTypes' /\ auth' \in Account
           /\ model' = NewModel(auth')
           /\ work' = Fetching(work, t, auth') /\ work[t].stage \in {"written", "signing"}
           /\ work[t].stage = "written" => auth' = auth /\ session' = session
           /\ work[t].stage = "signing" => auth' \in Holder(work[t].address) /\ session' = t
           /\ FetchBegun(work, work', t, auth')
           /\ UNCHANGED <<login, docs, queue, changes, page, error, taps,
                          overlapped, abandoned, apart, faults>>
  <1>1. UNCHANGED <<login, docs, queue, changes, page, error, taps,
                    overlapped, abandoned, apart, faults>>
    BY DEF FinishRegistration, AcceptSignIn, cloud, client, screen, history
  <1>4. /\ auth' \in Account /\ model' = NewModel(auth')
        /\ work' = Fetching(work, t, auth') /\ work[t].stage \in {"written", "signing"}
        /\ work[t].stage = "written" => auth' = auth /\ session' = session
        /\ work[t].stage = "signing" => auth' \in Holder(work[t].address) /\ session' = t
    <2>1. CASE FinishRegistration(t)
      <3>1. /\ auth # Nobody /\ auth' = auth /\ session' = session
            /\ model' = NewModel(auth) /\ work' = Fetching(work, t, auth)
            /\ work[t].stage = "written"
        BY <2>1 DEF FinishRegistration, identity
      <3>2. auth \in Account
        BY <3>1 DEF AccountTypes
      <3> QED
        BY <3>1, <3>2
    <2>2. CASE AcceptSignIn(t)
      <3>1. PICK u \in Holder(work[t].address) :
               auth' = u /\ model' = NewModel(u) /\ work' = Fetching(work, t, u)
        BY <2>2 DEF AcceptSignIn
      <3>2. session' = t /\ work[t].stage = "signing"
        BY <2>2 DEF AcceptSignIn
      <3>3. u \in Account
        BY DEF Holder, Registered
      <3> QED
        BY <3>1, <3>2, <3>3
    <2> QED
      BY <2>1, <2>2
  <1>5. WorkTypes(work) /\ work[t].stage # "looking"
    BY <1>4 DEF AccountTypes
  <1>6. WorkTypes(work') /\ FetchBegun(work, work', t, auth')
    BY <1>4, <1>5, WorkFetching
  <1>7. session' \in 0..MaxTaps
    BY <1>4, WorkOf, SignUpAssumption DEF AccountTypes
  <1>8. model' \in ModelOf
    BY <1>4, NewModelType
  <1>9. AccountTypes'
    <2>1. WorkTypes(work') /\ DOMAIN work' = DOMAIN work /\ auth' \in Account
      BY <1>4, <1>6 DEF FetchBegun
    <2> QED
      BY <1>1, <1>7, <1>8, <2>1 DEF AccountTypes
  <1> QED
    BY <1>1, <1>4, <1>6, <1>9

\* A document that arrives starts the look-ups of its challenges.
LEMMA AnswerFetchDoes ==
    ASSUME AccountTypes, NEW t \in DOMAIN work, AnswerFetch(t)
    PROVE  LET d == Seen(work[t].uid) IN
           /\ AccountTypes' /\ AllButOne(work, work', t)
           /\ work[t].stage = "fetching" /\ work'[t].stage = "looking"
           /\ work[t].uid \in Account /\ work'[t].uid = work[t].uid /\ SameTap(work[t], work'[t])
           /\ d # NoDocument /\ d \in Document
           /\ work'[t].image = d.image /\ work'[t].left = d.running /\ work'[t].list = <<>>
           /\ UNCHANGED <<login, docs, queue, changes, auth, session, model, page, error, taps,
                          overlapped, abandoned, apart, faults>>
  <1> DEFINE d == Seen(work[t].uid)
  <1>1. /\ work' = Answered(work, t, d.image, d.running)
        /\ work[t].stage = "fetching" /\ d # NoDocument
    BY DEF AnswerFetch, Answered
  <1>2. UNCHANGED <<login, docs, queue, changes, auth, session, model, page, error, taps,
                    overlapped, abandoned, apart, faults>>
    BY DEF AnswerFetch, cloud, client, identity, screen, history
  <1>3. WorkTypes(work) /\ work[t].uid \in Account
    BY <1>1, WorkOf DEF AccountTypes, Early
  <1>4. d \in Document
    BY <1>1, <1>3, SeenType
  <1> HIDE DEF d
  <1>5. d.image \in BOOLEAN /\ d.running \in SUBSET Challenge
    BY <1>4 DEF Document
  <1>6. /\ WorkTypes(work') /\ AllButOne(work, work', t) /\ work'[t].stage = "looking"
        /\ work'[t].uid = work[t].uid /\ SameTap(work[t], work'[t])
        /\ work'[t].image = d.image /\ work'[t].left = d.running /\ work'[t].list = <<>>
    BY <1>1, <1>3, <1>5, WorkAnswered
  <1>7. DOMAIN work' = DOMAIN work
    BY <1>6 DEF AllButOne
  <1>8. AccountTypes'
    BY <1>2, <1>6, <1>7 DEF AccountTypes
  <1> QED
    BY <1>1, <1>2, <1>3, <1>4, <1>6, <1>8 DEF d

\* A look-up answered moves one challenge to the list.
LEMMA LookUpDoes ==
    ASSUME AccountTypes, NEW t \in DOMAIN work, NEW c, LookUp(t, c)
    PROVE  /\ AccountTypes' /\ AllButOne(work, work', t) /\ c \in work[t].left
           /\ work[t].stage = "looking" /\ work'[t].stage = "looking"
           /\ work'[t].uid = work[t].uid /\ SameTap(work[t], work'[t])
           /\ work'[t].image = work[t].image /\ work'[t].left = work[t].left \ {c}
           /\ Range(work'[t].list) = Range(work[t].list) \cup {c}
           /\ UNCHANGED <<login, docs, queue, changes, auth, session, model, page, error, taps,
                          overlapped, abandoned, apart, faults>>
  <1>1. work' = LookedUp(work, t, c) /\ c \in work[t].left
    BY DEF LookUp, LookedUp
  <1>2. UNCHANGED <<login, docs, queue, changes, auth, session, model, page, error, taps,
                    overlapped, abandoned, apart, faults>>
    BY DEF LookUp, cloud, client, identity, screen, history
  <1>3. WorkTypes(work)
    BY DEF AccountTypes
  <1>4. /\ WorkTypes(work') /\ AllButOne(work, work', t) /\ work[t].stage = "looking"
        /\ work'[t].stage = "looking"
        /\ work'[t].uid = work[t].uid /\ SameTap(work[t], work'[t])
        /\ work'[t].image = work[t].image /\ work'[t].left = work[t].left \ {c}
        /\ Range(work'[t].list) = Range(work[t].list) \cup {c}
    BY <1>1, <1>3, WorkLookedUp
  <1>5. DOMAIN work' = DOMAIN work
    BY <1>4 DEF AllButOne
  <1>6. AccountTypes'
    BY <1>2, <1>4, <1>5 DEF AccountTypes
  <1> QED
    BY <1>1, <1>2, <1>4, <1>6

\* v is w without the work t; if t showed the home page, nothing else shows.
Finished(w, v, t) ==
    /\ DOMAIN v = DOMAIN w \ {t}
    /\ \A i \in DOMAIN w \ {t} :
          /\ SameChain(w[i], v[i]) /\ v[i].current = w[i].current
          /\ v[i].shown => w[i].shown
          /\ w[t].shown => ~v[i].shown

\* The last look-up stores the user and shows the home page.
LEMMA FinishFetchDoes ==
    ASSUME AccountTypes, NEW t \in DOMAIN work, FinishFetch(t)
    PROVE  /\ AccountTypes' /\ Finished(work, work', t)
           /\ work[t].stage = "looking" /\ work[t].left = {} /\ work[t].image
           /\ model' = IF work[t].current
                       THEN [model EXCEPT !.loaded = TRUE, !.list = work[t].list] ELSE model
           /\ page' = IF work[t].shown THEN "home" ELSE page
           /\ UNCHANGED <<login, docs, queue, changes, auth, session, taps,
                          overlapped, abandoned, apart, faults>>
  <1>1. /\ work[t].stage = "looking" /\ work[t].left = {} /\ work[t].image
        /\ model' = IF work[t].current
                    THEN [model EXCEPT !.loaded = TRUE, !.list = work[t].list] ELSE model
        /\ page' = IF work[t].shown THEN "home" ELSE page
        /\ work' = IF work[t].shown THEN Hidden(Without(work, t)) ELSE Without(work, t)
        /\ error' = (error /\ ~work[t].shown)
    BY DEF FinishFetch
  <1>2. UNCHANGED <<login, docs, queue, changes, auth, session, taps,
                    overlapped, abandoned, apart, faults>>
    BY DEF FinishFetch, cloud, client, identity, history
  <1>3. WorkTypes(work) /\ model \in ModelOf /\ work[t].list \in Seq(Challenge)
    BY WorkOf DEF AccountTypes
  <1>4. /\ WorkTypes(Without(work, t)) /\ DOMAIN Without(work, t) = DOMAIN work \ {t}
        /\ \A i \in DOMAIN work \ {t} : Without(work, t)[i] = work[i]
    BY <1>3, WorkRemoved
  <1>5. /\ WorkTypes(work') /\ DOMAIN work' = DOMAIN work \ {t}
        /\ \A i \in DOMAIN work \ {t} :
              /\ SameChain(work[i], work'[i]) /\ work'[i].current = work[i].current
              /\ work'[i].shown => work[i].shown
              /\ work[t].shown => ~work'[i].shown
    <2>1. CASE work[t].shown
      <3>1. /\ WorkTypes(work') /\ DOMAIN work' = DOMAIN work \ {t}
            /\ \A i \in DOMAIN work \ {t} :
                  /\ SameChain(Without(work, t)[i], work'[i])
                  /\ work'[i].shown = FALSE /\ work'[i].current = Without(work, t)[i].current
        BY <1>1, <1>4, <2>1, WorkHidden
      <3> QED
        BY <1>4, <2>1, <3>1
    <2>2. CASE ~work[t].shown
      BY <1>1, <1>4, <2>2 DEF SameChain
    <2> QED
      BY <2>1, <2>2
  <1>6. model' \in ModelOf
    BY <1>1, <1>3 DEF ModelOf
  <1>7. error' \in BOOLEAN /\ page' \in {"intro", "login", "details", "home"}
    BY <1>1 DEF AccountTypes
  <1>8. AccountTypes'
    <2>1. WorkTypes(work') /\ DOMAIN work' \subseteq DOMAIN work
      BY <1>5
    <2> QED
      BY <1>2, <1>6, <1>7, <2>1 DEF AccountTypes
  <1> QED
    BY <1>1, <1>2, <1>5, <1>8 DEF Finished

\* Where the change that is j-th after the k-th was answered stood before.
Skip(j, k) == IF j < k THEN j ELSE j + 1

\* s is l without its k-th entry.
Without1(l, s, k) ==
    /\ \A j \in DOMAIN s : Skip(j, k) \in DOMAIN l \ {k} /\ s[j] = l[Skip(j, k)]
    /\ \A i \in DOMAIN l \ {k} : \E j \in DOMAIN s : i = Skip(j, k)

\* A list without one entry holds the others, in their order.
LEMMA EntryRemoved ==
    ASSUME NEW S, NEW l \in Seq(S), NEW k \in DOMAIN l
    PROVE  RemoveAt(l, k) \in Seq(S) /\ Without1(l, RemoveAt(l, k), k)
           /\ DOMAIN RemoveAt(l, k) \subseteq Nat
  <1> DEFINE n == Len(l)
             a == SubSeq(l, 1, k - 1)
             b == SubSeq(l, k + 1, n)
             s == RemoveAt(l, k)
  <1>1. n \in Nat /\ DOMAIN l = 1..n /\ k \in 1..n /\ \A i \in 1..n : l[i] \in S
    OBVIOUS
  <1>2. /\ a \in Seq(S) /\ Len(a) = k - 1
        /\ \A i \in 1..(k - 1) : a[i] = l[i]
    <2>1. \A i \in 1..(k - 1) : l[i] \in S
      BY <1>1
    <2>2. Len(a) = IF 1 <= k - 1 THEN (k - 1) - 1 + 1 ELSE 0
      BY <1>1, <2>1, SubSeqProperties
    <2>3. a \in Seq(S) /\ \A i \in 1..((k - 1) - 1 + 1) : a[i] = l[1 + i - 1]
      BY <1>1, <2>1, SubSeqProperties
    <2> QED
      BY <1>1, <2>2, <2>3
  <1>3. /\ b \in Seq(S) /\ Len(b) = n - k
        /\ \A i \in 1..(n - k) : b[i] = l[k + i]
    <2>1. \A i \in (k + 1)..n : l[i] \in S
      BY <1>1
    <2>2. Len(b) = IF k + 1 <= n THEN n - (k + 1) + 1 ELSE 0
      BY <1>1, <2>1, SubSeqProperties
    <2>3. b \in Seq(S) /\ \A i \in 1..(n - (k + 1) + 1) : b[i] = l[(k + 1) + i - 1]
      BY <1>1, <2>1, SubSeqProperties
    <2>4. \A i \in 1..(n - k) : b[i] = l[k + i]
      <3> TAKE i \in 1..(n - k)
      <3>1. i \in 1..(n - (k + 1) + 1) /\ (k + 1) + i - 1 = k + i
        BY <1>1
      <3> QED
        BY <2>3, <3>1
    <2> QED
      BY <1>1, <2>2, <2>3, <2>4
  <1>4. s = a \o b
    BY DEF RemoveAt
  <1> HIDE DEF a, b, s
  <1>5. /\ s \in Seq(S) /\ Len(s) = Len(a) + Len(b)
        /\ \A i \in 1..(Len(a) + Len(b)) : s[i] = IF i <= Len(a) THEN a[i] ELSE b[i - Len(a)]
    BY <1>2, <1>3, <1>4, ConcatProperties
  <1>6. DOMAIN s = 1..(n - 1)
    BY <1>1, <1>2, <1>3, <1>5
  <1>7. ASSUME NEW j \in 1..(n - 1)
        PROVE  Skip(j, k) \in (1..n) \ {k} /\ s[j] = l[Skip(j, k)]
    <2>1. s[j] = IF j <= k - 1 THEN a[j] ELSE b[j - (k - 1)]
      <3>1. Len(a) = k - 1 /\ Len(a) + Len(b) = n - 1
        BY <1>1, <1>2, <1>3
      <3> QED
        BY <1>5, <3>1
    <2>2. CASE j < k
      <3>1. j \in 1..(k - 1) /\ j \in (1..n) \ {k}
        BY <1>1, <2>2
      <3> QED
        BY <1>2, <2>1, <2>2, <3>1 DEF Skip
    <2>3. CASE ~(j < k)
      <3>1. /\ j - (k - 1) \in 1..(n - k) /\ k + (j - (k - 1)) = j + 1
            /\ ~(j <= k - 1) /\ j + 1 \in (1..n) \ {k}
        BY <1>1, <2>3
      <3>2. b[j - (k - 1)] = l[j + 1]
        BY <1>3, <3>1
      <3> QED
        BY <2>1, <2>3, <3>1, <3>2 DEF Skip
    <2> QED
      BY <2>2, <2>3
  <1>8. ASSUME NEW i \in (1..n) \ {k}
        PROVE  \E j \in 1..(n - 1) : i = Skip(j, k)
    <2>1. CASE i < k
      <3>1. i \in 1..(n - 1) /\ i = Skip(i, k)
        BY <1>1, <2>1 DEF Skip
      <3> QED
        BY <3>1
    <2>2. CASE ~(i < k)
      <3>1. i - 1 \in 1..(n - 1) /\ ~(i - 1 < k) /\ (i - 1) + 1 = i
        BY <1>1, <2>2
      <3>2. i = Skip(i - 1, k)
        BY <3>1 DEF Skip
      <3> QED
        BY <3>1, <3>2
    <2> QED
      BY <2>1, <2>2
  <1>9. Without1(l, s, k)
    BY <1>1, <1>6, <1>7, <1>8 DEF Without1
  <1>10. DOMAIN s \subseteq Nat
    BY <1>6
  <1> QED
    BY <1>5, <1>9, <1>10 DEF s

-----------------------------------------------------------------------------
EmailWrite(a) ==
    [kind |-> "email", uid |-> auth, email |-> a, image |-> FALSE, tap |-> 0]

ChangeTo(a) == [uid |-> auth, email |-> a, session |-> session]

\* A change of the address queues a write and asks Firebase Auth.
LEMMA ChangeEmailDoes ==
    ASSUME AccountTypes, NEW a \in Address, ChangeEmail(a)
    PROVE  /\ AccountTypes' /\ page = "home" /\ auth \in Account
           /\ EmailWrite(a) \in PendingWrite /\ queue' = Queued(queue, auth, EmailWrite(a))
           /\ ChangeTo(a) \in ChangeOf /\ changes' = Append(changes, ChangeTo(a))
           /\ overlapped' = (overlapped \/ DOMAIN work # {})
           /\ apart' = IF \/ Seen(auth) = NoDocument
                          \/ \E k \in DOMAIN changes :
                                changes[k].uid = auth /\ changes[k].session # session
                       THEN apart \cup {auth} ELSE apart
           /\ taps \in Nat /\ taps' = taps + 1
           /\ UNCHANGED <<login, docs, auth, session, model, page, error, work,
                          abandoned, faults>>
  <1>1. /\ page = "home" /\ auth # Nobody
        /\ queue' = Queued(queue, auth, EmailWrite(a))
        /\ changes' = Append(changes, ChangeTo(a))
        /\ overlapped' = (overlapped \/ DOMAIN work # {})
        /\ apart' = IF \/ Seen(auth) = NoDocument
                       \/ \E k \in DOMAIN changes :
                             changes[k].uid = auth /\ changes[k].session # session
                    THEN apart \cup {auth} ELSE apart
    BY DEF ChangeEmail, Queued, EmailWrite, ChangeTo
  <1>2. UNCHANGED <<login, docs, auth, session, model, page, error, work, abandoned, faults>>
    BY DEF ChangeEmail, cloud, identity, screen
  <1>3. taps \in Nat /\ taps' = taps + 1 /\ taps' \in 0..MaxTaps /\ DOMAIN work \subseteq 1..taps'
    BY SignUpAssumption DEF ChangeEmail, AccountTypes
  <1>4. auth \in Account /\ queue \in Queues /\ changes \in Changes /\ session \in 0..MaxTaps
        /\ WorkTypes(work)
    BY <1>1 DEF AccountTypes
  <1>5. EmailWrite(a) \in PendingWrite
    BY <1>4, SignUpAssumption DEF EmailWrite, PendingWrite
  <1>6. ChangeTo(a) \in ChangeOf
    BY <1>4 DEF ChangeTo, ChangeOf
  <1>7. queue' \in Queues
    BY <1>1, <1>4, <1>5, QueueAppended
  <1>8. changes' \in Changes
    BY <1>1, <1>4, <1>6, Appended DEF Changes
  <1>9. overlapped' \in BOOLEAN
    BY <1>1 DEF AccountTypes
  <1>10. apart' \subseteq Account
    BY <1>1, <1>4 DEF AccountTypes
  <1>11. WorkTypes(work') /\ DOMAIN work' \subseteq 1..taps' /\ taps' \in 0..MaxTaps
    BY <1>2, <1>3, <1>4
  <1>12. AccountTypes'
    BY <1>2, <1>7, <1>8, <1>9, <1>10, <1>11 DEF AccountTypes
  <1> QED
    BY <1>1, <1>2, <1>3, <1>4, <1>5, <1>6, <1>12

\* A change of the address is made or refused, the first of its session.
LEMMA AnswerChangeDoes ==
    ASSUME AccountTypes, NEW k \in DOMAIN changes, AnswerChange(k)
    PROVE  LET c == changes[k] IN
           /\ AccountTypes' /\ c \in ChangeOf /\ FirstOfSession(k)
           /\ Without1(changes, changes', k) /\ k \in Nat /\ DOMAIN changes' \subseteq Nat
           /\ \/ /\ Holder(c.email) \subseteq {c.uid}
                 /\ login' = [login EXCEPT ![c.uid] = c.email]
                 /\ apart' = apart /\ faults' = faults
              \/ login' = login /\ apart' = apart \cup {c.uid}
           /\ faults' \in {faults, faults + 1} /\ faults \in Nat
           /\ UNCHANGED <<docs, queue, auth, session, model, page, error, work, taps,
                          overlapped, abandoned>>
  <1> DEFINE c == changes[k]
  <1>1. UNCHANGED <<docs, queue, auth, session, model, page, error, work, taps,
                    overlapped, abandoned>>
    BY DEF AnswerChange, identity, screen
  <1>2. /\ FirstOfSession(k) /\ changes' = RemoveAt(changes, k)
        /\ \/ /\ Holder(c.email) \subseteq {c.uid}
              /\ login' = [login EXCEPT ![c.uid] = c.email]
              /\ apart' = apart /\ faults' = faults
           \/ login' = login /\ apart' = apart \cup {c.uid}
    BY DEF AnswerChange
  <1>3. faults \in 0..MaxFaults /\ (faults' = faults \/ (faults < MaxFaults /\ faults' = faults + 1))
    BY DEF AnswerChange, Fault, AccountTypes
  <1>4. faults' \in 0..MaxFaults
    BY <1>3, SignUpAssumption
  <1>5. changes \in Seq(ChangeOf) /\ login \in Logins /\ WorkTypes(work)
    BY DEF AccountTypes, Changes
  <1>6. c \in ChangeOf /\ k \in Nat
    BY <1>5
  <1>7. changes' \in Changes /\ Without1(changes, changes', k) /\ DOMAIN changes' \subseteq Nat
    BY <1>2, <1>5, EntryRemoved DEF Changes
  <1> HIDE DEF c
  <1>8. c.uid \in Account /\ c.email \in Address
    BY <1>6 DEF ChangeOf
  <1>9. login' \in Logins
    BY <1>2, <1>5, <1>8 DEF Logins
  <1>10. apart' \subseteq Account
    BY <1>2, <1>8 DEF AccountTypes
  <1>11. AccountTypes'
    BY <1>1, <1>4, <1>5, <1>7, <1>9, <1>10 DEF AccountTypes
  <1> QED
    BY <1>1, <1>2, <1>3, <1>6, <1>7, <1>11, SignUpAssumption DEF c

\* The end of the process leaves the server alone and owns up to what is lost.
LEMMA EndDoes ==
    ASSUME AccountTypes, End
    PROVE  /\ AccountTypes'
           /\ CutShort(queue, queue', auth) /\ LossKnown /\ WorkLossKnown
           /\ abandoned \subseteq abandoned' /\ apart \subseteq apart'
           /\ DOMAIN work' = {} /\ changes' = <<>>
           /\ session' = 0 /\ model' = NoModel /\ page' = "intro"
           /\ faults' \in {faults, faults + 1} /\ faults \in Nat
           /\ UNCHANGED <<login, docs, auth, taps, overlapped>>
  <1>1. Die /\ UNCHANGED <<login, docs, auth, taps, overlapped>>
    BY DEF End, cloud
  <1>2. faults \in 0..MaxFaults /\ (faults' = faults \/ (faults < MaxFaults /\ faults' = faults + 1))
    BY DEF End, Fault, AccountTypes
  <1>3. faults' \in 0..MaxFaults
    BY <1>2, SignUpAssumption
  <1>4. /\ queue' \in Queues /\ CutShort(queue, queue', auth) /\ LossKnown /\ WorkLossKnown
        /\ abandoned \subseteq abandoned' /\ abandoned' \subseteq Account
        /\ apart \subseteq apart' /\ apart' \subseteq Account
        /\ WorkTypes(work') /\ DOMAIN work' = {} /\ changes' = <<>>
        /\ session' = 0 /\ model' = NoModel /\ page' = "intro" /\ error' = FALSE
    BY <1>1, Died DEF AccountTypes
  <1>5. session' \in 0..MaxTaps
    BY <1>4, SignUpAssumption
  <1>6. model' \in ModelOf /\ changes' \in Changes
    BY <1>4, EmptySeq DEF NoModel, ModelOf, Changes
  <1>7. error' \in BOOLEAN /\ page' \in {"intro", "login", "details", "home"}
    BY <1>4
  <1>8. queue' \in Queues /\ abandoned' \subseteq Account /\ apart' \subseteq Account
        /\ WorkTypes(work') /\ DOMAIN work' = {}
    BY <1>4
  <1>9. AccountTypes'
    BY <1>1, <1>3, <1>5, <1>6, <1>7, <1>8 DEF AccountTypes
  <1> QED
    BY <1>1, <1>2, <1>4, <1>9, SignUpAssumption

\* Steps of the lists leave the accounts alone.
LEMMA AsideDoes ==
    ASSUME AccountTypes, Aside
    PROVE  /\ AccountTypes'
           /\ faults' \in {faults, faults + 1} /\ faults \in Nat /\ taps' >= taps /\ taps' \in Nat
           /\ UNCHANGED <<login, docs, queue, changes, auth, session, model, page, error,
                          work, overlapped, abandoned, apart>>
  <1>1. UNCHANGED <<login, docs, queue, changes, auth, session, model, page, error,
                    work, overlapped, abandoned, apart>>
    BY DEF Aside
  <1>2. faults \in 0..MaxFaults /\ (faults' = faults \/ (faults < MaxFaults /\ faults' = faults + 1))
    BY DEF Aside, Fault, AccountTypes
  <1>3. faults' \in 0..MaxFaults
    BY <1>2, SignUpAssumption
  <1>4. taps' \in 0..MaxTaps /\ taps' >= taps
    BY DEF Aside
  <1>5. DOMAIN work' \subseteq 1..taps'
    BY <1>1, <1>4, SignUpAssumption DEF AccountTypes
  <1>6. AccountTypes'
    BY <1>1, <1>3, <1>4, <1>5 DEF AccountTypes
  <1> QED
    BY <1>1, <1>2, <1>4, <1>6, SignUpAssumption

-----------------------------------------------------------------------------
(* Every login gets its document.                                          *)

Numbered == \E n \in 1..MaxAccounts : Registered = 1..n

Known ==
    /\ auth # Nobody => auth \in Registered
    /\ \A t \in DOMAIN work : work[t].uid # Nobody => work[t].uid \in Registered
    /\ \A k \in DOMAIN changes : changes[k].uid \in Registered
    /\ \A u \in Account : docs[u] # NoDocument => u \in Registered
    /\ \A u \in Account : \A k \in DOMAIN queue[u] : queue[u][k].uid \in Registered

EmailsOwn ==
    \A u \in Account : \A k \in DOMAIN queue[u] :
       queue[u][k].kind = "email" => queue[u][k].uid = u /\ queue[u][k].tap = 0

Creating(t) == t \in DOMAIN work /\ work[t].stage \in {"created", "uploading"}

OneCreator ==
    /\ \A s, t \in DOMAIN work : Creating(s) /\ Creating(t) /\ work[s].uid = work[t].uid => s = t
    /\ \A u, v, w \in Account : \A k \in DOMAIN queue[v] : \A j \in DOMAIN queue[w] :
          NewAt(v, k, u) /\ NewAt(w, j, u) => v = w /\ k = j
    /\ \A t \in DOMAIN work : Creating(t) =>
          /\ docs[work[t].uid] = NoDocument
          /\ \A v \in Account : \A k \in DOMAIN queue[v] : ~NewAt(v, k, work[t].uid)
    /\ \A u, v \in Account : \A k \in DOMAIN queue[v] : NewAt(v, k, u) => docs[u] = NoDocument

Alive ==
    \A u \in Registered \ abandoned :
       \/ docs[u] # NoDocument
       \/ \E v \in Account : \E k \in DOMAIN queue[v] : NewAt(v, k, u)
       \/ \E t \in DOMAIN work : Creating(t) /\ work[t].uid = u

Counted == Waiting /\ Numbered /\ Known /\ EmailsOwn /\ OneCreator /\ Alive

\* The step creates no account's document and gives none up unsaid.
Quiet ==
    /\ \A t \in DOMAIN work' : work'[t].uid # Nobody => work'[t].uid \in Registered
    /\ \A t \in DOMAIN work' : work'[t].stage \in {"created", "uploading"} =>
          Creating(t) /\ work'[t].uid = work[t].uid
    /\ \A t \in DOMAIN work : Creating(t) =>
          \/ work[t].uid \in abandoned'
          \/ t \in DOMAIN work' /\ work'[t].stage \in {"created", "uploading"}
             /\ work'[t].uid = work[t].uid
    /\ \A t \in DOMAIN work : work[t].stage = "writing" =>
          t \in DOMAIN work' /\ work'[t].stage = "writing" /\ work'[t].uid = work[t].uid

ChangesKnown == \A k \in DOMAIN changes : changes[k].uid \in Registered

\* A quiet step keeps every account counted.
LEMMA QuietStep ==
    ASSUME Counted, Quiet, docs' = docs, queue' = queue, Registered' = Registered,
           auth' # Nobody => auth' \in Registered, ChangesKnown', abandoned \subseteq abandoned'
    PROVE  Counted'
  <1>1. Waiting'
    BY DEF Counted, Waiting, Quiet
  <1>2. Numbered' /\ EmailsOwn'
    BY DEF Counted, Numbered, EmailsOwn
  <1>3. Known'
    BY DEF Counted, Known, Quiet, ChangesKnown
  <1>4. \A u, v, k : NewAt(v, k, u)' <=> NewAt(v, k, u)
    BY DEF NewAt
  <1>5. \A t : Creating(t)' => Creating(t) /\ work'[t].uid = work[t].uid /\ t \in DOMAIN work
    BY DEF Creating, Quiet
  <1>6. OneCreator'
    <2>1. OneCreator
      BY DEF Counted
    <2>2. \A s, t \in DOMAIN work' : Creating(s)' /\ Creating(t)' /\ work'[s].uid = work'[t].uid => s = t
      <3>1. \A s, t \in DOMAIN work : Creating(s) /\ Creating(t) /\ work[s].uid = work[t].uid => s = t
        BY <2>1 DEF OneCreator
      <3> QED
        BY <1>5, <3>1
    <2>3. \A t \in DOMAIN work' : Creating(t)' =>
             /\ docs'[work'[t].uid] = NoDocument
             /\ \A v \in Account : \A k \in DOMAIN queue'[v] : ~NewAt(v, k, work[t].uid)'
      <3>1. \A t \in DOMAIN work : Creating(t) =>
               /\ docs[work[t].uid] = NoDocument
               /\ \A v \in Account : \A k \in DOMAIN queue[v] : ~NewAt(v, k, work[t].uid)
        BY <2>1 DEF OneCreator
      <3>2. SUFFICES ASSUME NEW t \in DOMAIN work', Creating(t)'
                     PROVE  /\ docs'[work'[t].uid] = NoDocument
                            /\ \A v \in Account : \A k \in DOMAIN queue'[v] : ~NewAt(v, k, work[t].uid)'
        OBVIOUS
      <3>3. Creating(t) /\ work'[t].uid = work[t].uid /\ t \in DOMAIN work
        BY <1>5, <3>2
      <3>4. \A v \in Account : \A k \in DOMAIN queue'[v] : ~NewAt(v, k, work[t].uid)
        BY <3>1, <3>3
      <3>5. \A v, k : NewAt(v, k, work[t].uid)' => NewAt(v, k, work[t].uid)
        BY <3>3 DEF NewAt
      <3> QED
        BY <3>1, <3>3, <3>4, <3>5
    <2>4. \A u, v \in Account : \A k \in DOMAIN queue'[v] : NewAt(v, k, u)' => docs'[u] = NoDocument
      BY <1>4, <2>1 DEF OneCreator
    <2>5. \A u, v, w \in Account : \A k \in DOMAIN queue'[v] : \A j \in DOMAIN queue'[w] :
             NewAt(v, k, u)' /\ NewAt(w, j, u)' => v = w /\ k = j
      <3>1. \A u, v, w \in Account : \A k \in DOMAIN queue[v] : \A j \in DOMAIN queue[w] :
             NewAt(v, k, u) /\ NewAt(w, j, u) => v = w /\ k = j
        BY <2>1 DEF OneCreator
      <3> QED
        BY <1>4, <3>1
    <2> QED
      BY <2>2, <2>3, <2>4, <2>5 DEF OneCreator
  <1>7. Alive'
    <2>1. SUFFICES ASSUME NEW u \in Registered', u \notin abandoned'
                   PROVE  \/ docs'[u] # NoDocument
                          \/ \E v \in Account : \E k \in DOMAIN queue'[v] : NewAt(v, k, u)'
                          \/ \E t \in DOMAIN work' : Creating(t)' /\ work'[t].uid = u
      BY DEF Alive
    <2>2. u \in Registered \ abandoned
      BY <2>1
    <2>3. CASE docs[u] # NoDocument \/ \E v \in Account : \E k \in DOMAIN queue[v] : NewAt(v, k, u)
      BY <1>4, <2>3
    <2>4. CASE \E t \in DOMAIN work : Creating(t) /\ work[t].uid = u
      BY <2>1, <2>4 DEF Quiet, Creating
    <2> QED
      BY <2>2, <2>3, <2>4 DEF Counted, Alive
  <1> QED
    BY <1>1, <1>2, <1>3, <1>6, <1>7 DEF Counted

\* Steps of one piece of work.
LEMMA QuietOne ==
    ASSUME AccountTypes, Counted, NEW t \in DOMAIN work, AllButOne(work, work', t),
           work[t].stage # "writing", work'[t].uid \in Registered \cup {Nobody},
           \/ Creating(t) /\ work'[t].stage \in {"created", "uploading"}
              /\ work'[t].uid = work[t].uid
           \/ ~Creating(t) /\ work'[t].stage \notin {"created", "uploading"}
    PROVE  Quiet
  <1>1. Known
    BY DEF Counted
  <1>2. \A i \in DOMAIN work' : work'[i].uid # Nobody => work'[i].uid \in Registered
    BY <1>1 DEF Known, AllButOne
  <1> QED
    BY <1>2 DEF AllButOne, Quiet, Creating

\* Work that ends with its account given up is quiet.
LEMMA QuietDropped ==
    ASSUME AccountTypes, Counted, NEW t \in DOMAIN work, Dropped(work, work', t),
           work[t].stage # "writing",
           Creating(t) => work[t].uid \in abandoned'
    PROVE  Quiet
  <1>1. Known
    BY DEF Counted
  <1>2. \A i \in DOMAIN work' : work'[i].uid # Nobody => work'[i].uid \in Registered
    BY <1>1 DEF Known, Dropped
  <1> QED
    BY <1>2 DEF Dropped, Quiet, Creating

\* Steps that move no chain but perhaps add one or end one.
SameChains(w, v, t) ==
    /\ DOMAIN w \ {t} \subseteq DOMAIN v /\ DOMAIN v \subseteq DOMAIN w
    /\ \A i \in DOMAIN v : i # t => SameChain(w[i], v[i])

\* Work that goes on as it was is quiet.
LEMMA QuietSame ==
    ASSUME AccountTypes, Counted, NEW t, SameChains(work, work', t),
           t \in DOMAIN work => /\ work[t].stage \notin {"created", "uploading", "writing"}
                                /\ t \in DOMAIN work' =>
                                     /\ work'[t].stage \notin {"created", "uploading"}
                                     /\ work'[t].uid \in Registered \cup {Nobody}
    PROVE  Quiet
  <1>1. Known
    BY DEF Counted
  <1>2. \A i \in DOMAIN work' : work'[i].uid # Nobody => work'[i].uid \in Registered
    BY <1>1 DEF Known, SameChains, SameChain
  <1> QED
    BY <1>2 DEF SameChains, SameChain, Quiet, Creating

\* The accounts known stay known.
LEMMA StillKnown ==
    ASSUME Counted
    PROVE  /\ login' = login => Registered' = Registered
           /\ auth # Nobody => auth \in Registered
           /\ changes' = changes /\ Registered' = Registered => ChangesKnown'
           /\ 0 \notin Account
  BY SignUpAssumption DEF Counted, Known, Registered, ChangesKnown, Account

\* Work has no account, or one with a login.
LEMMA WorkKnown ==
    ASSUME Counted, NEW t \in DOMAIN work
    PROVE  work[t].uid \in Registered \cup {Nobody}
  BY DEF Counted, Known

\* Pages.
LEMMA PagesCounted ==
    ASSUME AccountTypes, Counted, GoBack \/ SignOut \/ \E p \in {"login", "details"} : OpenPage(p)
    PROVE  Counted'
  <1>1. /\ SameWork(work, work') /\ docs' = docs /\ queue' = queue /\ login' = login
        /\ changes' = changes /\ abandoned' = abandoned /\ (auth' = auth \/ auth' = Nobody)
    BY PagesDo
  <1>b. DOMAIN work' = DOMAIN work /\ \A i \in DOMAIN work : SameChain(work[i], work'[i])
    BY <1>1 DEF SameWork
  <1>a. SameChains(work, work', 0)
    BY <1>b DEF SameChains
  <1>2. SameChains(work, work', 0) /\ 0 \notin DOMAIN work
    BY <1>a DEF AccountTypes
  <1>3. Quiet
    BY <1>2, QuietSame
  <1>4. Registered' = Registered /\ ChangesKnown' /\ (auth' # Nobody => auth' \in Registered)
    BY <1>1, StillKnown
  <1> QED
    BY <1>1, <1>3, <1>4, QuietStep

\* A tap.
LEMMA BeginCounted ==
    ASSUME AccountTypes, Counted, NEW kind \in {"register", "signin"}, NEW a \in Address,
           Begin(kind, a), error' \in BOOLEAN
    PROVE  Counted'
  <1>1. /\ Tap(work, work', taps', kind, a) /\ docs' = docs /\ queue' = queue /\ login' = login
        /\ changes' = changes /\ abandoned' = abandoned /\ auth' = auth
    BY BeginDoes
  <1> DEFINE t == taps'
  <1> HIDE DEF t
  <1>2. Tap(work, work', t, kind, a)
    BY <1>1 DEF t
  <1>3. work'[t].uid = Nobody /\ work'[t].stage \in {"creating", "signing"}
    BY <1>2 DEF Tap, Tapped
  <1>4. \A i \in DOMAIN work' : i = t \/ (i \in DOMAIN work /\ work'[i] = work[i])
    BY <1>2 DEF Tap
  <1>5. \A i \in DOMAIN work : i \in DOMAIN work' /\ work'[i] = work[i]
    BY <1>2 DEF Tap
  <1>6. \A i \in DOMAIN work : work[i].uid # Nobody => work[i].uid \in Registered
    BY DEF Counted, Known
  <1>7. Quiet
    BY <1>3, <1>4, <1>5, <1>6 DEF Quiet, Creating
  <1>8. Registered' = Registered /\ ChangesKnown' /\ (auth' # Nobody => auth' \in Registered)
    BY <1>1, StillKnown
  <1> QED
    BY <1>1, <1>7, <1>8, QuietStep

\* Work that ends.
LEMMA LossesCounted ==
    ASSUME AccountTypes, Counted, NEW t \in DOMAIN work,
           RefuseLogin(t) \/ RefuseSignIn(t) \/ LoseLogin(t) \/ LoseUpload(t) \/ LoseAnswer(t)
    PROVE  Counted'
  <1>1. /\ Dropped(work, work', t) /\ work[t].stage # "writing"
        /\ work[t].stage \in {"created", "uploading"} => work[t].uid \in abandoned'
        /\ abandoned \subseteq abandoned'
        /\ docs' = docs /\ queue' = queue /\ login' = login /\ changes' = changes /\ auth' = auth
    BY LossesDo
  <1>2. Quiet
    BY <1>1, QuietDropped DEF Creating
  <1>3. Registered' = Registered /\ ChangesKnown' /\ (auth' # Nobody => auth' \in Registered)
    BY <1>1, StillKnown
  <1> QED
    BY <1>1, <1>2, <1>3, QuietStep

\* A login taken.
LEMMA TakeLoginCounted ==
    ASSUME AccountTypes, Counted, NEW t \in DOMAIN work, TakeLogin(t)
    PROVE  Counted'
  <1>1. /\ AllButOne(work, work', t)
        /\ work[t].stage = "created" /\ work'[t].stage = "uploading"
        /\ work'[t].uid = work[t].uid /\ work[t].uid \in Account /\ auth' = work[t].uid
        /\ docs' = docs /\ queue' = queue /\ login' = login /\ changes' = changes
        /\ abandoned' = abandoned
    BY TakeLoginDoes
  <1>2. work[t].uid \in Registered
    BY <1>1, WorkKnown, StillKnown DEF Nobody
  <1>3. Quiet
    BY <1>1, <1>2, QuietOne DEF Creating
  <1>4. Registered' = Registered /\ ChangesKnown' /\ (auth' # Nobody => auth' \in Registered)
    BY <1>1, <1>2, StillKnown
  <1> QED
    BY <1>1, <1>3, <1>4, QuietStep

\* An upload that ends with nobody signed in.
LEMMA UploadStopsCounted ==
    ASSUME AccountTypes, Counted, NEW t \in DOMAIN work, Upload(t), auth = Nobody
    PROVE  Counted'
  <1>1. /\ Dropped(work, work', t) /\ work[t].stage = "uploading"
        /\ abandoned' = abandoned \cup {work[t].uid}
        /\ docs' = docs /\ queue' = queue /\ login' = login /\ changes' = changes /\ auth' = auth
    BY UploadStops
  <1>2. Quiet
    BY <1>1, QuietDropped DEF Creating
  <1>3. Registered' = Registered /\ ChangesKnown' /\ (auth' # Nobody => auth' \in Registered)
    BY <1>1, StillKnown
  <1> QED
    BY <1>1, <1>2, <1>3, QuietStep

\* A fetch begun.
LEMMA FetchBeginsCounted ==
    ASSUME AccountTypes, Counted, NEW t \in DOMAIN work, FinishRegistration(t) \/ AcceptSignIn(t)
    PROVE  Counted'
  <1>1. /\ work[t].stage \in {"written", "signing"}
        /\ work[t].stage = "written" => auth' = auth
        /\ work[t].stage = "signing" => auth' \in Holder(work[t].address)
        /\ FetchBegun(work, work', t, auth') /\ auth' \in Account
        /\ docs' = docs /\ queue' = queue /\ login' = login /\ changes' = changes
        /\ abandoned' = abandoned
    BY FetchBegins
  <1>2. auth' \in Registered
    BY <1>1, StillKnown DEF Holder, Nobody
  <1>3. SameChains(work, work', t) /\ work'[t].stage = "fetching" /\ work'[t].uid = auth'
    BY <1>1 DEF FetchBegun, SameChains
  <1>4. Quiet
    BY <1>1, <1>2, <1>3, QuietSame
  <1>5. Registered' = Registered /\ ChangesKnown' /\ (auth' # Nobody => auth' \in Registered)
    BY <1>1, <1>2, StillKnown
  <1> QED
    BY <1>1, <1>4, <1>5, QuietStep

\* A document or a look-up answered.
LEMMA AnswersCounted ==
    ASSUME AccountTypes, Counted, NEW t \in DOMAIN work,
           AnswerFetch(t) \/ \E c \in Challenge : LookUp(t, c)
    PROVE  Counted'
  <1> DEFINE Does == /\ AllButOne(work, work', t) /\ work[t].stage \in {"fetching", "looking"}
                     /\ work'[t].stage = "looking" /\ work'[t].uid = work[t].uid
                     /\ docs' = docs /\ queue' = queue /\ login' = login /\ changes' = changes
                     /\ auth' = auth /\ abandoned' = abandoned
  <1>1. AnswerFetch(t) => Does
    BY AnswerFetchDoes
  <1>2. \A c \in Challenge : LookUp(t, c) => Does
    BY LookUpDoes
  <1>3. Does
    BY <1>1, <1>2
  <1>4. work'[t].uid \in Registered \cup {Nobody}
    BY <1>3, WorkKnown
  <1>5. Quiet
    BY <1>3, <1>4, QuietOne DEF Creating
  <1>6. Registered' = Registered /\ ChangesKnown' /\ (auth' # Nobody => auth' \in Registered)
    BY <1>3, StillKnown
  <1> QED
    BY <1>3, <1>5, <1>6, QuietStep

\* A fetch finished.
LEMMA FinishFetchCounted ==
    ASSUME AccountTypes, Counted, NEW t \in DOMAIN work, FinishFetch(t)
    PROVE  Counted'
  <1>1. /\ Finished(work, work', t) /\ work[t].stage = "looking"
        /\ docs' = docs /\ queue' = queue /\ login' = login /\ changes' = changes
        /\ auth' = auth /\ abandoned' = abandoned
    BY FinishFetchDoes
  <1>2. SameChains(work, work', t) /\ t \notin DOMAIN work'
    BY <1>1 DEF Finished, SameChains
  <1>3. Quiet
    BY <1>1, <1>2, QuietSame
  <1>4. Registered' = Registered /\ ChangesKnown' /\ (auth' # Nobody => auth' \in Registered)
    BY <1>1, StillKnown
  <1> QED
    BY <1>1, <1>3, <1>4, QuietStep

\* A change of the address answered.
LEMMA AnswerChangeCounted ==
    ASSUME AccountTypes, Counted, NEW k \in DOMAIN changes, AnswerChange(k)
    PROVE  Counted'
  <1> DEFINE c == changes[k]
  <1>1. /\ c \in ChangeOf
        /\ Without1(changes, changes', k)
        /\ login' = [login EXCEPT ![c.uid] = c.email] \/ login' = login
        /\ docs' = docs /\ queue' = queue /\ work' = work
        /\ auth' = auth /\ abandoned' = abandoned
    BY AnswerChangeDoes
  <1>2. c.uid \in Registered /\ ChangesKnown
    BY DEF Counted, Known, ChangesKnown
  <1>3. c.uid \in Account /\ c.email # NoAddress
    BY <1>1, SignUpAssumption DEF ChangeOf
  <1> HIDE DEF c
  <1>4. Registered' = Registered
    BY <1>1, <1>2, <1>3 DEF Registered, AccountTypes, Logins
  <1>5. ChangesKnown'
    BY <1>1, <1>2, <1>4 DEF ChangesKnown, Without1
  <1>6. SameChains(work, work', 0) /\ 0 \notin DOMAIN work
    BY <1>1 DEF SameChain, SameChains, AccountTypes
  <1>7. Quiet
    BY <1>6, QuietSame
  <1>8. auth' # Nobody => auth' \in Registered
    BY <1>1, StillKnown
  <1> QED
    BY <1>1, <1>4, <1>5, <1>7, <1>8, QuietStep

\* A step of the lists.
LEMMA AsideCounted ==
    ASSUME AccountTypes, Counted, Aside
    PROVE  Counted'
  <1>1. /\ docs' = docs /\ queue' = queue /\ login' = login /\ changes' = changes
        /\ auth' = auth /\ abandoned' = abandoned /\ work' = work
    BY AsideDoes
  <1>2. SameChains(work, work', 0) /\ 0 \notin DOMAIN work
    BY <1>1 DEF SameChain, SameChains, AccountTypes
  <1>3. Quiet
    BY <1>2, QuietSame
  <1>4. Registered' = Registered /\ ChangesKnown' /\ (auth' # Nobody => auth' \in Registered)
    BY <1>1, StillKnown
  <1> QED
    BY <1>1, <1>3, <1>4, QuietStep

\* The next number is a new account's, and the numbers stay without a gap.
LEMMA NextAccount ==
    ASSUME Numbered, NEW u \in Account, u = Cardinality(Registered) + 1,
           NEW a \in Address, login \in Logins, login' = [login EXCEPT ![u] = a]
    PROVE  /\ u \notin Registered /\ Registered' = Registered \cup {u}
           /\ Numbered'
  <1>1. PICK n \in 1..MaxAccounts : Registered = 1..n
    BY DEF Numbered
  <1>2. n \in Nat
    BY SignUpAssumption
  <1>a. Cardinality(1..n) = n
    <2>1. Cardinality(1..n) = IF 1 > n THEN 0 ELSE n - 1 + 1
      BY <1>2, FS_Interval
    <2> QED
      BY <1>2, <2>1
  <1>3. u = n + 1
    BY <1>1, <1>a
  <1>4. a # NoAddress
    BY SignUpAssumption
  <1>5. Registered' = Registered \cup {u}
    BY <1>4 DEF Registered, Logins
  <1>6. u \notin Registered
    BY <1>1, <1>2, <1>3
  <1>7. Registered' = 1..(n + 1) /\ n + 1 \in 1..MaxAccounts
    BY <1>1, <1>2, <1>3, <1>5, SignUpAssumption DEF Account
  <1> QED
    BY <1>5, <1>6, <1>7 DEF Numbered

\* A login created: its chain is the one that brings the document.
LEMMA CreateLoginCounted ==
    ASSUME AccountTypes, Counted, NEW t \in DOMAIN work, CreateLogin(t)
    PROVE  Counted'
  <1> DEFINE u == work'[t].uid
  <1>1. /\ AllButOne(work, work', t)
        /\ work[t].stage = "creating" /\ work'[t].stage = "created"
        /\ u = Cardinality(Registered) + 1 /\ u \in Account
        /\ login' = [login EXCEPT ![u] = work[t].address]
        /\ docs' = docs /\ queue' = queue /\ changes' = changes
        /\ auth' = auth /\ abandoned' = abandoned
    BY CreateLoginDoes
  <1>2. work[t].address \in Address /\ login \in Logins
    BY WorkOf DEF AccountTypes
  <1>3. Numbered /\ Known /\ OneCreator /\ Alive
    BY DEF Counted
  <1> HIDE DEF u
  <1>4. u \notin Registered /\ Registered' = Registered \cup {u} /\ Numbered'
    BY <1>1, <1>2, <1>3, NextAccount
  <1>5. work'[t].uid = u /\ \A i \in DOMAIN work \ {t} : work'[i] = work[i]
    BY <1>1 DEF u, AllButOne
  <1>6. Waiting'
    BY <1>1, <1>5 DEF Counted, Waiting, AllButOne
  <1>7. EmailsOwn'
    BY <1>1 DEF Counted, EmailsOwn
  <1>8. Known'
    BY <1>1, <1>3, <1>4, <1>5 DEF Known, AllButOne
  <1>9. \A v, w, k : NewAt(v, k, w)' <=> NewAt(v, k, w)
    BY <1>1 DEF NewAt
  <1>10. \A i : Creating(i)' <=> Creating(i) \/ i = t
    BY <1>1, <1>5 DEF AllButOne, Creating
  <1>11. /\ \A i \in DOMAIN work : i # t => work[i].uid # u
         /\ \A v \in Account : \A k \in DOMAIN queue[v] : ~NewAt(v, k, u)
         /\ docs[u] = NoDocument
    <2>1. u # Nobody
      BY <1>1, StillKnown DEF Nobody
    <2>2. \A i \in DOMAIN work : work[i].uid # u
      BY <1>3, <1>4, <2>1 DEF Known
    <2>3. docs[u] = NoDocument
      BY <1>1, <1>3, <1>4 DEF Known
    <2>4. \A v \in Account : \A k \in DOMAIN queue[v] : ~NewAt(v, k, u)
      BY <1>3, <1>4 DEF Known, NewAt
    <2> QED
      BY <2>2, <2>3, <2>4
  <1>12. OneCreator'
    <2>1. \A i, j \in DOMAIN work' : Creating(i)' /\ Creating(j)' /\ work'[i].uid = work'[j].uid => i = j
      <3>1. \A i, j \in DOMAIN work : Creating(i) /\ Creating(j) /\ work[i].uid = work[j].uid => i = j
        BY <1>3 DEF OneCreator
      <3> QED
        BY <1>1, <1>5, <1>10, <1>11, <3>1 DEF AllButOne
    <2>2. \A x, v, w \in Account : \A k \in DOMAIN queue'[v] : \A j \in DOMAIN queue'[w] :
             NewAt(v, k, x)' /\ NewAt(w, j, x)' => v = w /\ k = j
      <3>1. \A x, v, w \in Account : \A k \in DOMAIN queue[v] : \A j \in DOMAIN queue[w] :
               NewAt(v, k, x) /\ NewAt(w, j, x) => v = w /\ k = j
        BY <1>3 DEF OneCreator
      <3> QED
        BY <1>1, <1>9, <3>1
    <2>3. \A i \in DOMAIN work' : Creating(i)' =>
             /\ docs'[work'[i].uid] = NoDocument
             /\ \A v \in Account : \A k \in DOMAIN queue'[v] : ~NewAt(v, k, work[i].uid)'
      <3>1. \A i \in DOMAIN work : Creating(i) =>
               /\ docs[work[i].uid] = NoDocument
               /\ \A v \in Account : \A k \in DOMAIN queue[v] : ~NewAt(v, k, work[i].uid)
        BY <1>3 DEF OneCreator
      <3>2. SUFFICES ASSUME NEW i \in DOMAIN work', Creating(i)'
                     PROVE  /\ docs'[work'[i].uid] = NoDocument
                            /\ \A v \in Account : \A k \in DOMAIN queue'[v] : ~NewAt(v, k, work[i].uid)'
        OBVIOUS
      <3>3. /\ docs[work'[i].uid] = NoDocument
            /\ \A v \in Account : \A k \in DOMAIN queue[v] : ~NewAt(v, k, work'[i].uid)
        BY <1>1, <1>5, <1>10, <1>11, <3>1, <3>2 DEF AllButOne
      <3>4. \A v, k : NewAt(v, k, work[i].uid)' => NewAt(v, k, work'[i].uid)
        BY <1>1 DEF NewAt
      <3> QED
        BY <1>1, <3>3, <3>4
    <2>4. \A x, v \in Account : \A k \in DOMAIN queue'[v] : NewAt(v, k, x)' => docs'[x] = NoDocument
      BY <1>1, <1>3, <1>9 DEF OneCreator
    <2> QED
      BY <2>1, <2>2, <2>3, <2>4 DEF OneCreator
  <1>13. Alive'
    <2>1. SUFFICES ASSUME NEW x \in Registered', x \notin abandoned'
                   PROVE  \/ docs'[x] # NoDocument
                          \/ \E v \in Account : \E k \in DOMAIN queue'[v] : NewAt(v, k, x)'
                          \/ \E i \in DOMAIN work' : Creating(i)' /\ work'[i].uid = x
      BY DEF Alive
    <2>2. CASE x = u
      BY <1>1, <1>5, <1>10, <2>2 DEF AllButOne
    <2>3. CASE x \in Registered
      <3>1. x \in Registered \ abandoned
        BY <1>1, <2>1, <2>3
      <3>2. CASE docs[x] # NoDocument \/ \E v \in Account : \E k \in DOMAIN queue[v] : NewAt(v, k, x)
        BY <1>1, <1>9, <3>2
      <3>3. CASE \E i \in DOMAIN work : Creating(i) /\ work[i].uid = x
        <4>1. PICK i \in DOMAIN work : Creating(i) /\ work[i].uid = x
          BY <3>3
        <4>2. i # t
          BY <1>1, <4>1 DEF Creating
        <4> QED
          BY <1>1, <1>5, <1>10, <4>1, <4>2 DEF AllButOne
      <3> QED
        BY <1>3, <3>1, <3>2, <3>3 DEF Alive
    <2> QED
      BY <1>4, <2>1, <2>2, <2>3
  <1> QED
    BY <1>4, <1>6, <1>7, <1>8, <1>12, <1>13 DEF Counted

-----------------------------------------------------------------------------
\* The list of documents to come: writes queued are one more, or one less.
LEMMA NewLonger ==
    ASSUME NEW a \in Account, NEW r, NEW n, Longer(queue, queue', a, r, n)
    PROVE  \A v \in Account : \A k, u :
              NewAt(v, k, u)' <=> \/ NewAt(v, k, u)
                                  \/ v = a /\ k = n /\ r.kind = "new" /\ r.uid = u
  <1>1. \A v \in Account : v # a => queue'[v] = queue[v]
    BY DEF Longer
  <1>2. \A k : k \in DOMAIN queue'[a] <=> k \in DOMAIN queue[a] \/ k = n
    BY DEF Longer
  <1>3. queue'[a][n] = r /\ n \notin DOMAIN queue[a]
    BY DEF Longer
  <1>4. \A k \in DOMAIN queue[a] : queue'[a][k] = queue[a][k]
    BY DEF Longer
  <1> QED
    BY <1>1, <1>2, <1>3, <1>4 DEF NewAt

\* The documents to come when the first write of a queue is gone.
LEMMA NewShorter ==
    ASSUME NEW a \in Account, Shorter(queue, queue', a)
    PROVE  /\ \A v \in Account : \A k, u :
                 NewAt(v, k, u)' => NewAt(v, Before(v, k, a), u) /\ k \in Nat \ {0}
           /\ \A v \in Account : \A j, u :
                 NewAt(v, j, u) /\ ~(v = a /\ j = 1) => \E k : j = Before(v, k, a) /\ NewAt(v, k, u)'
  BY DEF Shorter, NewAt

\* An upload that ends queues the document its chain was to bring.
LEMMA UploadQueuesCounted ==
    ASSUME AccountTypes, Counted, NEW t \in DOMAIN work, Upload(t), auth # Nobody
    PROVE  Counted'
  <1> DEFINE u == work[t].uid
  <1>1. /\ AllButOne(work, work', t) /\ auth \in Account
        /\ work[t].stage = "uploading" /\ work'[t].stage = "writing"
        /\ work'[t].uid = u /\ u \in Account
        /\ docs' = docs /\ login' = login /\ changes' = changes
        /\ auth' = auth /\ abandoned' = abandoned
    BY UploadQueues
  <1>2. PICK image \in BOOLEAN : /\ NewWrite(t, image) \in PendingWrite
                                 /\ queue' = Queued(queue, auth, NewWrite(t, image))
    BY UploadQueues
  <1> DEFINE r == NewWrite(t, image)
             n == Len(queue[auth]) + 1
  <1>3. r \in PendingWrite /\ r.kind = "new" /\ r.uid = u /\ r.tap = t /\ t # 0
    BY <1>2, WorkOf DEF NewWrite
  <1>4. queue \in Queues
    BY DEF AccountTypes
  <1>5. queue' = Queued(queue, auth, r)
    BY <1>2
  <1> HIDE DEF u, r
  <1>6. Longer(queue, queue', auth, r, n)
    BY <1>1, <1>3, <1>4, <1>5, QueueAppended
  <1> HIDE DEF n
  <1>7. Waiting /\ Numbered /\ Known /\ EmailsOwn /\ OneCreator /\ Alive
    BY DEF Counted
  <1>8. /\ \A v \in Account : v # auth => queue'[v] = queue[v]
        /\ \A k : k \in DOMAIN queue'[auth] <=> k \in DOMAIN queue[auth] \/ k = n
        /\ queue'[auth][n] = r /\ n \notin DOMAIN queue[auth]
        /\ \A k \in DOMAIN queue[auth] : queue'[auth][k] = queue[auth][k]
    BY <1>6 DEF Longer
  <1>9. \A v \in Account : \A k \in DOMAIN queue'[v] :
           \/ k \in DOMAIN queue[v] /\ queue'[v][k] = queue[v][k]
           \/ v = auth /\ k = n /\ queue'[v][k] = r
    BY <1>8
  <1>10. work'[t].stage = "writing" /\ work'[t].uid = u /\ DOMAIN work' = DOMAIN work
         /\ \A i \in DOMAIN work \ {t} : work'[i] = work[i]
    BY <1>1 DEF AllButOne, u
  <1>11. \A v \in Account : \A k \in DOMAIN queue[v] : queue[v][k].tap # t
    BY <1>1, <1>3, <1>7 DEF Waiting
  <1>12. Waiting'
    <2>1. \A v \in Account : \A k \in DOMAIN queue'[v] : queue'[v][k].tap # 0 =>
             /\ queue'[v][k].tap \in DOMAIN work'
             /\ work'[queue'[v][k].tap].stage = "writing"
             /\ work'[queue'[v][k].tap].uid = queue'[v][k].uid
      <3>1. \A v \in Account : \A k \in DOMAIN queue[v] : queue[v][k].tap # 0 =>
               /\ queue[v][k].tap \in DOMAIN work'
               /\ work'[queue[v][k].tap].stage = "writing"
               /\ work'[queue[v][k].tap].uid = queue[v][k].uid
        BY <1>7, <1>10, <1>11 DEF Waiting
      <3> QED
        BY <1>3, <1>9, <1>10, <3>1
    <2>2. \A v, w \in Account : \A k \in DOMAIN queue'[v] : \A j \in DOMAIN queue'[w] :
             queue'[v][k].tap # 0 /\ queue'[v][k].tap = queue'[w][j].tap => v = w /\ k = j
      <3>1. \A v, w \in Account : \A k \in DOMAIN queue[v] : \A j \in DOMAIN queue[w] :
               queue[v][k].tap # 0 /\ queue[v][k].tap = queue[w][j].tap => v = w /\ k = j
        BY <1>7 DEF Waiting
      <3> QED
        BY <1>3, <1>9, <1>11, <3>1
    <2> QED
      BY <2>1, <2>2 DEF Waiting
  <1>13. Registered' = Registered /\ ChangesKnown' /\ u \in Registered
    BY <1>1, WorkKnown, StillKnown DEF u, Nobody
  <1>14. Numbered'
    BY <1>7, <1>13 DEF Numbered
  <1>15. EmailsOwn'
    BY <1>3, <1>7, <1>9 DEF EmailsOwn
  <1>16. Known'
    <2>1. \A v \in Account : \A k \in DOMAIN queue'[v] : queue'[v][k].uid \in Registered
      BY <1>3, <1>7, <1>9, <1>13 DEF Known
    <2>2. \A i \in DOMAIN work' : work'[i].uid # Nobody => work'[i].uid \in Registered
      BY <1>7, <1>10, <1>13 DEF Known
    <2> QED
      BY <1>1, <1>7, <1>13, <2>1, <2>2 DEF Known, ChangesKnown
  <1>17. \A v \in Account : \A k, x :
            NewAt(v, k, x)' <=> NewAt(v, k, x) \/ (v = auth /\ k = n /\ x = u)
    BY <1>1, <1>3, <1>6, NewLonger
  <1>18. \A i : Creating(i)' <=> Creating(i) /\ i # t
    BY <1>1, <1>10 DEF Creating
  <1>19. Creating(t)
    BY <1>1 DEF Creating
  <1>20. /\ \A i, j \in DOMAIN work : Creating(i) /\ Creating(j) /\ work[i].uid = work[j].uid => i = j
         /\ \A x, v, w \in Account : \A k \in DOMAIN queue[v] : \A j \in DOMAIN queue[w] :
               NewAt(v, k, x) /\ NewAt(w, j, x) => v = w /\ k = j
         /\ \A x, v \in Account : \A k \in DOMAIN queue[v] : NewAt(v, k, x) => docs[x] = NoDocument
    BY <1>7 DEF OneCreator
  <1>21. \A i \in DOMAIN work : Creating(i) =>
            /\ docs[work[i].uid] = NoDocument
            /\ \A v \in Account : \A k \in DOMAIN queue[v] : ~NewAt(v, k, work[i].uid)
    BY <1>7 DEF OneCreator
  <1>22. docs[u] = NoDocument /\ \A v \in Account : \A k : ~NewAt(v, k, u)
    BY <1>19, <1>21 DEF u, NewAt
  <1>23. OneCreator'
    <2>1. \A i, j \in DOMAIN work' : Creating(i)' /\ Creating(j)' /\ work'[i].uid = work'[j].uid => i = j
      BY <1>10, <1>18, <1>20
    <2>2. \A x, v, w \in Account : \A k \in DOMAIN queue'[v] : \A j \in DOMAIN queue'[w] :
             NewAt(v, k, x)' /\ NewAt(w, j, x)' => v = w /\ k = j
      <3>1. \A x, v, w \in Account : \A k, j : NewAt(v, k, x) /\ NewAt(w, j, x) => v = w /\ k = j
        BY <1>20 DEF NewAt
      <3> QED
        BY <1>17, <1>22, <3>1
    <2>3. \A i \in DOMAIN work' : Creating(i)' =>
             /\ docs'[work'[i].uid] = NoDocument
             /\ \A v \in Account : \A k \in DOMAIN queue'[v] : ~NewAt(v, k, work[i].uid)'
      <3>2. SUFFICES ASSUME NEW i \in DOMAIN work', Creating(i)'
                     PROVE  /\ docs'[work'[i].uid] = NoDocument
                            /\ \A v \in Account : \A k \in DOMAIN queue'[v] : ~NewAt(v, k, work[i].uid)'
        OBVIOUS
      <3>3. Creating(i) /\ i # t /\ i \in DOMAIN work /\ work'[i].uid = work[i].uid
        BY <1>10, <1>18, <3>2
      <3>4. work[i].uid # u
        BY <1>19, <1>20, <3>3 DEF u
      <3>5. \A v \in Account : \A k : ~NewAt(v, k, work[i].uid)
        BY <1>21, <3>3 DEF NewAt
      <3>6. \A v \in Account : \A k : NewAt(v, k, work[i].uid)' =>
               NewAt(v, k, work[i].uid) \/ work[i].uid = u
        <4> DEFINE x == work[i].uid
        <4>1. \A v \in Account : \A k : NewAt(v, k, work[i].uid)' <=>
                 k \in DOMAIN queue'[v] /\ queue'[v][k].kind = "new" /\ queue'[v][k].uid = x
          BY <3>3 DEF NewAt
        <4>2. \A v \in Account : \A k : NewAt(v, k, x) <=>
                 k \in DOMAIN queue[v] /\ queue[v][k].kind = "new" /\ queue[v][k].uid = x
          BY DEF NewAt
        <4> HIDE DEF x
        <4>3. \A v \in Account : \A k :
                 k \in DOMAIN queue'[v] /\ queue'[v][k].kind = "new" /\ queue'[v][k].uid = x
                  => NewAt(v, k, x) \/ x = u
          BY <1>3, <1>9, <4>2
        <4> QED
          BY <4>1, <4>3 DEF x
      <3> QED
        BY <1>1, <1>21, <3>3, <3>4, <3>5, <3>6
    <2>4. \A x, v \in Account : \A k \in DOMAIN queue'[v] : NewAt(v, k, x)' => docs'[x] = NoDocument
      <3>1. \A x, v \in Account : \A k : NewAt(v, k, x) => docs[x] = NoDocument
        BY <1>20 DEF NewAt
      <3> QED
        BY <1>1, <1>17, <1>22, <3>1
    <2> QED
      BY <2>1, <2>2, <2>3, <2>4 DEF OneCreator
  <1>24. Alive'
    <2>1. SUFFICES ASSUME NEW x \in Registered', x \notin abandoned'
                   PROVE  \/ docs'[x] # NoDocument
                          \/ \E v \in Account : \E k \in DOMAIN queue'[v] : NewAt(v, k, x)'
                          \/ \E i \in DOMAIN work' : Creating(i)' /\ work'[i].uid = x
      BY DEF Alive
    <2>2. x \in Registered \ abandoned
      BY <1>1, <1>13, <2>1
    <2>3. CASE docs[x] # NoDocument
      BY <1>1, <2>3
    <2>4. CASE \E v \in Account : \E k \in DOMAIN queue[v] : NewAt(v, k, x)
      <3>1. PICK v \in Account : \E k \in DOMAIN queue[v] : NewAt(v, k, x)
        BY <2>4
      <3>2. PICK k \in DOMAIN queue[v] : NewAt(v, k, x)
        BY <3>1
      <3>3. NewAt(v, k, x)' /\ k \in DOMAIN queue'[v]
        BY <1>8, <1>17, <3>2
      <3> QED
        BY <3>3
    <2>5. CASE x = u
      <3>1. PICK v \in Account : v = auth
        BY <1>1
      <3>a. PICK k : k = n
        OBVIOUS
      <3>2. NewAt(v, k, x)' /\ k \in DOMAIN queue'[v]
        BY <1>3, <1>8, <2>5, <3>1, <3>a DEF NewAt
      <3> QED
        BY <3>2
    <2>6. CASE x # u /\ \E i \in DOMAIN work : Creating(i) /\ work[i].uid = x
      BY <1>10, <1>18, <2>6 DEF u
    <2> QED
      BY <1>7, <2>2, <2>3, <2>4, <2>5, <2>6 DEF Alive
  <1> QED
    BY <1>12, <1>14, <1>15, <1>16, <1>23, <1>24 DEF Counted

\* A change of the address begun.
LEMMA ChangeEmailCounted ==
    ASSUME AccountTypes, Counted, NEW a \in Address, ChangeEmail(a)
    PROVE  Counted'
  <1> DEFINE r == EmailWrite(a)
             n == Len(queue[auth]) + 1
             c == ChangeTo(a)
  <1>1. /\ auth \in Account /\ r \in PendingWrite /\ queue' = Queued(queue, auth, r)
        /\ c \in ChangeOf /\ changes' = Append(changes, c)
        /\ docs' = docs /\ login' = login /\ work' = work
        /\ auth' = auth /\ abandoned' = abandoned
    BY ChangeEmailDoes
  <1>2. r.kind = "email" /\ r.uid = auth /\ r.tap = 0 /\ c.uid = auth
    BY DEF EmailWrite, ChangeTo
  <1>3. queue \in Queues /\ changes \in Changes
    BY DEF AccountTypes
  <1> HIDE DEF r, c
  <1>4. Longer(queue, queue', auth, r, n)
    BY <1>1, <1>3, QueueAppended
  <1> HIDE DEF n
  <1>5. Waiting /\ Numbered /\ Known /\ EmailsOwn /\ OneCreator /\ Alive
    BY DEF Counted
  <1>6. /\ \A v \in Account : v # auth => queue'[v] = queue[v]
        /\ \A k : k \in DOMAIN queue'[auth] <=> k \in DOMAIN queue[auth] \/ k = n
        /\ queue'[auth][n] = r /\ n \notin DOMAIN queue[auth]
        /\ \A k \in DOMAIN queue[auth] : queue'[auth][k] = queue[auth][k]
    BY <1>4 DEF Longer
  <1>7. \A v \in Account : \A k \in DOMAIN queue'[v] :
           \/ k \in DOMAIN queue[v] /\ queue'[v][k] = queue[v][k]
           \/ v = auth /\ k = n /\ queue'[v][k] = r
    BY <1>6
  <1>8. \A v \in Account : \A k \in DOMAIN queue[v] :
           k \in DOMAIN queue'[v] /\ queue'[v][k] = queue[v][k]
    BY <1>6
  <1>9. auth \in Registered /\ Registered' = Registered
    BY <1>1, StillKnown DEF Nobody
  <1>10. Waiting'
    <2>1. \A v \in Account : \A k \in DOMAIN queue'[v] : queue'[v][k].tap # 0 =>
             k \in DOMAIN queue[v] /\ queue'[v][k] = queue[v][k]
      BY <1>2, <1>7
    <2> QED
      BY <1>1, <1>5, <2>1 DEF Waiting
  <1>11. EmailsOwn'
    BY <1>2, <1>5, <1>7 DEF EmailsOwn
  <1>12. Known'
    <2>1. \A v \in Account : \A k \in DOMAIN queue'[v] : queue'[v][k].uid \in Registered
      BY <1>2, <1>5, <1>7, <1>9 DEF Known
    <2>2. \A k \in DOMAIN changes' : changes'[k].uid \in Registered
      <3>1. \A k \in DOMAIN changes' :
               (k \in DOMAIN changes /\ changes'[k] = changes[k]) \/ changes'[k] = c
        BY <1>1, <1>3 DEF Changes
      <3> QED
        BY <1>2, <1>5, <1>9, <3>1 DEF Known
    <2> QED
      BY <1>1, <1>5, <1>9, <2>1, <2>2 DEF Known
  <1>13. Numbered'
    BY <1>5, <1>9 DEF Numbered
  <1>14. \A v \in Account : \A k, x : NewAt(v, k, x)' <=> NewAt(v, k, x)
    BY <1>2, <1>7, <1>8 DEF NewAt
  <1>15. \A i : Creating(i)' <=> Creating(i)
    BY <1>1 DEF Creating
  <1>16. OneCreator'
    <2>1. /\ \A i, j \in DOMAIN work : Creating(i) /\ Creating(j) /\ work[i].uid = work[j].uid => i = j
          /\ \A x, v, w \in Account : \A k, j : NewAt(v, k, x) /\ NewAt(w, j, x) => v = w /\ k = j
          /\ \A x, v \in Account : \A k : NewAt(v, k, x) => docs[x] = NoDocument
      BY <1>5 DEF OneCreator, NewAt
    <2>2. \A i \in DOMAIN work : Creating(i) =>
             /\ docs[work[i].uid] = NoDocument
             /\ \A v \in Account : \A k : ~NewAt(v, k, work[i].uid)
      BY <1>5 DEF OneCreator, NewAt
    <2>3. \A i \in DOMAIN work' : Creating(i)' =>
             /\ docs'[work'[i].uid] = NoDocument
             /\ \A v \in Account : \A k \in DOMAIN queue'[v] : ~NewAt(v, k, work[i].uid)'
      <3>1. SUFFICES ASSUME NEW i \in DOMAIN work', Creating(i)',
                            NEW v \in Account, NEW k
                     PROVE  ~NewAt(v, k, work[i].uid)'
        BY <1>1, <1>15, <2>2
      <3>2. NewAt(v, k, work[i].uid)' <=>
               k \in DOMAIN queue'[v] /\ queue'[v][k].kind = "new" /\ queue'[v][k].uid = work[i].uid
        BY <1>1 DEF NewAt
      <3>3. ~NewAt(v, k, work[i].uid)
        BY <1>1, <1>15, <2>2, <3>1
      <3> QED
        BY <1>2, <1>7, <3>2, <3>3 DEF NewAt
    <2> QED
      BY <1>1, <1>14, <1>15, <2>1, <2>3 DEF OneCreator
  <1>17. Alive'
    <2>1. SUFFICES ASSUME NEW x \in Registered', x \notin abandoned'
                   PROVE  \/ docs'[x] # NoDocument
                          \/ \E v \in Account : \E k \in DOMAIN queue'[v] : NewAt(v, k, x)'
                          \/ \E i \in DOMAIN work' : Creating(i)' /\ work'[i].uid = x
      BY DEF Alive
    <2>2. x \in Registered \ abandoned
      BY <1>1, <1>9, <2>1
    <2>3. CASE \E v \in Account : \E k \in DOMAIN queue[v] : NewAt(v, k, x)
      <3>1. PICK v \in Account : \E k \in DOMAIN queue[v] : NewAt(v, k, x)
        BY <2>3
      <3>2. PICK k \in DOMAIN queue[v] : NewAt(v, k, x)
        BY <3>1
      <3> QED
        BY <1>8, <1>14, <3>2
    <2>4. CASE docs[x] # NoDocument \/ \E i \in DOMAIN work : Creating(i) /\ work[i].uid = x
      BY <1>1, <1>15, <2>4
    <2> QED
      BY <1>5, <2>2, <2>3, <2>4 DEF Alive
  <1> QED
    BY <1>10, <1>11, <1>12, <1>13, <1>16, <1>17 DEF Counted

\* The end of the process: what is lost is given up.
LEMMA EndCounted ==
    ASSUME AccountTypes, Counted, End
    PROVE  Counted'
  <1>1. /\ CutShort(queue, queue', auth) /\ LossKnown /\ WorkLossKnown
        /\ abandoned \subseteq abandoned' /\ DOMAIN work' = {} /\ changes' = <<>>
        /\ login' = login /\ docs' = docs /\ auth' = auth
    BY EndDoes
  <1>2. Waiting /\ Numbered /\ Known /\ EmailsOwn /\ OneCreator /\ Alive
    BY DEF Counted
  <1>3. Registered' = Registered /\ (auth # Nobody => auth \in Registered)
    BY <1>1, StillKnown
  <1>4. \A v \in Account : \A k \in DOMAIN queue'[v] :
           /\ k \in DOMAIN queue[v] /\ queue'[v][k].tap = 0
           /\ queue'[v][k].kind = queue[v][k].kind /\ queue'[v][k].uid = queue[v][k].uid
    BY <1>1 DEF CutShort, SameWrite
  <1>5. Waiting'
    BY <1>4 DEF Waiting
  <1>6. Numbered' /\ EmailsOwn'
    BY <1>2, <1>3, <1>4 DEF Numbered, EmailsOwn
  <1>7. Known'
    BY <1>1, <1>2, <1>3, <1>4 DEF Known
  <1>8. \A v \in Account : \A k, x : NewAt(v, k, x)' => NewAt(v, k, x)
    BY <1>4 DEF NewAt
  <1>9. OneCreator'
    <2>1. /\ \A x, v, w \in Account : \A k, j : NewAt(v, k, x) /\ NewAt(w, j, x) => v = w /\ k = j
          /\ \A x, v \in Account : \A k : NewAt(v, k, x) => docs[x] = NoDocument
      BY <1>2 DEF OneCreator, NewAt
    <2> QED
      BY <1>1, <1>8, <2>1 DEF OneCreator
  <1>10. Alive'
    <2>1. SUFFICES ASSUME NEW x \in Registered', x \notin abandoned'
                   PROVE  \/ docs'[x] # NoDocument
                          \/ \E v \in Account : \E k \in DOMAIN queue'[v] : NewAt(v, k, x)'
      BY DEF Alive
    <2>2. x \in Registered \ abandoned
      BY <1>1, <1>3, <2>1
    <2>3. CASE \E v \in Account : \E k \in DOMAIN queue[v] : NewAt(v, k, x)
      <3>1. PICK v \in Account : \E k \in DOMAIN queue[v] : NewAt(v, k, x)
        BY <2>3
      <3>2. PICK k \in DOMAIN queue[v] : NewAt(v, k, x)
        BY <3>1
      <3>3. k \in DOMAIN queue'[v]
        BY <1>1, <2>1, <3>2 DEF LossKnown, NewAt
      <3>4. NewAt(v, k, x)'
        BY <1>4, <3>2, <3>3 DEF NewAt
      <3> QED
        BY <3>3, <3>4
    <2>4. CASE \E i \in DOMAIN work : Creating(i) /\ work[i].uid = x
      <3>1. PICK i \in DOMAIN work : Creating(i) /\ work[i].uid = x
        BY <2>4
      <3>2. \E v \in Account : \E k \in DOMAIN queue'[v] :
               queue'[v][k].uid = x /\ queue'[v][k].kind = "new"
        BY <1>1, <2>1, <3>1 DEF WorkLossKnown, Creating
      <3>3. PICK v \in Account : \E k \in DOMAIN queue'[v] :
               queue'[v][k].uid = x /\ queue'[v][k].kind = "new"
        BY <3>2
      <3>4. PICK k \in DOMAIN queue'[v] : queue'[v][k].uid = x /\ queue'[v][k].kind = "new"
        BY <3>3
      <3>5. NewAt(v, k, x)'
        BY <3>4 DEF NewAt
      <3> QED
        BY <3>4, <3>5
    <2>5. CASE docs[x] # NoDocument
      BY <1>1, <2>5
    <2> QED
      BY <1>2, <2>2, <2>3, <2>4, <2>5 DEF Alive
  <1> QED
    BY <1>5, <1>6, <1>7, <1>9, <1>10 DEF Counted

\* The write w of the signed-in account was answered: the document is there, or
\* the registration is given up.
Settled(w) ==
    /\ \A u \in Account : docs[u] # NoDocument => docs'[u] # NoDocument
    /\ \A u \in Account : docs'[u] # NoDocument =>
          docs[u] # NoDocument \/ (w.kind = "new" /\ u = w.uid)
    /\ w.kind = "new" => docs'[w.uid] # NoDocument \/ w.uid \in abandoned'
    /\ abandoned \subseteq abandoned'

\* The first write answered, sent or refused.
LEMMA HeadCounted ==
    ASSUME AccountTypes, Counted, auth \in Account, queue[auth] # <<>>,
           NEW w \in PendingWrite, w = queue[auth][1], 1 \in DOMAIN queue[auth],
           queue' = Sent(queue, auth), ToldOf(work, work', w), Settled(w),
           login' = login, changes' = changes, auth' = auth
    PROVE  Counted'
  <1>1. queue \in Queues
    BY DEF AccountTypes
  <1>2. Shorter(queue, queue', auth)
    BY <1>1, QueueSent
  <1>3. Waiting /\ Numbered /\ Known /\ EmailsOwn /\ OneCreator /\ Alive
    BY DEF Counted
  <1>4. Registered' = Registered /\ (auth # Nobody => auth \in Registered)
    BY StillKnown
  <1>5. \A v \in Account : \A k \in DOMAIN queue'[v] :
           /\ k \in Nat \ {0} /\ Before(v, k, auth) \in DOMAIN queue[v]
           /\ queue'[v][k] = queue[v][Before(v, k, auth)]
    BY <1>2 DEF Shorter
  <1>6. \A v \in Account : \A j \in DOMAIN queue[v] :
           ~(v = auth /\ j = 1) => \E k \in DOMAIN queue'[v] : j = Before(v, k, auth)
    BY <1>2 DEF Shorter
  <1>7. \A v \in Account : \A k \in DOMAIN queue'[v] : ~(v = auth /\ Before(v, k, auth) = 1)
    BY <1>5 DEF Before
  <1>a. \A v \in Account : \A k, j \in DOMAIN queue'[v] :
           Before(v, k, auth) = Before(v, j, auth) => k = j
    BY <1>5 DEF Before
  <1>8. /\ DOMAIN work' = DOMAIN work
        /\ \A i \in DOMAIN work : work'[i] = work[i] \/
              (i = w.tap /\ work[i].stage = "writing" /\ work'[i].stage = "written"
                 /\ work'[i].uid = w.uid /\ work[i].uid = w.uid)
        /\ \A i \in DOMAIN work : i # w.tap => work'[i] = work[i]
    BY DEF ToldOf, AllButOne
  <1>9. \A v \in Account : \A k \in DOMAIN queue[v] :
           queue[v][k].tap # 0 /\ queue[v][k].tap = w.tap => v = auth /\ k = 1
    <2>1. \A v, u \in Account : \A k \in DOMAIN queue[v] : \A j \in DOMAIN queue[u] :
             queue[v][k].tap # 0 /\ queue[v][k].tap = queue[u][j].tap => v = u /\ k = j
      BY <1>3 DEF Waiting
    <2> QED
      BY <2>1
  <1>10. Waiting'
    <2>1. \A v \in Account : \A k \in DOMAIN queue[v] : queue[v][k].tap # 0 =>
             /\ queue[v][k].tap \in DOMAIN work
             /\ work[queue[v][k].tap].stage = "writing"
             /\ work[queue[v][k].tap].uid = queue[v][k].uid
      BY <1>3 DEF Waiting
    <2>2. \A v, u \in Account : \A k \in DOMAIN queue[v] : \A j \in DOMAIN queue[u] :
             queue[v][k].tap # 0 /\ queue[v][k].tap = queue[u][j].tap => v = u /\ k = j
      BY <1>3 DEF Waiting
    <2>3. \A v \in Account : \A k \in DOMAIN queue'[v] : queue'[v][k].tap # 0 =>
             /\ queue'[v][k].tap \in DOMAIN work'
             /\ work'[queue'[v][k].tap].stage = "writing"
             /\ work'[queue'[v][k].tap].uid = queue'[v][k].uid
      <3>1. SUFFICES ASSUME NEW v \in Account, NEW k \in DOMAIN queue'[v], queue'[v][k].tap # 0
                     PROVE  /\ queue'[v][k].tap \in DOMAIN work'
                            /\ work'[queue'[v][k].tap].stage = "writing"
                            /\ work'[queue'[v][k].tap].uid = queue'[v][k].uid
        OBVIOUS
      <3>2. PICK j \in DOMAIN queue[v] : j = Before(v, k, auth)
        BY <1>5
      <3>3. queue'[v][k] = queue[v][j] /\ ~(v = auth /\ j = 1)
        BY <1>5, <1>7, <3>2
      <3>4. queue[v][j].tap # w.tap /\ queue[v][j].tap # 0
        BY <1>9, <3>1, <3>3
      <3>5. queue[v][j].tap \in DOMAIN work
        BY <2>1, <3>4
      <3>6. work'[queue[v][j].tap] = work[queue[v][j].tap]
        BY <1>8, <3>4, <3>5
      <3> QED
        BY <1>8, <2>1, <3>3, <3>4, <3>6
    <2>4. \A v, u \in Account : \A k \in DOMAIN queue'[v] : \A j \in DOMAIN queue'[u] :
             queue'[v][k].tap # 0 /\ queue'[v][k].tap = queue'[u][j].tap => v = u /\ k = j
      BY <1>5, <1>a, <2>2
    <2> QED
      BY <2>3, <2>4 DEF Waiting
  <1>11. Numbered'
    BY <1>3, <1>4 DEF Numbered
  <1>12. EmailsOwn'
    BY <1>3, <1>5 DEF EmailsOwn
  <1>13. w.uid \in Registered
    BY <1>3 DEF Known
  <1>14. Known'
    <2>1. \A v \in Account : \A k \in DOMAIN queue'[v] : queue'[v][k].uid \in Registered
      BY <1>3, <1>5 DEF Known
    <2>2. \A i \in DOMAIN work' : work'[i].uid # Nobody => work'[i].uid \in Registered
      BY <1>3, <1>8, <1>13 DEF Known
    <2>3. \A u \in Account : docs'[u] # NoDocument => u \in Registered
      BY <1>3, <1>13 DEF Known, Settled
    <2>4. \A k \in DOMAIN changes' : changes'[k].uid \in Registered
      BY <1>3 DEF Known
    <2> QED
      BY <1>4, <2>1, <2>2, <2>3, <2>4 DEF Known
  <1>15. \A v \in Account : \A k, u : NewAt(v, k, u)' =>
            NewAt(v, Before(v, k, auth), u) /\ ~(v = auth /\ Before(v, k, auth) = 1)
            /\ k \in DOMAIN queue'[v]
    BY <1>5, <1>7 DEF NewAt
  <1>16. \A v \in Account : \A j, u : NewAt(v, j, u) /\ ~(v = auth /\ j = 1) =>
            \E k \in DOMAIN queue'[v] : NewAt(v, k, u)'
    BY <1>5, <1>6 DEF NewAt
  <1>17. \A u : NewAt(auth, 1, u) <=> w.kind = "new" /\ w.uid = u
    BY DEF NewAt
  <1>18. \A i : Creating(i)' <=> Creating(i)
    BY <1>8 DEF Creating
  <1>19. \A i : Creating(i) => work'[i] = work[i]
    BY <1>8 DEF Creating
  <1>20. /\ \A i, j \in DOMAIN work : Creating(i) /\ Creating(j) /\ work[i].uid = work[j].uid => i = j
         /\ \A x, u, v \in Account : \A k, j : NewAt(u, k, x) /\ NewAt(v, j, x) => u = v /\ k = j
         /\ \A x, v \in Account : \A k : NewAt(v, k, x) => docs[x] = NoDocument
    BY <1>3 DEF OneCreator, NewAt
  <1>21. \A i \in DOMAIN work : Creating(i) =>
            /\ docs[work[i].uid] = NoDocument
            /\ \A v \in Account : \A k : ~NewAt(v, k, work[i].uid)
    BY <1>3 DEF OneCreator, NewAt
  <1>22. OneCreator'
    <2>1. \A i, j \in DOMAIN work' : Creating(i)' /\ Creating(j)' /\ work'[i].uid = work'[j].uid => i = j
      BY <1>8, <1>18, <1>19, <1>20
    <2>2. \A x, u, v \in Account : \A k \in DOMAIN queue'[u] : \A j \in DOMAIN queue'[v] :
             NewAt(u, k, x)' /\ NewAt(v, j, x)' => u = v /\ k = j
      <3>1. SUFFICES ASSUME NEW x \in Account, NEW u \in Account, NEW v \in Account, NEW k, NEW j,
                            NewAt(u, k, x)', NewAt(v, j, x)'
                     PROVE  u = v /\ k = j
        OBVIOUS
      <3>2. /\ NewAt(u, Before(u, k, auth), x) /\ k \in DOMAIN queue'[u]
            /\ NewAt(v, Before(v, j, auth), x) /\ j \in DOMAIN queue'[v]
        BY <1>15, <3>1
      <3>3. u = v /\ Before(u, k, auth) = Before(v, j, auth)
        BY <1>20, <3>2
      <3> QED
        BY <1>a, <3>2, <3>3
    <2>3. \A i \in DOMAIN work' : Creating(i)' =>
             /\ docs'[work'[i].uid] = NoDocument
             /\ \A v \in Account : \A k \in DOMAIN queue'[v] : ~NewAt(v, k, work[i].uid)'
      <3>1. SUFFICES ASSUME NEW i \in DOMAIN work', Creating(i)'
                     PROVE  /\ docs'[work'[i].uid] = NoDocument
                            /\ \A v \in Account : \A k \in DOMAIN queue'[v] : ~NewAt(v, k, work[i].uid)'
        OBVIOUS
      <3>2. Creating(i) /\ i \in DOMAIN work /\ work'[i] = work[i]
        BY <1>8, <1>18, <1>19, <3>1
      <3>3. PICK x : x = work[i].uid
        OBVIOUS
      <3>4. docs[x] = NoDocument /\ (\A v \in Account : \A k : ~NewAt(v, k, x))
        BY <1>21, <3>2, <3>3
      <3>5. ~(w.kind = "new" /\ w.uid = x)
        BY <1>17, <3>4
      <3>6. \A v \in Account : \A k : ~NewAt(v, k, x)'
        BY <1>15, <3>4
      <3>7. \A v \in Account : \A k : ~NewAt(v, k, work[i].uid)'
        BY <3>2, <3>3, <3>6 DEF NewAt
      <3>8. x \in Account
        BY <3>2, <3>3, WorkOf DEF Creating, Early
      <3>9. docs'[x] = NoDocument
        BY <3>4, <3>5, <3>8 DEF Settled
      <3> QED
        BY <3>2, <3>3, <3>7, <3>9
    <2>4. \A x, v \in Account : \A k \in DOMAIN queue'[v] : NewAt(v, k, x)' => docs'[x] = NoDocument
      <3>1. SUFFICES ASSUME NEW x \in Account, NEW v \in Account, NEW k, NewAt(v, k, x)'
                     PROVE  docs'[x] = NoDocument
        OBVIOUS
      <3>2. NewAt(v, Before(v, k, auth), x) /\ ~(v = auth /\ Before(v, k, auth) = 1)
        BY <1>15, <3>1
      <3>3. docs[x] = NoDocument
        BY <1>20, <3>2
      <3>4. ~NewAt(auth, 1, x)
        BY <1>20, <3>2
      <3> QED
        BY <1>17, <3>3, <3>4 DEF Settled
    <2> QED
      BY <2>1, <2>2, <2>3, <2>4 DEF OneCreator
  <1>23. Alive'
    <2>1. SUFFICES ASSUME NEW x \in Registered', x \notin abandoned'
                   PROVE  \/ docs'[x] # NoDocument
                          \/ \E v \in Account : \E k \in DOMAIN queue'[v] : NewAt(v, k, x)'
                          \/ \E i \in DOMAIN work' : Creating(i)' /\ work'[i].uid = x
      BY DEF Alive
    <2>2. x \in Registered \ abandoned /\ x \in Account
      BY <1>4, <2>1 DEF Settled, Registered
    <2>3. CASE docs[x] # NoDocument
      BY <2>2, <2>3 DEF Settled
    <2>4. CASE \E v \in Account : \E k \in DOMAIN queue[v] : NewAt(v, k, x)
      <3>1. PICK v \in Account : \E k \in DOMAIN queue[v] : NewAt(v, k, x)
        BY <2>4
      <3>2. PICK k \in DOMAIN queue[v] : NewAt(v, k, x)
        BY <3>1
      <3>3. CASE v = auth /\ k = 1
        BY <1>17, <2>1, <3>2, <3>3 DEF Settled
      <3>4. CASE ~(v = auth /\ k = 1)
        BY <1>16, <3>2, <3>4
      <3> QED
        BY <3>3, <3>4
    <2>5. CASE \E i \in DOMAIN work : Creating(i) /\ work[i].uid = x
      BY <1>8, <1>18, <1>19, <2>5
    <2> QED
      BY <1>3, <2>2, <2>3, <2>4, <2>5 DEF Alive
  <1> QED
    BY <1>10, <1>11, <1>12, <1>14, <1>22, <1>23 DEF Counted

\* So every write answered keeps the accounts counted.
LEMMA WritesCounted ==
    ASSUME AccountTypes, Counted, SendWrite \/ RefuseWrite
    PROVE  Counted'
  <1>w. Waiting
    BY DEF Counted
  <1> DEFINE w == Head(queue[auth])
  <1>1. ASSUME SendWrite PROVE Counted'
    <2>1. /\ auth \in Account /\ queue[auth] # <<>> /\ w \in PendingWrite /\ w = queue[auth][1]
          /\ 1 \in DOMAIN queue[auth] /\ queue' = Sent(queue, auth) /\ ToldOf(work, work', w)
          /\ Applied(w) /\ login' = login /\ changes' = changes /\ auth' = auth
          /\ abandoned' = abandoned
      BY <1>w, <1>1, SendWriteDoes
    <2> HIDE DEF w
    <2>2. w.kind \in {"new", "email"} /\ Written(w) # NoDocument
      BY <2>1, WrittenType DEF PendingWrite
    <2>3. Settled(w)
      BY <2>1, <2>2 DEF Applied, Settled
    <2> QED
      BY <2>1, <2>3, HeadCounted
  <1>2. ASSUME RefuseWrite PROVE Counted'
    <2>1. /\ auth \in Account /\ queue[auth] # <<>> /\ w \in PendingWrite /\ w = queue[auth][1]
          /\ 1 \in DOMAIN queue[auth] /\ queue' = Sent(queue, auth) /\ ToldOf(work, work', w)
          /\ login' = login /\ changes' = changes /\ auth' = auth /\ docs' = docs
          /\ abandoned' = abandoned \cup {w.uid}
      BY <1>w, <1>2, RefuseWriteDoes
    <2> HIDE DEF w
    <2>3. Settled(w)
      BY <2>1 DEF Settled
    <2> QED
      BY <2>1, <2>3, HeadCounted
  <1> QED
    BY <1>1, <1>2

Accounted == AccountTypes /\ Counted

\* Only the old account is there at first, with its document.
LEMMA AccountsInit == Init => Accounted
  <1> SUFFICES ASSUME Init PROVE Accounted
    OBVIOUS
  <1> USE SignUpAssumption DEF Account, Old, Nobody
  <1>1. 1 \in Account /\ Account \subseteq Nat
    OBVIOUS
  <1>2. login \in Logins /\ (\A u \in Account : login[u] # NoAddress <=> u = 1)
    BY <1>1 DEF Init, Logins
  <1>3. /\ docs \in Docs /\ docs[1] # NoDocument
        /\ (\A u \in Account : docs[u] # NoDocument <=> u = 1)
    BY <1>1 DEF Init, Docs, Document, NoDocument
  <1>4. queue \in Queues /\ (\A u \in Account : DOMAIN queue[u] = {})
    <2>1. <<>> \in Seq(PendingWrite) /\ DOMAIN <<>> = {}
      BY EmptySeq
    <2>2. queue = [u \in Account |-> <<>>]
      BY DEF Init
    <2> QED
      BY <2>1, <2>2 DEF Queues
  <1>5. WorkTypes(work) /\ DOMAIN work = {}
    BY DEF Init, WorkTypes
  <1>6. changes \in Changes /\ changes = <<>>
    <2>1. <<>> \in Seq(ChangeOf)
      BY EmptySeq
    <2> QED
      BY <2>1 DEF Init, Changes
  <1>7. model \in ModelOf
    <2>1. <<>> \in Seq(Challenge)
      BY EmptySeq
    <2>2. model = [uid |-> Nobody, loaded |-> FALSE, list |-> <<>>]
      BY DEF Init, NoModel
    <2> QED
      BY <2>1, <2>2 DEF ModelOf
  <1>8. AccountTypes
    <2>1. /\ auth = 1 /\ session = 0 /\ page = "intro" /\ error = FALSE /\ taps = 0
          /\ overlapped = FALSE /\ abandoned = {} /\ apart = {} /\ faults = 0
      BY DEF Init
    <2>2. 0 \in 0..MaxTaps /\ 0 \in 0..MaxFaults
      OBVIOUS
    <2>3. login \in Logins /\ docs \in Docs /\ queue \in Queues /\ changes \in Changes
      BY <1>2, <1>3, <1>4, <1>6
    <2> QED
      BY <1>1, <1>5, <1>7, <2>1, <2>2, <2>3 DEF AccountTypes
  <1>9. Registered = 1..1 /\ 1 \in 1..MaxAccounts /\ Registered = {1}
    <2>1. Registered = {1}
      BY <1>1, <1>2 DEF Registered
    <2>2. 1..1 = {1} /\ 1 \in 1..MaxAccounts
      OBVIOUS
    <2> QED
      BY <2>1, <2>2
  <1>10. Numbered
    BY <1>9 DEF Numbered
  <1>11. Known
    BY <1>3, <1>4, <1>5, <1>6, <1>9 DEF Init, Known
  <1>12. Waiting /\ EmailsOwn /\ OneCreator
    BY <1>4, <1>5 DEF Waiting, EmailsOwn, OneCreator, NewAt
  <1>13. Alive
    BY <1>3, <1>9 DEF Alive
  <1> QED
    BY <1>8, <1>10, <1>11, <1>12, <1>13 DEF Accounted, Counted

\* The steps of the accounts, one by one.
LEMMA AccountSteps ==
    ASSUME AccountStep
    PROVE  \/ GoBack \/ SignOut \/ \E p \in {"login", "details"} : OpenPage(p)
           \/ \E kind \in {"register", "signin"} : \E a \in Address :
                 Begin(kind, a) /\ (error' = error \/ error' = FALSE)
                 /\ page = (IF kind = "register" THEN "details" ELSE "login")
                 /\ (kind = "register" => \A i \in DOMAIN work : work[i].shown => work[i].address = a)
           \/ \E a \in Address : ChangeEmail(a)
           \/ \E t \in DOMAIN work : CreateLogin(t)
           \/ \E t \in DOMAIN work :
                 RefuseLogin(t) \/ RefuseSignIn(t) \/ LoseLogin(t) \/ LoseUpload(t) \/ LoseAnswer(t)
           \/ \E t \in DOMAIN work : TakeLogin(t)
           \/ \E t \in DOMAIN work : Upload(t) /\ auth = Nobody
           \/ \E t \in DOMAIN work : Upload(t) /\ auth # Nobody
           \/ \E t \in DOMAIN work : FinishRegistration(t) \/ AcceptSignIn(t)
           \/ \E t \in DOMAIN work : AnswerFetch(t) \/ \E c \in Challenge : LookUp(t, c)
           \/ \E t \in DOMAIN work : FinishFetch(t)
           \/ SendWrite \/ RefuseWrite
           \/ \E k \in DOMAIN changes : AnswerChange(k)
           \/ End \/ Aside
  <1>1. CASE UserStep
    <2>1. ASSUME NEW a \in Address, Complete(a)
          PROVE  Begin("register", a) /\ error' = error /\ page = "details"
                 /\ \A i \in DOMAIN work : work[i].shown => work[i].address = a
      BY <2>1 DEF Complete
    <2>2. ASSUME NEW a \in Address, SignIn(a)
          PROVE  Begin("signin", a) /\ error' = FALSE /\ page = "login"
      BY <2>2 DEF SignIn
    <2> QED
      BY <1>1, <2>1, <2>2 DEF UserStep
  <1>2. CASE NetworkStep
    BY <1>2 DEF NetworkStep, Answer
  <1>3. CASE Loss
    BY <1>3 DEF Loss
  <1> QED
    BY <1>1, <1>2, <1>3 DEF AccountStep

\* One step of every kind.
LEMMA AccountsStep ==
    ASSUME Accounted, AccountStep
    PROVE  Accounted'
  <1>1. AccountTypes /\ Counted /\ Waiting
    BY DEF Accounted, Counted
  <1>2. CASE GoBack \/ SignOut \/ \E p \in {"login", "details"} : OpenPage(p)
    BY <1>1, <1>2, PagesDo, PagesCounted DEF Accounted
  <1>3. ASSUME NEW kind \in {"register", "signin"}, NEW a \in Address,
               Begin(kind, a), error' = error \/ error' = FALSE
        PROVE  Accounted'
    <2>1. error' \in BOOLEAN
      BY <1>1, <1>3 DEF AccountTypes
    <2> QED
      BY <1>1, <1>3, <2>1, BeginDoes, BeginCounted DEF Accounted
  <1>4. ASSUME NEW a \in Address, ChangeEmail(a) PROVE Accounted'
    BY <1>1, <1>4, ChangeEmailDoes, ChangeEmailCounted DEF Accounted
  <1>5. ASSUME NEW t \in DOMAIN work, CreateLogin(t) PROVE Accounted'
    BY <1>1, <1>5, CreateLoginDoes, CreateLoginCounted DEF Accounted
  <1>6. ASSUME NEW t \in DOMAIN work,
               RefuseLogin(t) \/ RefuseSignIn(t) \/ LoseLogin(t) \/ LoseUpload(t) \/ LoseAnswer(t)
        PROVE  Accounted'
    BY <1>1, <1>6, LossesDo, LossesCounted DEF Accounted
  <1>7. ASSUME NEW t \in DOMAIN work, TakeLogin(t) PROVE Accounted'
    BY <1>1, <1>7, TakeLoginDoes, TakeLoginCounted DEF Accounted
  <1>8. ASSUME NEW t \in DOMAIN work, Upload(t) PROVE Accounted'
    <2>1. CASE auth = Nobody
      BY <1>1, <1>8, <2>1, UploadStops, UploadStopsCounted DEF Accounted
    <2>2. CASE auth # Nobody
      BY <1>1, <1>8, <2>2, UploadQueues, UploadQueuesCounted DEF Accounted
    <2> QED
      BY <2>1, <2>2
  <1>9. ASSUME NEW t \in DOMAIN work, FinishRegistration(t) \/ AcceptSignIn(t) PROVE Accounted'
    BY <1>1, <1>9, FetchBegins, FetchBeginsCounted DEF Accounted
  <1>10. ASSUME NEW t \in DOMAIN work, AnswerFetch(t) \/ \E c \in Challenge : LookUp(t, c)
         PROVE  Accounted'
    <2>1. AccountTypes'
      BY <1>1, <1>10, AnswerFetchDoes, LookUpDoes
    <2> QED
      BY <1>1, <1>10, <2>1, AnswersCounted DEF Accounted
  <1>11. ASSUME NEW t \in DOMAIN work, FinishFetch(t) PROVE Accounted'
    BY <1>1, <1>11, FinishFetchDoes, FinishFetchCounted DEF Accounted
  <1>12. ASSUME SendWrite \/ RefuseWrite PROVE Accounted'
    BY <1>1, <1>12, SendWriteDoes, RefuseWriteDoes, WritesCounted DEF Accounted
  <1>13. ASSUME NEW k \in DOMAIN changes, AnswerChange(k) PROVE Accounted'
    BY <1>1, <1>13, AnswerChangeDoes, AnswerChangeCounted DEF Accounted
  <1>14. CASE End
    BY <1>1, <1>14, EndDoes, EndCounted DEF Accounted
  <1>15. CASE Aside
    BY <1>1, <1>15, AsideDoes, AsideCounted DEF Accounted
  <1> QED
    BY <1>2, <1>3, <1>4, <1>5, <1>6, <1>7, <1>8, <1>9, <1>10, <1>11, <1>12, <1>13, <1>14, <1>15,
       AccountSteps

\* The steps of SignUp alone and those of the app.
LEMMA AccountsNext ==
    ASSUME Accounted, [StartNext]_<<account, catalogue>> \/ [Next]_vars
    PROVE  Accounted' /\ AccountStep
  <1>1. taps \in 0..MaxTaps
    BY DEF Accounted, AccountTypes
  <1>2. AccountStep
    BY <1>1, StepsOfAccounts
  <1> QED
    BY <1>2, AccountsStep

\* Every account is counted in every state of SignUp.
THEOREM AccountsInvariant == Spec => []Accounted
  <1>1. Accounted /\ [Next]_vars => Accounted'
    BY AccountsNext
  <1> QED
    BY <1>1, AccountsInit, PTL DEF Spec

\* ... and of the app.
THEOREM AppAccountsInvariant == StartSpec => []Accounted
  <1>1. Accounted /\ [StartNext]_<<account, catalogue>> => Accounted'
    BY AccountsNext
  <1>2. StartInit => Accounted
    BY AccountsInit DEF StartInit
  <1> QED
    BY <1>1, <1>2, PTL DEF StartSpec

\* The elements of a list of S are of S.
LEMMA RangeOf ==
    ASSUME NEW S, NEW s \in Seq(S)
    PROVE  Range(s) \subseteq S
  <1>1. \A i \in DOMAIN s : s[i] \in S
    OBVIOUS
  <1> QED
    BY <1>1 DEF Range

\* The type invariant that TLC checks.
LEMMA TypesFollow == AccountTypes => TypeOK
  <1> SUFFICES ASSUME AccountTypes PROVE TypeOK
    OBVIOUS
  <1>1. \A u \in Account : Range(queue[u]) \subseteq PendingWrite
    <2> TAKE u \in Account
    <2>1. queue[u] \in Seq(PendingWrite)
      BY QueueElements DEF AccountTypes
    <2> QED
      BY <2>1, RangeOf
  <1>2. model.uid \in Account \cup {Nobody} /\ model.loaded \in BOOLEAN /\ model.list \in Seq(Challenge)
    BY DEF AccountTypes, ModelOf
  <1>3. Range(model.list) \subseteq Challenge
    BY <1>2, RangeOf
  <1>4. \A t \in DOMAIN work :
          /\ [work[t] EXCEPT !.list = <<>>]
                \in [kind: {"register", "signin"}, address: Address,
                    uid: Account \cup {Nobody}, stage: Stage, shown: BOOLEAN,
                    current: BOOLEAN, image: BOOLEAN,
                    left: SUBSET Challenge,
                    list: {<<>>}]
          /\ Range(work[t].list) \subseteq Challenge
    <2> TAKE t \in DOMAIN work
    <2>1. work[t] \in Work /\ work[t].list \in Seq(Challenge)
      BY WorkOf
    <2>2. Range(work[t].list) \subseteq Challenge
      BY <2>1, RangeOf
    <2> DEFINE r == work[t]
    <2> HIDE DEF r
    <2>3. r \in Work
      BY <2>1 DEF r
    <2>4. [r EXCEPT !.list = <<>>]
                \in [kind: {"register", "signin"}, address: Address,
                    uid: Account \cup {Nobody}, stage: Stage, shown: BOOLEAN,
                    current: BOOLEAN, image: BOOLEAN,
                    left: SUBSET Challenge,
                    list: {<<>>}]
      BY <2>3 DEF Work
    <2> QED
      BY <2>2, <2>4 DEF r
  <1>5. \A k \in DOMAIN changes :
          changes[k] \in [uid: Account, email: Address, session: 0..MaxTaps]
    <2>1. changes \in Seq(ChangeOf)
      BY DEF AccountTypes, Changes
    <2>2. \A k \in DOMAIN changes : changes[k] \in ChangeOf
      BY <2>1
    <2> QED
      BY <2>2 DEF ChangeOf
  <1>6. login \in [Account -> Address \cup {NoAddress}] /\ docs \in [Account -> Document \cup {NoDocument}]
    BY DEF AccountTypes, Logins, Docs
  <1>7. /\ auth \in Account \cup {Nobody} /\ session \in 0..MaxTaps
        /\ page \in {"intro", "login", "details", "home"} /\ error \in BOOLEAN
        /\ DOMAIN work \subseteq 1..taps /\ taps \in 0..MaxTaps /\ overlapped \in BOOLEAN
        /\ abandoned \subseteq Account /\ apart \subseteq Account /\ faults \in 0..MaxFaults
    BY DEF AccountTypes
  <1> QED
    BY <1>1, <1>2, <1>3, <1>4, <1>5, <1>6, <1>7 DEF TypeOK

\* Types: every variable of the app stays in its type, the lists of any length
\* included.
THEOREM StartTypesHold == StartSpec => []StartTypeOK
  <1>1. Accounted /\ ListsInv => StartTypeOK
    BY TypesFollow DEF Accounted, ListsInv, StartTypeOK
  <1> QED
    BY <1>1, AppAccountsInvariant, ListsInvariant, PTL

\* That every account is counted is what LoginsGetDocuments says of a state.
LEMMA AccountsLive == Accounted => LoginsGetDocuments
  <1> SUFFICES ASSUME Accounted, NEW u \in Account
               PROVE  LET given == docs[u] # NoDocument \/ QueuedFor(u, "new") # {} IN
                      /\ u \in Registered \ abandoned =>
                            given \/ \E t \in DOMAIN work :
                                        work[t].uid = u /\ work[t].stage \in {"created", "uploading"}
                      /\ given => u \in Registered
    BY DEF LoginsGetDocuments
  <1>1. QueuedFor(u, "new") # {} <=> \E v \in Account : \E k \in DOMAIN queue[v] : NewAt(v, k, u)
    BY DEF QueuedFor, NewAt, Range
  <1>2. Known /\ Alive
    BY DEF Accounted, Counted
  <1>3. u \in Registered \ abandoned =>
           \/ docs[u] # NoDocument
           \/ \E v \in Account : \E k \in DOMAIN queue[v] : NewAt(v, k, u)
           \/ \E t \in DOMAIN work : work[t].uid = u /\ work[t].stage \in {"created", "uploading"}
    BY <1>2 DEF Alive, Creating
  <1>4. docs[u] # NoDocument => u \in Registered
    BY <1>2 DEF Known
  <1>5. (\E v \in Account : \E k \in DOMAIN queue[v] : NewAt(v, k, u)) => u \in Registered
    BY <1>2 DEF Known, NewAt
  <1> QED
    BY <1>1, <1>3, <1>4, <1>5

\* In the app a login whose registration was not given up has its document, at the
\* server, queued, or still to be brought by one chain; no document is without login.
THEOREM EveryLoginGetsADocument == StartSpec => []LoginsGetDocuments
  BY AccountsLive, AppAccountsInvariant, PTL

\* The same of SignUp alone: createUser makes the login long before addUser sets
\* the document, and every chain in between may be cut off.
THEOREM SignUpGivesDocuments == Spec => []LoginsGetDocuments
  BY AccountsLive, AccountsInvariant, PTL

\* Only a write sent changes a document.
LEMMA DocumentsChange ==
    ASSUME AccountStep
    PROVE  docs' = docs \/ SendWrite
  <1> USE DEF cloud
  <1>1. CASE UserStep
    BY <1>1 DEF UserStep, OpenPage, GoBack, Complete, SignIn, Begin, ChangeEmail, SignOut
  <1>2. ASSUME NEW t, Answer(t) PROVE docs' = docs
    BY <1>2 DEF Answer, CreateLogin, RefuseLogin, TakeLogin, Upload, AddUser, FinishRegistration,
       AcceptSignIn, RefuseSignIn, AnswerFetch, FinishFetch, LookUp
  <1>3. ASSUME RefuseWrite \/ \E k \in DOMAIN changes : AnswerChange(k) PROVE docs' = docs
    BY <1>3 DEF RefuseWrite, AnswerChange
  <1>4. CASE NetworkStep
    BY <1>2, <1>3, <1>4 DEF NetworkStep
  <1>5. CASE Loss
    BY <1>5 DEF Loss, LoseLogin, LoseUpload, LoseAnswer
  <1>6. CASE End \/ Aside
    BY <1>6 DEF End, Aside
  <1> QED
    BY <1>1, <1>4, <1>5, <1>6 DEF AccountStep

\* A document keeps its challenges and its image; one that is set for the first
\* time has no challenges.
Kept ==
    \A u \in Account :
       /\ docs'[u].running = docs[u].running
       /\ docs[u] # NoDocument => docs'[u] # NoDocument /\ docs'[u].image = docs[u].image

\* No step empties a document's challenges or replaces its image.
LEMMA DocumentsKept ==
    ASSUME Accounted, AccountStep
    PROVE  Kept
  <1>1. CASE docs' = docs
    BY <1>1 DEF Kept
  <1>2. CASE SendWrite
    <2> DEFINE w == Head(queue[auth])
    <2>1. AccountTypes /\ Waiting /\ OneCreator
      BY DEF Accounted, Counted
    <2>2. /\ auth \in Account /\ w \in PendingWrite /\ w = queue[auth][1] /\ 1 \in DOMAIN queue[auth]
          /\ Applied(w)
      BY <1>2, <2>1, SendWriteDoes
    <2> HIDE DEF w
    <2>3. w.kind = "new" => docs[w.uid] = NoDocument
      BY <2>1, <2>2 DEF OneCreator, NewAt, PendingWrite
    <2>4. w.kind \in {"new", "email"} /\ w.uid \in Account
      BY <2>2 DEF PendingWrite
    <2>5. Written(w).running = {} /\ NoDocument.running = {}
      BY DEF Written, NoDocument
    <2>6. CASE w.kind = "new"
      BY <2>2, <2>3, <2>5, <2>6 DEF Applied, Kept
    <2>7. CASE w.kind = "email"
      BY <2>2, <2>7 DEF Applied, Kept
    <2> QED
      BY <2>4, <2>6, <2>7
  <1> QED
    BY <1>1, <1>2, DocumentsChange

\* The action that NeverReset asks of every step.
Remains ==
    \A u \in Account : docs[u] # NoDocument =>
        docs'[u].running = docs[u].running /\ docs'[u].image = docs[u].image

\* Every step of SignUp alone and of the app is such.
LEMMA StepsRemain ==
    ASSUME Accounted, [StartNext]_<<account, catalogue>> \/ [Next]_vars
    PROVE  Remains
  <1>1. Kept
    BY AccountsNext, DocumentsKept
  <1> QED
    BY <1>1 DEF Kept, Remains

\* addUser's setData never meets a document that exists, whatever chains overlap and
\* whatever waits in a queue, in SignUp alone ...
THEOREM SignUpResetsNothing == Spec => NeverReset
  <1>1. Accounted /\ [Next]_vars => [Remains]_vars
    BY StepsRemain
  <1>2. Spec => [][Remains]_vars
    BY <1>1, AccountsInvariant, PTL DEF Spec
  <1> QED
    BY <1>2 DEF Remains, NeverReset

\* ... and in the app.
THEOREM DocumentsAreNotReset == StartSpec => NeverReset
  <1>1. Accounted /\ [StartNext]_<<account, catalogue>> => [Remains]_vars
    BY StepsRemain
  <1>2. StartSpec => [][Remains]_vars
    BY <1>1, AppAccountsInvariant, PTL DEF StartSpec
  <1> QED
    BY <1>2 DEF Remains, NeverReset
===========================================================================
