----------------------------- MODULE Catalogue -----------------------------
(***************************************************************************)
(* The two lists that the app loads once per process, at launch, and the   *)
(* pages of the home screen that copy them: the categories of BROWSE and   *)
(* the rewards of REWARDS, with the filter sheet of the latter.            *)
(***************************************************************************)
EXTENDS Integers, Sequences, FiniteSets, SequencesExt

CONSTANTS
    Category,   \* documents of "categories"
    Reward,     \* documents of "rewards"
    Price,      \* Price[r]: the price of reward r
    Level       \* bound: positions of the slider's handles

minValue == 0       \* of CustomModal
maxValue == 800

\* What the constants are; assumed where they get their values.
CatalogueConstants ==
    /\ Price \in [Reward -> Int]
    /\ {minValue, maxValue} \subseteq Level /\ Level \subseteq minValue..maxValue

VARIABLES
    listing,    \* the query for the categories is under way
    pending,    \* categories whose challenges are being asked for
    failed,     \* categories whose query ended with an error (history)
    categories, \* CategoryViewModel.categories
    offered,    \* the query for the rewards is under way
    rewards,    \* RewardViewModel.rewards
    browse,     \* BrowseViewController.categories, NoPage before viewDidLoad
    store,      \* RewardViewController.rewards, NoStore before viewDidLoad
    slider,     \* what the price label prints: the handles of the slider
    filter      \* CustomModal.rewardsFilters, the price part

lists == <<listing, pending, failed, categories, offered, rewards>>
pages == <<browse, store, slider, filter>>
vars == <<lists, pages>>

NoPage == [open |-> FALSE, shown |-> <<>>]
NoStore == [open |-> FALSE, shown |-> {}]
Page(s) == [open |-> TRUE, shown |-> s]

Interval(lo, hi) == [min |-> lo, max |-> hi]
FullRange == Interval(minValue, maxValue)

InRange(f) == {r \in Reward : f.min <= Price[r] /\ Price[r] <= f.max}

-----------------------------------------------------------------------------
Lists ==
    /\ listing = TRUE
    /\ pending = {}
    /\ failed = {}
    /\ categories = <<>>
    /\ offered = TRUE
    /\ rewards = {}

Pages ==
    /\ browse = NoPage
    /\ store = NoStore
    /\ slider = FullRange
    /\ filter = FullRange

\* The application delegate creates the view models.
Init == Lists /\ Pages

\* The process starts again: new view models, no pages.
Relaunch ==
    /\ listing' = TRUE
    /\ pending' = {}
    /\ failed' = {}
    /\ categories' = <<>>
    /\ offered' = TRUE
    /\ rewards' = {}
    /\ browse' = NoPage
    /\ store' = NoStore
    /\ slider' = FullRange
    /\ filter' = FullRange

\* NavigationBarHome: new tabs, with a filter sheet of their own; the lists of
\* the process stay.
NewHome ==
    /\ browse' = NoPage
    /\ store' = NoStore
    /\ slider' = FullRange
    /\ filter' = FullRange
    /\ UNCHANGED lists

-----------------------------------------------------------------------------
(* Answers.                                                                *)

\* fetchCategories: one query of challenges per category; an error, or an
\* empty cache when offline, gives none and is not asked again.
AnswerCategories(found) ==
    /\ listing
    /\ found \in {Category, {}}
    /\ listing' = FALSE
    /\ pending' = found
    /\ UNCHANGED <<failed, categories, offered, rewards, pages>>

\* Fault: the category is appended before its challenges are known, and again
\* with them.
AnswerChallengesTwice(c) ==
    /\ c \in pending
    /\ pending' = pending \ {c}
    /\ categories' = categories \o <<c, c>>
    /\ UNCHANGED <<listing, failed, offered, rewards, pages>>

\* getAllChallenges: the category is appended when its challenges arrive.
AnswerChallenges(c) ==
    /\ c \in pending
    /\ pending' = pending \ {c}
    /\ categories' = Append(categories, c)
    /\ UNCHANGED <<listing, failed, offered, rewards, pages>>

\* ... and left out for good if the query fails.
FailChallenges(c) ==
    /\ c \in pending
    /\ pending' = pending \ {c}
    /\ failed' = failed \cup {c}
    /\ UNCHANGED <<listing, categories, offered, rewards, pages>>

\* fetchAllRewards.
AnswerRewards(found) ==
    /\ offered
    /\ found \in {Reward, {}}
    /\ offered' = FALSE
    /\ rewards' = found
    /\ UNCHANGED <<listing, pending, failed, categories, pages>>

-----------------------------------------------------------------------------
(* Taps.                                                                   *)

\* Fault: the page takes the category asked for last first.
OpenBrowseReversed ==
    /\ ~browse.open
    /\ categories # <<>>
    /\ browse' = Page(Reverse(categories))
    /\ UNCHANGED <<lists, store, slider, filter>>

\* The CHALLENGES tab loads both of its pages when it is first opened; BROWSE
\* copies the categories there are and reads the first.
OpenBrowse ==
    /\ ~browse.open
    /\ categories # <<>>
    /\ browse' = Page(categories)
    /\ UNCHANGED <<lists, store, slider, filter>>

\* ... which traps when there is none yet.
BrowseTraps == ~browse.open /\ categories = <<>>

\* viewDidLoad of REWARDS copies the rewards there are.
OpenStore ==
    /\ ~store.open
    /\ store' = Page(rewards)
    /\ UNCHANGED <<lists, browse, slider, filter>>

\* Fault: a bound of the filter is taken only while its handle is off its end.
MoveSliderOffEnds(lo, hi) ==
    /\ store.open /\ lo <= hi
    /\ slider' = Interval(lo, hi)
    /\ filter' = [min |-> IF lo # minValue THEN lo ELSE filter.min,
                  max |-> IF hi # maxValue THEN hi ELSE filter.max]
    /\ UNCHANGED <<lists, browse, store>>

\* rangeValueChange prints both handles; the tests that guard the filter are
\* both made on the upper one.
MoveSlider(lo, hi) ==
    /\ store.open /\ lo <= hi
    /\ slider' = Interval(lo, hi)
    /\ filter' = [min |-> IF hi # minValue THEN lo ELSE filter.min,
                  max |-> IF hi # maxValue THEN hi ELSE filter.max]
    /\ UNCHANGED <<lists, browse, store>>

\* applyFilters: fetchFilteredRewards (neither category nor type is on the
\* sheet) and updateRewards.
ApplyFilter ==
    /\ store.open
    /\ store' = Page(rewards \cap InRange(filter))
    /\ UNCHANGED <<lists, browse, slider, filter>>

-----------------------------------------------------------------------------
Answer ==
    \/ AnswerCategories(Category)
    \/ \E c \in Category : AnswerChallenges(c)
    \/ AnswerRewards(Reward)

Failure ==
    \/ AnswerCategories({})
    \/ \E c \in Category : FailChallenges(c)
    \/ AnswerRewards({})

Open == OpenBrowse \/ OpenStore \/ ApplyFilter

Slide == \E lo, hi \in Level : MoveSlider(lo, hi)

-----------------------------------------------------------------------------
TypeOK ==
    /\ listing \in BOOLEAN /\ offered \in BOOLEAN
    /\ pending \subseteq Category /\ failed \subseteq Category
    /\ Range(categories) \subseteq Category
    /\ rewards \subseteq Reward
    /\ browse.open \in BOOLEAN /\ store.open \in BOOLEAN
    /\ slider \in [min: Level, max: Level] /\ filter \in [min: Level, max: Level]

\* The list fills in the order of the answers: each category comes once, and
\* none is missing but those not answered yet or answered with an error.
CategoriesOnce ==
    /\ IsInjective(categories)
    /\ Range(categories) \cap (pending \cup failed) = {}
    /\ Range(categories) \cup pending \cup failed \in {{}, Category}

\* BROWSE copies the list while it fills; what it shows is then always the
\* beginning of the list, never empty, and a row tapped is the category shown.
BrowseIsPrefix == browse.open => browse.shown # <<>> /\ IsPrefix(browse.shown, categories)

\* APPLY shows every reward loaded whose price is in the range the label prints,
\* wherever the handles were before and whatever was shown.  Not so while the
\* upper handle is at one of the ends: the filter then keeps a bound of before.
ShownAsPrinted ==
    [][store.open /\ store'.open /\ store' # store
       /\ slider.max \notin {minValue, maxValue}
          => store'.shown = rewards \cap InRange(slider)]_vars
=============================================================================
