------------------------------ MODULE AppStart ------------------------------
(***************************************************************************)
(* The app from its launch to its home page: SignUp decides which page is  *)
(* shown and when the process ends, Catalogue what the pages of the home   *)
(* screen list.                                                            *)
(***************************************************************************)
EXTENDS SignUp

CONSTANTS Category, Reward, Price, Level

VARIABLES
    listing, pending, failed, categories, offered, rewards,
    browse, store, slider, filter

Lists == INSTANCE Catalogue

ASSUME StartAssumption == Lists!CatalogueConstants

catalogue == <<listing, pending, failed, categories, offered, rewards,
               browse, store, slider, filter>>
account == vars

StartInit == Init /\ Lists!Init

\* The home page that appears is a new NavigationBarHome; signing out replaces
\* the one that was there.
Presenting ==
    IF (page = "home") # (page' = "home") THEN Lists!NewHome ELSE UNCHANGED catalogue

Living ==
    \/ UserStep /\ Presenting
    \/ NetworkStep /\ Presenting
    \/ Loss /\ UNCHANGED catalogue

Dying == Death /\ Lists!Relaunch

\* Bound: nothing but the pages reads the lists, so their answers, and the taps
\* on the pages, are taken when the work of the account is done.
AtRest ==
    /\ page = "home"
    /\ work = <<>> /\ changes = <<>>
    /\ auth # Nobody => queue[auth] = <<>>

ListsArrive ==
    /\ AtRest
    /\ \/ Lists!Answer /\ UNCHANGED faults
       \/ Lists!Failure /\ Fault
    /\ UNCHANGED <<cloud, client, identity, model, screen, work, taps, history>>

OpenTabs ==
    /\ AtRest
    /\ Lists!Open
    /\ UNCHANGED account

MoveHandles ==
    /\ AtRest
    /\ taps < MaxTaps
    /\ taps' = taps + 1
    /\ Lists!Slide
    /\ UNCHANGED <<cloud, client, identity, model, screen, work, history, faults>>

\* categories[0] of an empty list.
BrowseTraps ==
    /\ AtRest
    /\ Lists!BrowseTraps
    /\ Die
    /\ UNCHANGED <<cloud, auth, taps, overlapped, faults>>
    /\ Lists!Relaunch

StartNext == Living \/ Dying \/ ListsArrive \/ OpenTabs \/ MoveHandles \/ BrowseTraps

\* As in SignUp: answers come and callbacks run.
StartProgress ==
    WF_<<account, catalogue>>((NetworkStep /\ Presenting) \/ (TrapStep /\ Lists!Relaunch))

StartSpec == StartInit /\ [][StartNext]_<<account, catalogue>> /\ StartProgress

-----------------------------------------------------------------------------
\* Types of both parts.
StartTypeOK == TypeOK /\ Lists!TypeOK

\* The properties of Catalogue, in whatever order sessions begin and end.
CategoriesOnce == Lists!CategoriesOnce
BrowseIsPrefix == Lists!BrowseIsPrefix
ShownAsPrinted == Lists!ShownAsPrinted
=============================================================================
