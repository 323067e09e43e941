----------------------------- MODULE BrowserTabs -----------------------------
(***************************************************************************)
(* open() of LuanMac/NativeChromeMCP.swift, after ensureChrome: which tab  *)
(* of the browser shows a page that is asked for.  The calls run on the    *)
(* main actor and give it up while the browser answers, so the list a call *)
(* decides on may be old.  The browser and its user are external.          *)
(***************************************************************************)
EXTENDS FiniteSets

CONSTANTS
    Tabs,      \* the tabs there may be
    Openers,   \* calls of open() that may run at the same time
    Pages,     \* the addresses that are opened
    Origin     \* the origin of each

Closed == "closed"
Blank == "blank"

ASSUME TabAssumption ==
    /\ Tabs # {} /\ Pages # {} /\ {Closed, Blank} \cap Pages = {}
    /\ Origin \in [Pages -> Pages]

VARIABLES
    tab,        \* what each tab shows
    opening,    \* where each call is
    wanted,     \* the page it opens
    listed,     \* the tabs as the browser listed them
    opened,     \* what it returned last: TRUE, or FALSE also before
    entwined,   \* history: calls have overlapped
    browsed,    \* history: tabs have changed otherwise
    replaced    \* history: a call has navigated a tab that showed a page

tabVars == <<tab, opening, wanted, listed, opened, entwined, browsed, replaced>>

Contents == Pages \cup {Closed, Blank}

NoTabs == [t \in Tabs |-> Closed]

TabTypeOK ==
    /\ tab \in [Tabs -> Contents]
    /\ opening \in [Openers -> {"no", "listing", "deciding"}]
    /\ wanted \in [Openers -> Pages]
    /\ listed \in [Openers -> [Tabs -> Contents]]
    /\ opened \in [Openers -> BOOLEAN]
    /\ {entwined, browsed, replaced} \subseteq BOOLEAN

Shows(view, o) == {t \in Tabs : view[t] \in Pages /\ Origin[view[t]] = Origin[wanted[o]]}

Distinct(view) ==
    \A t, u \in Tabs : t # u /\ {view[t], view[u]} \subseteq Pages => Origin[view[t]] # Origin[view[u]]

\* A fresh browser, or one that already shows pages.
TabInit ==
    /\ tab \in {v \in [Tabs -> Contents] : Distinct(v)}
    /\ opening = [o \in Openers |-> "no"]
    /\ wanted = [o \in Openers |-> CHOOSE p \in Pages : TRUE]
    /\ listed = [o \in Openers |-> NoTabs]
    /\ opened = [o \in Openers |-> FALSE]
    /\ entwined = FALSE /\ browsed = FALSE /\ replaced = FALSE

\* As a bound, no call begins any more after an overlap or a disturbance.
BeginOpen(o, p) ==
    /\ ~entwined /\ ~browsed
    /\ opening[o] = "no"
    /\ opening' = [opening EXCEPT ![o] = "listing"]
    /\ wanted' = [wanted EXCEPT ![o] = p]
    /\ opened' = [opened EXCEPT ![o] = FALSE]
    /\ entwined' = (entwined \/ \E q \in Openers \ {o} : opening[q] # "no")
    /\ UNCHANGED <<tab, listed, browsed, replaced>>

FetchPages(o) ==
    /\ opening[o] = "listing"
    /\ opening' = [opening EXCEPT ![o] = "deciding"]
    /\ listed' = [listed EXCEPT ![o] = tab]
    /\ UNCHANGED <<tab, wanted, opened, entwined, browsed, replaced>>

Leave(o, result) ==
    /\ opening' = [opening EXCEPT ![o] = "no"]
    /\ opened' = [opened EXCEPT ![o] = result]
    /\ listed' = [listed EXCEPT ![o] = NoTabs]
    /\ UNCHANGED <<wanted, entwined, browsed>>

\* The browser has done it; its answer may be lost.
Answered(o) == Leave(o, TRUE) \/ Leave(o, FALSE)

\* The browser knows the tab no more.
Refused(o) == Leave(o, FALSE) /\ UNCHANGED <<tab, replaced>>

\* The first tab of the list with that origin: the list has any order.
Activate(o) ==
    /\ opening[o] = "deciding"
    /\ \E t \in Shows(listed[o], o) :
        IF tab[t] = Closed THEN Refused(o) ELSE Leave(o, TRUE) /\ UNCHANGED <<tab, replaced>>

\* Mutant: a blank tab is taken before one that shows the page.
NavigateFirst(o) ==
    /\ opening[o] = "deciding"
    /\ \E t \in Tabs :
        /\ listed[o][t] = Blank
        /\ tab[t] # Closed /\ Answered(o)
        /\ tab' = [tab EXCEPT ![t] = wanted[o]]
        /\ replaced' = (replaced \/ tab[t] # Blank)

NavigateBlank(o) ==
    /\ opening[o] = "deciding" /\ Shows(listed[o], o) = {}
    /\ \E t \in Tabs :
        /\ listed[o][t] = Blank
        /\ IF tab[t] = Closed THEN Refused(o)
           ELSE /\ Answered(o)
                /\ tab' = [tab EXCEPT ![t] = wanted[o]]
                /\ replaced' = (replaced \/ tab[t] # Blank)

CreatePage(o) ==
    /\ opening[o] = "deciding" /\ Shows(listed[o], o) = {}
    /\ \A t \in Tabs : listed[o][t] # Blank
    /\ \E t \in Tabs : tab[t] = Closed /\ tab' = [tab EXCEPT ![t] = wanted[o]]
    /\ Answered(o) /\ UNCHANGED replaced

\* The browser has gone, or does not answer in time.
OpenFails(o) == opening[o] # "no" /\ Refused(o)

\* The user, or a page itself, changes what a tab shows: once, as a bound.
Browse(t, c) ==
    /\ ~browsed
    /\ c # tab[t]
    /\ tab' = [tab EXCEPT ![t] = c]
    /\ browsed' = TRUE
    /\ UNCHANGED <<opening, wanted, listed, opened, entwined, replaced>>

TabNext ==
    \/ \E o \in Openers, p \in Pages : BeginOpen(o, p)
    \/ \E o \in Openers :
        FetchPages(o) \/ Activate(o) \/ NavigateBlank(o) \/ CreatePage(o) \/ OpenFails(o)
    \/ \E t \in Tabs, c \in Contents : Browse(t, c)

-------------------------------------------------------------------------------
(* Properties. *)

\* NativeChromeMCP.swift 145-172: calls one after the other, in a browser that
\* nobody else uses, never show an origin in two tabs nor navigate a tab that
\* shows a page, and what a call has opened is shown.  The list is read before
\* an await and used after it: calls that overlap break all three.
OpensOneTab ==
    ~entwined /\ ~browsed =>
        /\ Distinct(tab)
        /\ ~replaced
        /\ \A o \in Openers : opened[o] => Shows(tab, o) # {}
==============================================================================
