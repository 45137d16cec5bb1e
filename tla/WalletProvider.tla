----------------------------- MODULE WalletProvider -----------------------------
(***************************************************************************)
(* The wallet state of AxionveraProvider (packages/react/src/index.ts,     *)
(* freighterWalletConnector.ts): connecting, refreshing (when mounted, on  *)
(* focus and on call) and the watcher each set it, and nothing orders      *)
(* their answers.                                                          *)
(*                                                                         *)
(* The wallet, Freighter or another connector, is external: its user       *)
(* installs it, allows access and changes accounts.  The two queries of    *)
(* availability are taken for one; the state is what it is when a task is  *)
(* over; the interval of the watcher is not changed.                       *)
(***************************************************************************)
EXTENDS Naturals, Sequences, SequencesExt, FiniteSets

CONSTANTS
    Accounts,
    MaxReads,           \* bound: calls of connectWallet and refreshWallet
    MaxWalletChanges    \* bound: changes of the wallet by its user

ASSUME WalletAssumption == MaxReads \in Nat /\ MaxWalletChanges \in Nat

VARIABLES
    usesFreighter,
    wallet,         \* [installed, allowed, account]
    walletChanges,  \* changes of the wallet so far
    walletState,    \* [publicKey, isAvailable, isConnected, isLoading, error]
    mounting,       \* "rendered", "mounted", "unmounted"
    watcher,        \* "none", "loading", "watching"
    walletReads,    \* reads begun: [stage, requireAccess, and, as history, the changes before]
    shownAfter      \* history: changes before the read whose result is shown

wpVars == <<usesFreighter, wallet, walletChanges, walletState, mounting, watcher, walletReads, shownAfter>>

NoAccount == "none"
Wallet == [installed : BOOLEAN, allowed : BOOLEAN, account : Accounts \cup {NoAccount}]

WPInit ==
    /\ usesFreighter \in BOOLEAN
    /\ wallet \in Wallet
    /\ walletChanges = 0
    /\ walletState = [publicKey |-> NoAccount, isAvailable |-> TRUE, isConnected |-> FALSE,
                      isLoading |-> TRUE, error |-> FALSE]
    /\ mounting = "rendered"
    /\ watcher = "none"
    /\ walletReads = <<>>
    /\ shownAfter = 0

\* connectWallet and refreshWallet, up to the answer they await.
BeginRead(requireAccess) ==
    /\ Len(walletReads) < MaxReads
    /\ walletReads' = Append(walletReads,
            [stage |-> IF usesFreighter THEN "availability" ELSE "address",
             requireAccess |-> requireAccess, began |-> walletChanges])
    /\ walletState' = [walletState EXCEPT !.isLoading = TRUE]

ReadWallet(requireAccess) ==
    /\ mounting = "mounted"
    /\ BeginRead(requireAccess)
    /\ UNCHANGED <<usesFreighter, wallet, walletChanges, mounting, watcher, shownAfter>>

\* The effect: a first refresh, and the watcher of Freighter is loaded.
Mount ==
    /\ mounting = "rendered"
    /\ mounting' = "mounted"
    /\ BeginRead(FALSE)
    /\ watcher' = IF usesFreighter THEN "loading" ELSE "none"
    /\ UNCHANGED <<usesFreighter, wallet, walletChanges, shownAfter>>

\* The effect's cleanup, with its watcher and listeners; reads go on.
Unmount ==
    /\ mounting = "mounted"
    /\ mounting' = "unmounted"
    /\ watcher' = "none"
    /\ UNCHANGED <<usesFreighter, wallet, walletChanges, walletState, walletReads, shownAfter>>

Show(account, available) ==
    walletState' = [publicKey |-> account, isAvailable |-> available,
                    isConnected |-> account # NoAccount, isLoading |-> FALSE, error |-> FALSE]

\* A read ends, and shows what it has read.
ReadOver(r) == walletReads' = [walletReads EXCEPT ![r] = [@ EXCEPT !.stage = "over", !.began = 0]]

\* getFreighterAvailability answers.
AvailabilityAnswered(r) ==
    LET read == walletReads[r] IN
    /\ r \in DOMAIN walletReads /\ read.stage = "availability"
    /\ IF wallet.installed /\ (read.requireAccess \/ wallet.allowed)
       THEN /\ walletReads' = [walletReads EXCEPT ![r].stage = "address"]
            /\ UNCHANGED <<walletState, shownAfter>>
       ELSE /\ ReadOver(r)
            /\ Show(NoAccount, wallet.installed)
            /\ shownAfter' = read.began
    /\ UNCHANGED <<usesFreighter, wallet, walletChanges, mounting, watcher>>

Readable == IF usesFreighter /\ ~(wallet.installed /\ wallet.allowed) THEN NoAccount ELSE wallet.account

\* The address is read as it is; a user asked for access to Freighter gives it
\* now (a refusal is a failure).
AddressAnswered(r) ==
    LET read   == walletReads[r]
        grants == usesFreighter /\ read.requireAccess /\ wallet.installed /\ ~wallet.allowed
    IN  /\ r \in DOMAIN walletReads /\ read.stage = "address"
        /\ ReadOver(r)
        /\ wallet' = [wallet EXCEPT !.allowed = @ \/ grants]
        /\ IF grants
           THEN /\ walletChanges < MaxWalletChanges
                /\ walletChanges' = walletChanges + 1
                /\ shownAfter' = walletChanges'
                /\ Show(wallet.account, TRUE)
           ELSE /\ shownAfter' = read.began
                /\ Show(Readable, TRUE)
                /\ UNCHANGED walletChanges
        /\ UNCHANGED <<usesFreighter, mounting, watcher>>

\* Either request fails: the state is cleared, with the error.
ReadFails(r) ==
    /\ r \in DOMAIN walletReads /\ walletReads[r].stage # "over"
    /\ ReadOver(r)
    /\ \E available \in BOOLEAN :
          walletState' = [publicKey |-> NoAccount, isAvailable |-> available, isConnected |-> FALSE,
                          isLoading |-> FALSE, error |-> TRUE]
    /\ UNCHANGED <<usesFreighter, wallet, walletChanges, mounting, watcher, shownAfter>>

\* The module of Freighter is there, or has no watcher.
WatcherLoaded ==
    /\ watcher = "loading"
    /\ watcher' \in {"watching", "none"}
    /\ UNCHANGED <<usesFreighter, wallet, walletChanges, walletState, mounting, walletReads, shownAfter>>

\* It is not: an error is shown, unless it is that no wallet is installed.
WatcherFails ==
    /\ watcher = "loading"
    /\ watcher' = "none"
    /\ \E error \in BOOLEAN :
          walletState' = [walletState EXCEPT !.isAvailable = error, !.isLoading = FALSE, !.error = error]
    /\ UNCHANGED <<usesFreighter, wallet, walletChanges, mounting, walletReads, shownAfter>>

\* The watcher reports the address as it is.
WatcherReports ==
    /\ watcher = "watching"
    /\ Show(Readable, TRUE)
    /\ shownAfter' = walletChanges
    /\ UNCHANGED <<usesFreighter, wallet, walletChanges, mounting, watcher, walletReads>>

UserChangesWallet ==
    /\ walletChanges < MaxWalletChanges
    /\ walletChanges' = walletChanges + 1
    /\ wallet' \in Wallet \ {wallet}
    /\ UNCHANGED <<usesFreighter, walletState, mounting, watcher, walletReads, shownAfter>>

\* The wallet answers a request of the read, or the request fails.
ReadAnswered(r) == AvailabilityAnswered(r) \/ AddressAnswered(r) \/ ReadFails(r)

WPSystem ==
    \/ \E r \in 1..MaxReads : ReadAnswered(r)
    \/ WatcherLoaded \/ WatcherFails
WPNext ==
    \/ WPSystem \/ Mount \/ Unmount \/ WatcherReports \/ UserChangesWallet
    \/ \E requireAccess \in BOOLEAN : ReadWallet(requireAccess)

WPOver == \A r \in DOMAIN walletReads : walletReads[r].stage = "over"
ReadNotUnderWay(r) == r \in DOMAIN walletReads => walletReads[r].stage = "over"

-------------------------------------------------------------------------------
WPTypeOK ==
    /\ usesFreighter \in BOOLEAN /\ wallet \in Wallet
    /\ {walletChanges, shownAfter} \subseteq 0..MaxWalletChanges
    /\ walletState \in [publicKey : Accounts \cup {NoAccount}, isAvailable : BOOLEAN,
                        isConnected : BOOLEAN, isLoading : BOOLEAN, error : BOOLEAN]
    /\ mounting \in {"rendered", "mounted", "unmounted"}
    /\ watcher \in {"none", "loading", "watching"}
    /\ walletReads \in Seq([stage : {"availability", "address", "over"}, requireAccess : BOOLEAN,
                            began : 0..MaxWalletChanges])

\* In whatever order reads, failures and reports end: connected is said with an
\* account and only then; loading ends with the last read; and what is shown is
\* the wallet, unless the wallet has changed since the read that is shown began.
WalletShown ==
    /\ walletState.isConnected <=> walletState.publicKey # NoAccount
    /\ WPOver /\ mounting # "rendered" => ~walletState.isLoading
    /\ walletState.isConnected /\ shownAfter = walletChanges => walletState.publicKey = Readable
===============================================================================
