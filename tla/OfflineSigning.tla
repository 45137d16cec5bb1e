----------------------------- MODULE OfflineSigning -----------------------------
(***************************************************************************)
(* Transactions built on one machine, signed on another and sent from a    *)
(* third: OfflineTransactionBuilder                                        *)
(* (src/builders/offlineTransactionBuilder.ts), signWithKeypair and        *)
(* parseTransactionXdr of src/client/stellarClient.ts, the local wallet    *)
(* (src/wallet/walletConnector.ts) and bumpTransactionFee                  *)
(* (src/utils/transactionBuilder.ts).                                      *)
(*                                                                         *)
(* An envelope does not say of which network it is.  Whoever makes a       *)
(* transaction of it says so, and a signature made then is one for that    *)
(* network only.  One account; a signature is the network it is for.       *)
(***************************************************************************)
EXTENDS Naturals, Sequences, SequencesExt, FiniteSets

CONSTANTS
    Passphrases,        \* of the networks
    MaxOperations,      \* MAX_OPERATIONS_PER_TRANSACTION
    MaxTransactions,    \* bound: transactions at hand
    MaxSignatures,      \* bound: signatures of each
    MaxPackages         \* bound: packages exported

ASSUME SigningAssumption == {MaxOperations, MaxTransactions, MaxSignatures, MaxPackages} \subseteq Nat \ {0}

VARIABLES
    builders,       \* [network, operations] of each builder
    txs,            \* all transactions made, in order
    packages,       \* what was exported: [envelope, network], and of which transaction
    ledgers,        \* network -> sequence number of the account there
    accepted        \* history: [network, builder] of the transactions the ledgers accepted

osVars == <<builders, txs, packages, ledgers, accepted>>

Builders == {1, 2}

\* The sequence number every builder is given, and the one the account has at first.
GivenSequence == 0

\* What travels as XDR.  The outer signatures are those of a fee bump.
Envelopes == [sequence : Nat, operations : 1..MaxOperations, signatures : Seq(Passphrases),
              bumped : BOOLEAN, outer : Seq(Passphrases)]

\* A transaction: an envelope taken to be of a network.  History: the builder it
\* comes from, and whether it was taken to be of another network on its way.
Transactions == [envelope : Envelopes, network : Passphrases, builder : Builders, strayed : BOOLEAN]

\* Networks are alike: whichever the first builder is for.
OSInit ==
    /\ builders \in [Builders -> [network : Passphrases, operations : {0}]]
    /\ builders[1].network = CHOOSE p \in Passphrases : TRUE
    /\ txs = <<>>
    /\ packages = {}
    /\ ledgers = [p \in Passphrases |-> GivenSequence]
    /\ accepted = <<>>

Made(i) == txs[i]

\* fromXDR: the envelope of another transaction, taken to be of a network.
FromXdr(envelope, network, like) ==
    [envelope |-> envelope, network |-> network, builder |-> like.builder,
     strayed |-> like.strayed \/ network # builders[like.builder].network]

Keep(tx) ==
    /\ Len(txs) < MaxTransactions
    /\ txs' = Append(txs, tx)

AddOperation(b) ==
    /\ builders[b].operations <= MaxOperations
    /\ builders' = [builders EXCEPT ![b].operations = @ + 1]
    /\ UNCHANGED <<txs, packages, ledgers, accepted>>

\* An Account is made anew each time, so a builder builds with one number only.
BuildOffline(b) ==
    /\ builders[b].operations \in 1..MaxOperations
    /\ Keep([envelope |-> [sequence |-> GivenSequence + 1, operations |-> builders[b].operations,
                           signatures |-> <<>>, bumped |-> FALSE, outer |-> <<>>],
             network |-> builders[b].network, builder |-> b, strayed |-> FALSE])
    /\ UNCHANGED <<builders, packages, ledgers, accepted>>

\* The network of a package is that of the builder that exports it, whichever
\* built the transaction.
Export(b, i) ==
    /\ ~Made(i).envelope.bumped
    /\ Cardinality(packages) < MaxPackages
    /\ packages' = packages \cup {[envelope |-> Made(i).envelope, network |-> builders[b].network, of |-> i]}
    /\ UNCHANGED <<builders, txs, ledgers, accepted>>

Import(package) ==
    /\ ~package.envelope.bumped
    /\ Keep(FromXdr(package.envelope, package.network, Made(package.of)))
    /\ UNCHANGED <<builders, packages, ledgers, accepted>>

\* parseTransactionXdr, which takes any envelope.
ParseTransactionXdr(i, network) ==
    /\ Keep(FromXdr(Made(i).envelope, network, Made(i)))
    /\ UNCHANGED <<builders, packages, ledgers, accepted>>

\* sign: a fee bump has signatures of its own.
Signed(tx) ==
    IF tx.envelope.bumped THEN [tx EXCEPT !.envelope.outer = Append(@, tx.network)]
    ELSE [tx EXCEPT !.envelope.signatures = Append(@, tx.network)]

Roomy(i) == Len(Made(i).envelope.signatures) < MaxSignatures /\ Len(Made(i).envelope.outer) < MaxSignatures

\* The transaction itself is signed.
SignWithKeypair(i) ==
    /\ Roomy(i)
    /\ txs' = [txs EXCEPT ![i] = Signed(@)]
    /\ UNCHANGED <<builders, packages, ledgers, accepted>>

\* The local wallet signs what it parses, a copy.
SignTransaction(i, network) ==
    /\ Roomy(i)
    /\ Keep(Signed(FromXdr(Made(i).envelope, network, Made(i))))
    /\ UNCHANGED <<builders, packages, ledgers, accepted>>

BumpTransactionFee(i, network) ==
    /\ ~Made(i).envelope.bumped
    /\ Made(i).envelope.signatures # <<>>
    /\ Keep(FromXdr([Made(i).envelope EXCEPT !.bumped = TRUE], network, Made(i)))
    /\ UNCHANGED <<builders, packages, ledgers, accepted>>

\* The ledger: the next number, and the one signature that is needed, for this
\* network; it refuses a transaction with signatures to spare.
Send(i, network) ==
    LET envelope == Made(i).envelope IN
    /\ envelope.sequence = ledgers[network] + 1
    /\ envelope.signatures = <<network>>
    /\ envelope.bumped => envelope.outer = <<network>>
    /\ ledgers' = [ledgers EXCEPT ![network] = @ + 1]
    /\ accepted' = Append(accepted, [network |-> network, builder |-> Made(i).builder])
    /\ UNCHANGED <<builders, txs, packages>>

OSNext ==
    \/ \E b \in Builders : AddOperation(b) \/ BuildOffline(b) \/ \E i \in DOMAIN txs : Export(b, i)
    \/ \E package \in packages : Import(package)
    \/ \E i \in DOMAIN txs :
          \/ SignWithKeypair(i)
          \/ \E network \in Passphrases :
                \/ ParseTransactionXdr(i, network) \/ SignTransaction(i, network)
                \/ BumpTransactionFee(i, network) \/ Send(i, network)

-------------------------------------------------------------------------------
OSTypeOK ==
    /\ builders \in [Builders -> [network : Passphrases, operations : 0..MaxOperations + 1]]
    /\ txs \in Seq(Transactions)
    /\ packages \subseteq [envelope : Envelopes, network : Passphrases, of : DOMAIN txs]
    /\ ledgers \in [Passphrases -> Nat]
    /\ accepted \in Seq([network : Passphrases, builder : Builders])

\* However a transaction travels and whoever signs it, in place or as a copy: one
\* that no station took to be of another network is still of the network it was
\* built for and signed for no other; a fee bump wraps a signed transaction; and
\* a builder, however often it builds, gets one transaction accepted by a network.
SignedForItsNetwork ==
    /\ \A i \in DOMAIN txs :
          LET tx == txs[i] IN
          /\ ~tx.strayed => /\ tx.network = builders[tx.builder].network
                            /\ ToSet(tx.envelope.signatures \o tx.envelope.outer) \subseteq {tx.network}
          /\ tx.envelope.bumped => tx.envelope.signatures # <<>>
    /\ IsInjective(accepted)
===============================================================================
