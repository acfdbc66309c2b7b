------------------------- MODULE MCModelCachePlugin -------------------------
(* Sizes are in units of the 1 MiB accounted for a download; a directory of*)
(* the Hugging Face cache that the scan finds counts one unit for each     *)
(* file.                                                                   *)
EXTENDS ModelCachePlugin, TLC

CONSTANTS m1, m2, org, orgModel, dashed, nameless

OneRev == {1}
TwoRevs == {1, 2}

(* Ids without "/" or upper case letters: each has its own name.           *)
Plain == [m \in Model |-> m]

Loader(p, m) == [driver |-> DriverName,
                 params |-> [form |-> "strict", provider |-> p, model |-> m]]
Request(p, m) == [provider |-> p, model |-> m]

(* README.md:97: one request, one ModelLoader.                             *)
Ordinary(p, m) == [config |-> <<Loader(p, m)>>, requests |-> <<Request(p, m)>>]

(* One provider; models, claims, goroutines and files are alike.           *)
FromHuggingFace == {Ordinary("huggingface", m) : m \in Model}
Symmetric == Permutations(Claim) \union Permutations(Fetcher)
             \union Permutations(Model) \union Permutations(File)

(* Each provider has a model of its own.                                   *)
OneForEach == {Ordinary("huggingface", m1), Ordinary("gcs", m2)}

(* Both providers, and ids that meet: org/model is in the directory of org,*)
(* org-model has its device name, and both providers have an org/model.    *)
Orgs == [m \in Model |-> IF m = orgModel THEN org ELSE m]
Names == [m \in Model |-> IF m = dashed THEN orgModel ELSE m]

NothingLeft == {[gcs |-> {}, huggingface |-> {}]}
SomethingLeft == {[gcs |-> {dashed, orgModel}, huggingface |-> {}],
                  [gcs |-> {dashed}, huggingface |-> {orgModel}]}
SymmetricClaims == Permutations(Claim) \union Permutations(GcsFetcher)

(* A claim with two devices and configurations for another driver, without *)
(* parameters and with one loader for both; and claims that should not be  *)
(* admitted: without an id, and with a misspelt field before a good loader.*)
Meeting ==
    {Ordinary("gcs", orgModel), Ordinary("gcs", dashed),
     Ordinary("huggingface", orgModel),
     [config |-> <<[driver |-> "other", params |-> Loader("gcs", dashed).params],
                   [driver |-> DriverName, params |-> NoLoader],
                   Loader("gcs", orgModel)>>,
      requests |-> <<Request("huggingface", orgModel), Request("gcs", orgModel)>>],
     Ordinary("gcs", nameless),
     [config |-> <<[driver |-> DriverName,
                    params |-> [form |-> "lenient", provider |-> "gcs",
                                model |-> nameless]]>>,
      requests |-> <<Request("gcs", orgModel)>>]}
=============================================================================
