------------------------------ MODULE Webhook ------------------------------
(* cmd/model-cache-webhook: which ResourceClaims and ResourceClaimTemplates*)
(* are admitted.  The webhook keeps nothing from one request to the next,  *)
(* so it is one predicate.                                                 *)
(*                                                                         *)
(* An opaque configuration carries parameters, which are here              *)
(*   form      "absent"   there is no raw JSON                             *)
(*             "garbled"  the decoder gets no object out of it             *)
(*             "lenient"  an object, with an error: a field is unknown     *)
(*             "strict"   an object                                        *)
(*   provider, model      of the ModelLoader, Empty for the empty string   *)
CONSTANTS Empty, DriverName

(* The resources the webhook knows, each in three versions of the API.     *)
Versions == {"v1", "v1beta1", "v1beta2"}
Known == {"resourceclaims", "resourceclaimtemplates"} \X Versions

Decodes(params) == params.form = "strict"

(* What Decode returns besides the error.                                  *)
HasObject(params) == params.form \in {"lenient", "strict"}

(* Mutant of validateModelLoader: the model id is not looked at.           *)
validateProvider(params) == params.provider # Empty

validateModelLoader(params) == /\ params.provider # Empty
                               /\ params.model # Empty

(* extractResourceClaim, extractResourceClaimTemplate: the object is       *)
(* decoded as the version of the request and converted to v1.              *)
Extracted(request) == request.decodes

(* The parameters of the configurations of this driver.                    *)
OpaqueParams(request) ==
    {request.config[i].params : i \in {j \in DOMAIN request.config :
                                          request.config[j].driver = DriverName}}

(* admitResourceClaimParameters.                                           *)
Admitted(request) ==
    \/ request.resource \notin Known
    \/ /\ Extracted(request)
       /\ \A params \in OpaqueParams(request) :
             params.form # "absent" => /\ Decodes(params)
                                       /\ validateModelLoader(params)
=============================================================================
