\* One tab with two calls under way, a token and its renewal, a draft and a text a human may
\* put in its place, and one sample more than the audit page lists.
SPECIFICATION Spec
CONSTANTS
    Slots = {c1, c2}
    MaxTokens = 2
    FirstDraft = "draft text"
    Revisions = {"rev1"}
    Texts = {"draft text", "rev1"}
    PageSize = 1
    MaxSamples = 2
INVARIANTS TypeOK RefusedTokenStaysOut AuditShowsVerdicts
PROPERTY ApprovesAsShown
SYMMETRY Symmetric
