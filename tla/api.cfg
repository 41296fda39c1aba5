SPECIFICATION Spec
CONSTANTS
    Names = {1, 2, 3, 4}
    Services = {1, 2, 3}
    Escaped = {3}
    Descriptions = {"", "mail", "ssh"}
    MaxPage = 3
    Hosts <- MCHosts
    Changes <- MCChanges
    MaxChanges = 2
    Filters <- MCFilters
    Limits = {0, 1, 2}
    Queries <- MCQueries
    HeaderIds <- MCHeaderIds
INVARIANTS
    PagesComplete PagesAdvance NoneMissed DetailAgrees ErrorsCarryId
