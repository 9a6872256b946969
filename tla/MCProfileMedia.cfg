CONSTANTS
    Request = {r1, r2}
    Name = {n1, n2}
    Limit = 2
    MaxGallery = 2
SPECIFICATION Spec
INVARIANTS
    FlagCoversUpload
    VideosAsRequested
    GalleryWithinPlan
PROPERTIES
    ProcessingEnds
CHECK_DEADLOCK FALSE
